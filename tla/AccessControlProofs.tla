--------------------------- MODULE AccessControlProofs -------------------------
(***************************************************************************)
(* Replacements, deletions and assignments of roles for any number of      *)
(* requests, roles, permissions and units.  What has to be known of a      *)
(* request under way is which rows of its role it still has to delete,     *)
(* which it has deleted and which it has inserted; two requests that       *)
(* change one role at a time are `contested`, and nothing is claimed of    *)
(* their role but that the last of them to commit has its rows in force.   *)
(***************************************************************************)
EXTENDS AccessControl, TLAPS, NaturalsInduction, WellFoundedInduction, FiniteSetTheorems

\* A request under way is about a role, and one that changes it found it there.
AboutARole ==
  \A r \in Requests :
    /\ pc[r] \in Changing \cup {"assigning"} => task[r].role \in Roles
    /\ pc[r] \in Changing => life[task[r].role] # "none"

\* Two requests that change one role are on record, and only such wait for a row.
Contests ==
  /\ \A q, r \in Requests :
       q # r /\ pc[q] \in Changing /\ pc[r] \in Changing /\ task[q].role = task[r].role
         => task[r].role \in contested
  /\ \A r \in Requests : pc[r] \in Changing /\ task[r].queue # Null => task[r].role \in contested

\* What a replacement has done: the rows it read are gone or going, the rows inserted are of
\* those asked for, together with the rest they are all of them, and it is at one of the rest.
Progress ==
  \A r \in Requests :
    /\ pc[r] = "deleting" =>
         /\ task[r].inserted = {}
         /\ task[r].role \notin contested => perms[task[r].role] \subseteq task[r].todo \cup task[r].deleted
    /\ pc[r] = "inserting" =>
         /\ task[r].inserted \cup task[r].todo = task[r].found
         /\ task[r].next \in NextOf(task[r].todo)
         /\ task[r].role \notin contested => perms[task[r].role] \subseteq task[r].deleted

\* A request whose role was deleted meanwhile has inserted no row of it.
NothingForTheDeleted ==
  \A r \in Requests : pc[r] \in Changing /\ life[task[r].role] = "deleted" => task[r].inserted = {}

IInv ==
  /\ TypeOK
  /\ AboutARole
  /\ Contests
  /\ Progress
  /\ NothingForTheDeleted
  /\ LastReplacementInForce
  /\ DeletedRolesGrantNothing

--------------------------------------------------------------------------------
\* The row of the smallest key, which a statement takes first, is one of the rows.
LEMMA MinIsThere ==
  ASSUME NEW S, S \subseteq Nat, S # {}
  PROVE  Min(S) \in S /\ \A y \in S : Min(S) <= y
  <1> DEFINE Less == {ss \in Nat \X Nat : ss[1] < ss[2]}
  <1>0. OpToRel(<, Nat) = Less
    BY DEF OpToRel
  <1>1. IsWellFoundedOn(Less, Nat)
    BY <1>0, NatLessThanWellFounded
  <1>a. PICK x \in S : \A y \in S : <<y, x>> \notin Less
    <2> HIDE DEF Less
    <2> QED
      BY <1>1, WFMin
  <1>2. ASSUME NEW y \in S PROVE x <= y
    <2>1. x \in Nat /\ y \in Nat
      OBVIOUS
    <2>2. y < x => <<y, x>> \in Less
      BY <2>1
    <2>3. ~(y < x)
      BY <1>a, <2>2
    <2> HIDE DEF Less
    <2> QED
      BY <2>1, <2>3
  <1> QED
    BY <1>2 DEF Min

--------------------------------------------------------------------------------
(* The organization tree. *)

\* The loop of get_self_and_ancestor_ids() is well defined.
LEMMA ClimbSteps ==
  ASSUME NEW unit
  PROVE  Climb(unit) = [depth \in 0..MaxDepth |->
           IF depth = 0 THEN unit
           ELSE IF Climb(unit)[depth - 1] = Null THEN Null ELSE parent[Climb(unit)[depth - 1]]]
  <1> DEFINE Up(u) == IF u = Null THEN Null ELSE parent[u]
             Path(f, n) == f = [depth \in 0..n |-> IF depth = 0 THEN unit ELSE Up(f[depth - 1])]
             Bad == {n \in Nat : ~ \E f : Path(f, n)}
  <1>1. ASSUME NEW n \in Nat, n # 0, NEW f, Path(f, n - 1) PROVE \E g : Path(g, n)
    <2> DEFINE g == [depth \in 0..n |-> IF depth = n THEN Up(f[n - 1]) ELSE f[depth]]
    <2>1. ASSUME NEW depth \in 0..n
          PROVE  g[depth] = IF depth = 0 THEN unit ELSE Up(g[depth - 1])
      <3> HIDE DEF Up
      <3>1. CASE depth = n
        <4>1. n - 1 \in 0..n /\ n - 1 # n
          BY <1>1
        <4> QED
          BY <1>1, <3>1, <4>1
      <3>2. CASE depth # n /\ depth # 0
        <4>1. depth \in 0..(n - 1) /\ depth - 1 \in 0..n /\ depth - 1 # n
          BY <1>1, <3>2
        <4> QED
          BY <1>1, <3>2, <4>1
      <3>3. CASE depth # n /\ depth = 0
        <4>1. 0 \in 0..(n - 1)
          BY <1>1
        <4> QED
          BY <1>1, <3>3, <4>1
      <3> QED
        BY <3>1, <3>2, <3>3
    <2> HIDE DEF Up
    <2>2. g = [depth \in 0..n |-> g[depth]]
      OBVIOUS
    <2> HIDE DEF g
    <2>3. g = [depth \in 0..n |-> IF depth = 0 THEN unit ELSE Up(g[depth - 1])]
      BY <2>1, <2>2
    <2> QED
      BY <2>3
  <1>2. \E f : Path(f, 0)
    <2> DEFINE f == [depth \in 0..0 |-> unit]
    <2>1. f = [depth \in 0..0 |-> IF depth = 0 THEN unit ELSE Up(f[depth - 1])]
      BY \A depth \in 0..0 : depth = 0
    <2> QED
      BY <2>1
  <1> HIDE DEF Path
  <1>3. Bad = {}
    <2> SUFFICES ASSUME Bad # {} PROVE FALSE
      OBVIOUS
    <2>1. Min(Bad) \in Bad /\ \A y \in Bad : Min(Bad) <= y
      BY MinIsThere
    <2> DEFINE n == Min(Bad)
    <2> HIDE DEF n
    <2>2. n \in Nat /\ ~ (\E f : Path(f, n)) /\ \A y \in Bad : n <= y
      BY <2>1 DEF n
    <2>3. n # 0
      BY <1>2, <2>2
    <2>4. n - 1 \in Nat /\ n - 1 \notin Bad
      BY <2>2, <2>3
    <2>5. PICK f : Path(f, n - 1)
      BY <2>4
    <2> QED
      BY <1>1, <2>2, <2>3, <2>5
  <1>4. \E f : Path(f, MaxDepth)
    BY <1>3, AccessAssumption
  <1>5. Climb(unit) = CHOOSE f : Path(f, MaxDepth)
    BY DEF Climb, Path
  <1>6. Path(Climb(unit), MaxDepth)
    BY <1>4, <1>5
  <1> QED
    BY <1>6 DEF Path

LEMMA ClimbStarts ==
  ASSUME NEW unit
  PROVE  /\ Climb(unit)[0] = unit
         /\ \A depth \in 0..(MaxDepth - 1) :
              Climb(unit)[depth + 1] = IF Climb(unit)[depth] = Null THEN Null
                                       ELSE parent[Climb(unit)[depth]]
  <1>1. 0 \in 0..MaxDepth
    BY AccessAssumption
  <1>2. \A depth \in 0..(MaxDepth - 1) : depth + 1 \in 0..MaxDepth /\ depth + 1 # 0 /\ (depth + 1) - 1 = depth
    BY AccessAssumption
  <1> DEFINE c == Climb(unit)
  <1>3. c = [depth \in 0..MaxDepth |->
              IF depth = 0 THEN unit ELSE IF c[depth - 1] = Null THEN Null ELSE parent[c[depth - 1]]]
    BY ClimbSteps
  <1> HIDE DEF c
  <1>4. c[0] = unit
    BY <1>1, <1>3
  <1>5. \A depth \in 0..(MaxDepth - 1) :
          c[depth + 1] = IF c[depth] = Null THEN Null ELSE parent[c[depth]]
    <2> TAKE depth \in 0..(MaxDepth - 1)
    <2>1. c[depth + 1] = IF c[(depth + 1) - 1] = Null THEN Null ELSE parent[c[(depth + 1) - 1]]
      BY <1>2, <1>3
    <2> QED
      BY <1>2, <2>1
  <1> QED
    BY <1>4, <1>5 DEF c

\* Every unit the climb comes to has the unit it starts from in its subtree.
LEMMA AncestorsAreAbove ==
  ASSUME TypeOK, NEW unit \in Units
  PROVE  SelfAndAncestors(unit) \subseteq Above(unit)
  <1> DEFINE c == Climb(unit)
             Bad == {depth \in 0..(MaxDepth - 1) : c[depth] # Null /\ c[depth] \notin Above(unit)}
  <1>1. /\ c[0] = unit
        /\ \A depth \in 0..(MaxDepth - 1) :
             c[depth + 1] = IF c[depth] = Null THEN Null ELSE parent[c[depth]]
    BY ClimbStarts
  <1> HIDE DEF c
  <1>2. unit \in Above(unit)
    BY DEF Above
  <1>3. ASSUME NEW top \in Above(unit), parent[top] # Null PROVE parent[top] \in Above(unit)
    <2>1. top \in Units /\ parent[top] \in Units
      BY <1>3 DEF Above, TypeOK
    <2>2. ASSUME NEW subtree \in SUBSET Units, parent[top] \in subtree,
                 \A u \in Units : parent[u] \in subtree => u \in subtree
          PROVE  unit \in subtree
      <3>1. top \in subtree
        BY <2>1, <2>2
      <3> QED
        BY <1>3, <2>2, <3>1 DEF Above
    <2> QED
      BY <2>1, <2>2 DEF Above
  <1>4. Bad = {}
    <2> SUFFICES ASSUME Bad # {} PROVE FALSE
      OBVIOUS
    <2> DEFINE n == Min(Bad)
    <2>1. n \in Bad /\ \A y \in Bad : n <= y
      <3>1. Bad \subseteq Nat
        OBVIOUS
      <3> HIDE DEF Bad
      <3> QED
        BY <3>1, MinIsThere
    <2> HIDE DEF n
    <2>2. n \in 0..(MaxDepth - 1) /\ c[n] # Null /\ c[n] \notin Above(unit)
      BY <2>1
    <2>3. n # 0
      BY <1>1, <1>2, <2>2
    <2>4. n - 1 \in 0..(MaxDepth - 1) /\ (n - 1) + 1 = n /\ ~(n <= n - 1)
      BY <2>2, <2>3, AccessAssumption
    <2>5. n - 1 \notin Bad
      BY <2>1, <2>4
    <2>6. c[n] = IF c[n - 1] = Null THEN Null ELSE parent[c[n - 1]]
      BY <1>1, <2>4
    <2>7. c[n - 1] # Null /\ c[n - 1] \in Above(unit)
      BY <2>2, <2>4, <2>5, <2>6
    <2> QED
      BY <1>3, <2>2, <2>6, <2>7
  <1> QED
    BY <1>4 DEF SelfAndAncestors, c

\* The loop ends of itself, at the root, before _MAX_DEPTH ends it.
RootsReached == \A unit \in Units : Climb(unit)[MaxDepth] = Null

\* Then it comes to every unit that has the one it starts from in its subtree.
LEMMA AboveAreAncestors ==
  ASSUME TypeOK, RootsReached, NEW unit \in Units
  PROVE  Above(unit) \subseteq SelfAndAncestors(unit)
  <1> DEFINE c == Climb(unit)
             rest == Units \ SelfAndAncestors(unit)
  <1>1. /\ c[0] = unit
        /\ \A depth \in 0..(MaxDepth - 1) :
             c[depth + 1] = IF c[depth] = Null THEN Null ELSE parent[c[depth]]
        /\ c[MaxDepth] = Null
    BY ClimbStarts DEF RootsReached
  <1>2. SelfAndAncestors(unit) = {c[depth] : depth \in 0..(MaxDepth - 1)} \ {Null}
    BY DEF SelfAndAncestors
  <1> HIDE DEF c
  <1>3. unit \notin rest
    <2>1. 0 \in 0..(MaxDepth - 1) /\ unit # Null
      BY AccessAssumption
    <2> QED
      BY <1>1, <1>2, <2>1
  <1>4. ASSUME NEW u \in SelfAndAncestors(unit) PROVE parent[u] \notin rest
    <2>1. PICK depth \in 0..(MaxDepth - 1) : u = c[depth] /\ u # Null
      BY <1>2, <1>4
    <2>2. c[depth + 1] = parent[u]
      BY <1>1, <2>1
    <2>3. CASE depth + 1 = MaxDepth
      BY <1>1, <2>2, <2>3, AccessAssumption
    <2>4. CASE depth + 1 # MaxDepth
      <3>1. depth + 1 \in 0..(MaxDepth - 1)
        BY <2>4, AccessAssumption
      <3> QED
        BY <1>2, <2>2, <3>1, AccessAssumption
    <2> QED
      BY <2>3, <2>4
  <1>5. \A u \in Units : parent[u] \in rest => u \in rest
    BY <1>4
  <1> QED
    <2> SUFFICES ASSUME NEW top \in Above(unit), top \in rest PROVE FALSE
      BY DEF Above
    <2> HIDE DEF rest
    <2>1. rest \in SUBSET Units
      BY DEF rest
    <2> QED
      BY <1>3, <1>5, <2>1 DEF Above

\* The loop comes to the root of any tree that has at most _MAX_DEPTH units: if it went on it
\* would meet one of them twice, and the units between would have no root above them.
LEMMA RootsOfSmallTrees ==
  ASSUME Init, IsFiniteSet(Units), Cardinality(Units) <= MaxDepth
  PROVE  RootsReached
  <1> SUFFICES ASSUME NEW unit \in Units, Climb(unit)[MaxDepth] # Null
               PROVE  FALSE
    BY DEF RootsReached
  <1> DEFINE c == Climb(unit)
  <1>1. /\ c[0] = unit
        /\ \A depth \in 0..(MaxDepth - 1) :
             c[depth + 1] = IF c[depth] = Null THEN Null ELSE parent[c[depth]]
        /\ c[MaxDepth] # Null
    BY ClimbStarts
  <1> HIDE DEF c
  <1>2. MaxDepth \in Nat /\ unit # Null
    BY AccessAssumption
  <1>3. /\ parent \in [Units -> Units \cup {Null}]
        /\ \A top \in SUBSET Units : top # {} => \E u \in top : parent[u] \notin top
    BY DEF Init
  \* Once at the root, the loop stays there.
  <1>4. ASSUME NEW depth \in 0..MaxDepth PROVE c[depth] # Null
    <2> DEFINE Bad == {n \in 0..MaxDepth : c[MaxDepth - n] = Null}
    <2>1. Bad = {}
      <3> SUFFICES ASSUME Bad # {} PROVE FALSE
        OBVIOUS
      <3> DEFINE n == Min(Bad)
      <3>1. n \in Bad /\ \A y \in Bad : n <= y
        <4>1. Bad \subseteq Nat
          OBVIOUS
        <4> HIDE DEF Bad
        <4> QED
          BY <4>1, MinIsThere
      <3> HIDE DEF n
      <3>2. n \in 0..MaxDepth /\ c[MaxDepth - n] = Null
        BY <3>1
      <3>3. n # 0
        BY <1>1, <1>2, <3>2
      <3>4. /\ n - 1 \in 0..MaxDepth /\ MaxDepth - n \in 0..(MaxDepth - 1)
            /\ (MaxDepth - n) + 1 = MaxDepth - (n - 1) /\ ~(n <= n - 1)
        BY <1>2, <3>2, <3>3
      <3>5. c[MaxDepth - (n - 1)] = Null
        BY <1>1, <3>2, <3>4
      <3> QED
        BY <3>1, <3>4, <3>5
    <2>2. MaxDepth - depth \in 0..MaxDepth /\ MaxDepth - (MaxDepth - depth) = depth
      BY <1>2
    <2> QED
      BY <2>1, <2>2
  <1>5. ASSUME NEW depth \in 0..MaxDepth PROVE c[depth] \in Units
    <2> DEFINE Bad == {n \in 0..MaxDepth : c[n] \notin Units}
    <2>1. Bad = {}
      <3> SUFFICES ASSUME Bad # {} PROVE FALSE
        OBVIOUS
      <3> DEFINE n == Min(Bad)
      <3>1. n \in Bad /\ \A y \in Bad : n <= y
        <4>1. Bad \subseteq Nat
          OBVIOUS
        <4> HIDE DEF Bad
        <4> QED
          BY <4>1, MinIsThere
      <3> HIDE DEF n
      <3>2. n \in 0..MaxDepth /\ c[n] \notin Units
        BY <3>1
      <3>3. n # 0
        BY <1>1, <3>2
      <3>4. n - 1 \in 0..(MaxDepth - 1) /\ n - 1 \in 0..MaxDepth /\ (n - 1) + 1 = n /\ ~(n <= n - 1)
        BY <1>2, <3>2, <3>3
      <3>5. c[n - 1] \in Units
        BY <3>1, <3>4
      <3>6. c[n] = IF c[n - 1] = Null THEN Null ELSE parent[c[n - 1]]
        BY <1>1, <3>4
      <3>7. c[n] # Null
        BY <1>4, <3>2
      <3> QED
        BY <1>3, <3>2, <3>5, <3>6, <3>7
    <2> QED
      BY <2>1
  \* So it goes through one unit more than there are.
  <1>6. PICK i, j \in 0..MaxDepth : i # j /\ c[i] = c[j]
    <2> DEFINE Depths == 0..MaxDepth
               walk == [depth \in Depths |-> c[depth]]
    <2>1. IsFiniteSet(Depths) /\ Cardinality(Depths) = MaxDepth + 1
      <3>1. 0 \in Int /\ MaxDepth \in Int /\ ~(0 > MaxDepth) /\ (MaxDepth - 0) + 1 = MaxDepth + 1
        BY <1>2
      <3> QED
        BY <3>1, FS_Interval
    <2>2. walk \in [Depths -> Units]
      BY <1>5
    <2>3. Cardinality(Units) \in Nat
      BY FS_CardinalityType
    <2> HIDE DEF walk, Depths
    <2>4. Cardinality(Units) < Cardinality(Depths)
      BY <1>2, <2>1, <2>3
    <2>5. \E x, y \in Depths : x # y /\ walk[x] = walk[y]
      BY <2>1, <2>2, <2>4, FS_PigeonHole
    <2> QED
      BY <2>5 DEF walk, Depths
  \* The units between the two meetings are each below another of them.
  <1>7. ASSUME NEW k \in 0..MaxDepth, NEW l \in 0..MaxDepth, k < l, c[k] = c[l]
        PROVE  FALSE
    <2> DEFINE top == {c[depth] : depth \in k..(l - 1)}
    <2>1. \A depth \in k..(l - 1) :
            /\ depth \in 0..MaxDepth /\ depth \in 0..(MaxDepth - 1)
            /\ depth + 1 \in k..(l - 1) \/ depth + 1 = l
      BY <1>2, <1>7
    <2>2. k \in k..(l - 1)
      BY <1>7
    <2>3. top \subseteq Units
      BY <1>5, <2>1
    <2>4. c[k] \in top
      BY <2>2
    <2>5. ASSUME NEW u \in top PROVE parent[u] \in top
      <3>1. PICK depth \in k..(l - 1) : u = c[depth]
        OBVIOUS
      <3>2. c[depth + 1] = parent[u]
        BY <1>1, <1>4, <2>1, <3>1
      <3>3. CASE depth + 1 = l
        BY <1>7, <2>4, <3>2, <3>3
      <3>4. CASE depth + 1 \in k..(l - 1)
        BY <3>2, <3>4
      <3> QED
        BY <2>1, <3>3, <3>4
    <2> HIDE DEF top
    <2> QED
      BY <1>3, <2>3, <2>4, <2>5
  <1>8. i < j \/ j < i
    BY <1>6
  <1> QED
    BY <1>6, <1>7, <1>8

--------------------------------------------------------------------------------
LEMMA InitIInv == Init => IInv
  <1> SUFFICES ASSUME Init PROVE IInv
    OBVIOUS
  <1> USE DEF Init
  <1>1. TypeOK
    BY DEF TypeOK, Task, NoTask
  <1>2. AboutARole /\ Contests /\ Progress /\ NothingForTheDeleted
    BY DEF AboutARole, Contests, Progress, NothingForTheDeleted, Changing
  <1>3. LastReplacementInForce /\ DeletedRolesGrantNothing
    BY DEF LastReplacementInForce, DeletedRolesGrantNothing
  <1> QED
    BY <1>1, <1>2, <1>3 DEF IInv

\* A request that ends leaves nothing behind that the invariant speaks of.
LEMMA AnswerKeepsIInv ==
  ASSUME IInv, NEW r \in Requests, NEW answer \in Answers, Answer(r, answer),
         UNCHANGED <<parent, life, perms, assignments, audited, contested>>
  PROVE  IInv'
  <1> USE DEF IInv, Answer, Goto
  <1>1. TypeOK'
    BY DEF TypeOK, Task, NoTask
  <1>2. pc'[r] \notin Changing \cup {"assigning"}
    BY DEF Changing, Answers, TypeOK
  <1>3. \A q \in Requests \ {r} : pc'[q] = pc[q] /\ task'[q] = task[q]
    BY DEF TypeOK
  <1>4. AboutARole'
    BY <1>2, <1>3 DEF AboutARole
  <1>5. Contests'
    BY <1>2, <1>3 DEF Contests
  <1>6. Progress'
    BY <1>2, <1>3 DEF Progress, Changing
  <1>7. NothingForTheDeleted'
    BY <1>2, <1>3 DEF NothingForTheDeleted
  <1>8. LastReplacementInForce' /\ DeletedRolesGrantNothing'
    BY DEF LastReplacementInForce, DeletedRolesGrantNothing
  <1> QED
    BY <1>1, <1>4, <1>5, <1>6, <1>7, <1>8

LEMMA AnswerIsTyped ==
  ASSUME TypeOK, NEW r \in Requests, NEW answer \in Answers, Answer(r, answer)
  PROVE  /\ task' \in [Requests -> Task]
         /\ pc' \in [Requests -> {"idle", "assigning", "authenticated", "scoped"} \cup Changing \cup Answers]
  BY DEF TypeOK, Answer, Goto, Task, NoTask

\* Neither does a request that reads, or has yet to insert an assignment.
LEMMA ReadingKeepsIInv ==
  ASSUME IInv, NEW r \in Requests, NEW place \in {"assigning", "authenticated", "scoped"},
         NEW new \in Task, place = "assigning" => new.role \in Roles,
         Goto(r, place), task' = [task EXCEPT ![r] = new],
         UNCHANGED <<parent, life, perms, assignments, audited, contested>>
  PROVE  IInv'
  <1> USE DEF IInv, Goto
  <1>1. TypeOK'
    BY DEF TypeOK
  <1>2. pc'[r] = place /\ pc'[r] \notin Changing /\ task'[r] = new
    BY DEF Changing, TypeOK
  <1>3. \A q \in Requests \ {r} : pc'[q] = pc[q] /\ task'[q] = task[q]
    BY DEF TypeOK
  <1>4. AboutARole'
    BY <1>2, <1>3 DEF AboutARole
  <1>5. Contests'
    BY <1>2, <1>3 DEF Contests
  <1>6. Progress'
    BY <1>2, <1>3 DEF Progress, Changing
  <1>7. NothingForTheDeleted'
    BY <1>2, <1>3 DEF NothingForTheDeleted
  <1>8. LastReplacementInForce' /\ DeletedRolesGrantNothing'
    BY DEF LastReplacementInForce, DeletedRolesGrantNothing
  <1> QED
    BY <1>1, <1>4, <1>5, <1>6, <1>7, <1>8

LEMMA CreateRoleKeepsIInv ==
  ASSUME IInv, NEW role \in Roles, NEW codes \in Payloads, CreateRole(role, codes)
  PROVE  IInv'
  <1> USE DEF IInv, CreateRole
  <1>1. TypeOK'
    BY AccessAssumption DEF TypeOK
  <1>2. /\ life'[role] = "live" /\ perms'[role] = codes \cap Permissions /\ audited'[role] = codes
        /\ \A other \in Roles \ {role} :
             life'[other] = life[other] /\ perms'[other] = perms[other] /\ audited'[other] = audited[other]
    BY DEF TypeOK
  <1>3. \A r \in Requests : pc[r] \in Changing => task[r].role \in Roles \ {role}
    BY DEF AboutARole
  <1>4. AboutARole'
    BY <1>2 DEF AboutARole
  <1>5. Contests'
    BY DEF Contests
  <1>6. Progress'
    BY <1>2, <1>3 DEF Progress, Changing
  <1>7. NothingForTheDeleted'
    BY <1>2, <1>3 DEF NothingForTheDeleted
  <1>8. LastReplacementInForce' /\ DeletedRolesGrantNothing'
    BY <1>2 DEF LastReplacementInForce, DeletedRolesGrantNothing
  <1> QED
    BY <1>1, <1>4, <1>5, <1>6, <1>7, <1>8

\* A request that finds another one at its role puts that on record.
LEMMA LoadRoleKeepsIInv ==
  ASSUME IInv, NEW r \in Requests, NEW role \in Roles, NEW found \in SUBSET Permissions,
         NEW place \in {"deleting", "removing"}, LoadRole(r, role, found, place)
  PROVE  IInv'
  <1>1. CASE Answer(r, "refused") /\ UNCHANGED contested
    BY <1>1, AnswerKeepsIInv DEF LoadRole, Answers
  <1>2. CASE life[role] = "live" /\ Goto(r, place)
    <2> USE <1>2 DEF IInv, LoadRole, Goto
    <2>0. pc[r] = "idle" /\ "idle" \notin Changing \cup Answers
      BY DEF Changing, Answers
    <2>1. /\ task' = [task EXCEPT ![r] = [NoTask EXCEPT !.role = role, !.found = found, !.todo = perms[role]]]
          /\ contested' = IF \E q \in Requests : pc[q] \in Changing /\ task[q].role = role
                          THEN contested \cup {role} ELSE contested
      <3>1. pc'[r] = place
        BY DEF TypeOK
      <3> QED
        BY <3>1 DEF Answer, TypeOK
    <2>2. TypeOK'
      BY <2>1 DEF TypeOK, Task, NoTask, Changing
    <2>3. /\ pc'[r] = place
          /\ task'[r].role = role /\ task'[r].todo = perms[role] /\ task'[r].deleted = {}
          /\ task'[r].inserted = {} /\ task'[r].queue = Null
      BY <2>1 DEF TypeOK, NoTask
    <2>4. \A q \in Requests \ {r} : pc'[q] = pc[q] /\ task'[q] = task[q]
      BY <2>1 DEF TypeOK
    <2>5. contested \subseteq contested'
      BY <2>1
    <2>6. \A q \in Requests \ {r} : pc[q] \in Changing /\ task[q].role = role => role \in contested'
      BY <2>1
    <2>7. AboutARole'
      BY <2>3, <2>4 DEF AboutARole
    <2>8. Contests'
      BY <2>3, <2>4, <2>5, <2>6 DEF Contests
    <2>9. Progress'
      BY <2>3, <2>4, <2>5 DEF Progress
    <2>10. NothingForTheDeleted'
      BY <2>3, <2>4 DEF NothingForTheDeleted
    <2>11. LastReplacementInForce' /\ DeletedRolesGrantNothing'
      BY <2>5 DEF LastReplacementInForce, DeletedRolesGrantNothing
    <2> QED
      BY <2>2, <2>7, <2>8, <2>9, <2>10, <2>11
  <1> QED
    BY <1>1, <1>2 DEF LoadRole

\* A statement that deletes a row changes what its own request has left and has done.
LEMMA DeleteRowKeepsIInv ==
  ASSUME IInv, NEW r \in Requests, DeleteRow(r)
  PROVE  IInv'
  <1> USE DEF IInv
  <1> DEFINE p == Min(task[r].todo)
             role == task[r].role
             new == task'[r]
  <1>0. /\ pc[r] \in {"deleting", "removing"} /\ pc[r] \in Changing /\ task[r].todo # {}
        /\ UNCHANGED <<parent, life, perms, assignments, audited, pc, contested>>
    BY DEF DeleteRow, Changing
  <1>1. task[r] \in Task /\ role \in Roles
    BY <1>0 DEF TypeOK, AboutARole
  <1>2. p \in task[r].todo /\ p \in Permissions
    <2>1. task[r].todo \subseteq Permissions /\ task[r].todo \subseteq Nat
      BY <1>1, AccessAssumption DEF Task
    <2>2. \A S : S \subseteq Nat /\ S # {} => Min(S) \in S
      BY MinIsThere
    <2> QED
      BY <1>0, <2>1, <2>2
  <1>3. /\ task' = [task EXCEPT ![r] = new] /\ new \in Task
        /\ new.role = role /\ new.inserted = task[r].inserted
        /\ new.queue # Null => role \in contested
        /\ role \notin contested /\ perms[role] \subseteq task[r].todo \cup task[r].deleted
             => perms[role] \subseteq new.todo \cup new.deleted
    <2> HIDE DEF p
    <2>0. task[r].queue # Null => role \in contested
      BY <1>0 DEF Contests
    <2>a. task \in [Requests -> Task]
      BY DEF TypeOK
    <2>1. CASE \E o \in Others(r) : task' = [task EXCEPT ![r].queue = o]
      <3>1. PICK o \in Others(r) : task' = [task EXCEPT ![r].queue = o]
        BY <2>1
      <3>2. o \in Requests /\ role \in contested
        BY <1>0 DEF Others, Contests
      <3> QED
        BY <1>1, <2>a, <3>1, <3>2 DEF Task
    <2>2. CASE task' = [task EXCEPT ![r].todo = @ \ {p},
                                    ![r].deleted = IF p \in perms[role] THEN @ \cup {p} ELSE @]
      <3>1. /\ new.todo = task[r].todo \ {p} /\ new.role = role /\ new.inserted = task[r].inserted
            /\ new.queue = task[r].queue
            /\ new.deleted = IF p \in perms[role] THEN task[r].deleted \cup {p} ELSE task[r].deleted
        BY <1>1, <2>a, <2>2 DEF Task
      <3>2. new \in Task
        BY <1>1, <1>2, <2>a, <2>2 DEF Task
      <3>3. task' = [task EXCEPT ![r] = new]
        BY <2>a, <2>2
      <3> HIDE DEF new, role
      <3> QED
        BY <2>0, <3>1, <3>2, <3>3
    <2>3. CASE task[r].queue # Null /\ task' = [task EXCEPT ![r].queue = Null, ![r].todo = @ \ {p}]
      BY <1>1, <2>0, <2>a, <2>3 DEF Task
    <2>4. CASE task[r].queue # Null /\ task' = [task EXCEPT ![r].queue = Null]
      BY <1>1, <2>0, <2>a, <2>4 DEF Task
    <2> QED
      BY <2>1, <2>2, <2>3, <2>4 DEF DeleteRow, p
  <1> HIDE DEF new
  <1>4. TypeOK'
    BY <1>0, <1>3 DEF TypeOK
  <1>5. task'[r] = new /\ \A q \in Requests \ {r} : task'[q] = task[q]
    BY <1>3 DEF TypeOK
  <1>6. AboutARole'
    BY <1>0, <1>3, <1>5 DEF AboutARole
  <1>7. Contests'
    BY <1>0, <1>3, <1>5 DEF Contests
  <1>8. Progress'
    BY <1>0, <1>3, <1>5 DEF Progress
  <1>9. NothingForTheDeleted'
    BY <1>0, <1>3, <1>5 DEF NothingForTheDeleted
  <1>10. LastReplacementInForce' /\ DeletedRolesGrantNothing'
    BY <1>0 DEF LastReplacementInForce, DeletedRolesGrantNothing
  <1> QED
    BY <1>4, <1>6, <1>7, <1>8, <1>9, <1>10

LEMMA BeginInsertKeepsIInv ==
  ASSUME IInv, NEW r \in Requests, BeginInsert(r)
  PROVE  IInv'
  <1> USE DEF IInv, BeginInsert, Goto
  <1>1. task \in [Requests -> Task] /\ pc[r] \in Changing
    BY DEF TypeOK, Changing
  <1>2. /\ pc'[r] = "inserting" /\ task'[r] \in Task
        /\ task'[r].role = task[r].role /\ task'[r].queue = task[r].queue
        /\ task'[r].todo = task[r].found /\ task'[r].found = task[r].found
        /\ task'[r].deleted = task[r].deleted /\ task'[r].inserted = task[r].inserted
        /\ task'[r].next \in NextOf(task[r].found)
    <2> HIDE DEF IInv
    <2>1. PICK p \in NextOf(task[r].found) : task' = [task EXCEPT ![r].todo = task[r].found, ![r].next = p]
      OBVIOUS
    <2>2. task[r] \in Task /\ task'[r] = [task[r] EXCEPT !.todo = task[r].found, !.next = p]
      BY <1>1, <2>1
    <2>3. p \in Permissions \cup {Null}
      BY <2>2 DEF Task, NextOf
    <2>4. task'[r] \in Task
      BY <2>2, <2>3 DEF Task
    <2>5. pc'[r] = "inserting"
      BY DEF IInv, TypeOK
    <2> HIDE DEF BeginInsert
    <2>6. /\ task'[r].role = task[r].role /\ task'[r].queue = task[r].queue
          /\ task'[r].todo = task[r].found /\ task'[r].found = task[r].found
          /\ task'[r].deleted = task[r].deleted /\ task'[r].inserted = task[r].inserted
          /\ task'[r].next = p
      BY <2>2 DEF Task
    <2> QED
      BY <2>1, <2>4, <2>5, <2>6
  <1>3. \A q \in Requests \ {r} : pc'[q] = pc[q] /\ task'[q] = task[q]
    BY DEF TypeOK
  <1>4. task' \in [Requests -> Task] /\ pc'[r] \in Changing
    BY <1>1, <1>2 DEF Changing
  <1>5. TypeOK'
    BY <1>4 DEF TypeOK, Changing
  <1>6. AboutARole'
    BY <1>1, <1>2, <1>3 DEF AboutARole
  <1>7. Contests'
    BY <1>1, <1>2, <1>3 DEF Contests
  <1>8. Progress'
    <2>1. task[r].inserted = {} /\ (task[r].role \notin contested => perms[task[r].role] \subseteq task[r].deleted)
      BY DEF Progress
    <2>2. task'[r].next \in NextOf(task'[r].todo)
      BY <1>2
    <2>3. Progress /\ UNCHANGED <<perms, contested>>
      OBVIOUS
    <2> HIDE DEF IInv, BeginInsert
    <2> SUFFICES ASSUME NEW q \in Requests
                 PROVE  /\ pc'[q] = "deleting" =>
                             /\ task'[q].inserted = {}
                             /\ task'[q].role \notin contested'
                                  => perms'[task'[q].role] \subseteq task'[q].todo \cup task'[q].deleted
                        /\ pc'[q] = "inserting" =>
                             /\ task'[q].inserted \cup task'[q].todo = task'[q].found
                             /\ task'[q].next \in NextOf(task'[q].todo)
                             /\ task'[q].role \notin contested' => perms'[task'[q].role] \subseteq task'[q].deleted
      BY DEF Progress
    <2>4. CASE q = r
      BY <1>2, <2>1, <2>2, <2>3, <2>4
    <2>5. CASE q # r
      BY <1>3, <2>3, <2>5 DEF Progress
    <2> QED
      BY <2>4, <2>5
  <1>9. NothingForTheDeleted'
    BY <1>1, <1>2, <1>3 DEF NothingForTheDeleted
  <1>10. LastReplacementInForce' /\ DeletedRolesGrantNothing'
    BY DEF LastReplacementInForce, DeletedRolesGrantNothing
  <1> QED
    BY <1>5, <1>6, <1>7, <1>8, <1>9, <1>10

LEMMA InsertRowKeepsIInv ==
  ASSUME IInv, NEW r \in Requests, InsertRow(r)
  PROVE  IInv'
  <1> DEFINE p == task[r].next
  <1>1. CASE Answer(r, "error")
    BY <1>1, AnswerKeepsIInv DEF InsertRow, Answers
  <1>2. ASSUME life[task[r].role] = "live", UNCHANGED pc, NEW next \in NextOf(task[r].todo \ {p}),
               task' = [task EXCEPT ![r].todo = @ \ {p}, ![r].inserted = @ \cup {p}, ![r].next = next]
        PROVE  IInv'
    <2> USE DEF IInv
    <2>0. /\ pc[r] = "inserting" /\ pc[r] \in Changing /\ p \in task[r].todo
          /\ UNCHANGED <<parent, life, perms, assignments, audited, pc, contested>>
      BY <1>2 DEF InsertRow, Changing
    <2>1. task \in [Requests -> Task]
      BY DEF TypeOK
    <2>a. task[r].todo \subseteq Permissions
      BY <2>1 DEF Task
    <2>2. /\ p \in task[r].todo /\ p \in Permissions
          /\ next \in Permissions \cup {Null} /\ next \in NextOf(task[r].todo \ {p})
      BY <1>2, <2>0, <2>a DEF NextOf
    <2> HIDE DEF p
    <2>3. /\ task'[r] \in Task
          /\ task'[r].role = task[r].role /\ task'[r].queue = task[r].queue
          /\ task'[r].todo = task[r].todo \ {p} /\ task'[r].found = task[r].found
          /\ task'[r].deleted = task[r].deleted /\ task'[r].inserted = task[r].inserted \cup {p}
          /\ task'[r].next = next
      <3> HIDE DEF IInv
      <3>1. task'[r] = [task[r] EXCEPT !.todo = @ \ {p}, !.inserted = @ \cup {p}, !.next = next]
        BY <1>2, <2>1
      <3>2. task[r] \in Task
        BY <2>1
      <3>3. task[r].todo \ {p} \in SUBSET Permissions /\ task[r].inserted \cup {p} \in SUBSET Permissions
        BY <2>2, <3>2 DEF Task
      <3>4. task'[r] \in Task
        BY <2>2, <3>1, <3>2, <3>3 DEF Task
      <3> QED
        BY <3>1, <3>2, <3>4 DEF Task
    <2>4. task' \in [Requests -> Task] /\ \A q \in Requests \ {r} : task'[q] = task[q]
      BY <1>2, <2>1, <2>3
    <2>5. TypeOK'
      BY <2>0, <2>4 DEF TypeOK
    <2>6. AboutARole'
      BY <2>0, <2>3, <2>4 DEF AboutARole
    <2>7. Contests'
      BY <2>0, <2>3, <2>4 DEF Contests
    <2>8. Progress'
      BY <2>0, <2>2, <2>3, <2>4 DEF Progress, NextOf
    <2>9. NothingForTheDeleted'
      BY <1>2, <2>0, <2>3, <2>4 DEF NothingForTheDeleted
    <2>10. LastReplacementInForce' /\ DeletedRolesGrantNothing'
      BY <2>0 DEF LastReplacementInForce, DeletedRolesGrantNothing
    <2> QED
      BY <2>5, <2>6, <2>7, <2>8, <2>9, <2>10
  <1> QED
    BY <1>1, <1>2 DEF InsertRow

\* The rows asked for replace those deleted; unless the role is contested, those were all.
LEMMA CommitReplacementKeepsIInv ==
  ASSUME IInv, NEW r \in Requests, CommitReplacement(r)
  PROVE  IInv'
  <1> USE DEF IInv
  <1> DEFINE role == task[r].role
  <1>1. /\ pc[r] = "inserting" /\ pc[r] \in Changing /\ task[r].todo = {}
        /\ perms' = [perms EXCEPT ![role] = (@ \ task[r].deleted) \cup task[r].inserted]
        /\ audited' = [audited EXCEPT ![role] = task[r].found]
        /\ Answer(r, "done") /\ UNCHANGED <<parent, life, assignments, contested>>
    BY DEF CommitReplacement, Changing
  <1>2. task[r] \in Task /\ role \in Roles /\ life[role] # "none"
    BY <1>1 DEF TypeOK, AboutARole
  <1>3. task[r].inserted = task[r].found /\ (role \notin contested => perms[role] \subseteq task[r].deleted)
    BY <1>1 DEF Progress
  <1>4. TypeOK'
    <2>1. (perms[role] \ task[r].deleted) \cup task[r].inserted \in SUBSET Permissions
      BY <1>2 DEF TypeOK, Task
    <2>2. task[r].found \in SUBSET Nat
      BY <1>2, AccessAssumption DEF Task
    <2> HIDE DEF role
    <2>3. perms' \in [Roles -> SUBSET Permissions] /\ audited' \in [Roles -> SUBSET Nat]
      BY <1>1, <1>2, <2>1, <2>2 DEF TypeOK
    <2>4. task' \in [Requests -> Task]
      BY <1>1 DEF TypeOK, Answer, Task, NoTask
    <2> QED
      BY <1>1, <2>3, <2>4 DEF TypeOK, Answer, Goto, Answers
  <1>5. /\ perms'[role] = (perms[role] \ task[r].deleted) \cup task[r].found
        /\ audited'[role] = task[r].found /\ task[r].found \subseteq Permissions
        /\ perms[role] \subseteq Permissions
        /\ \A other \in Roles \ {role} : perms'[other] = perms[other] /\ audited'[other] = audited[other]
    BY <1>1, <1>2, <1>3 DEF TypeOK, Task
  <1>6. /\ pc'[r] = "done" /\ pc'[r] \notin Changing \cup {"assigning"}
        /\ \A q \in Requests \ {r} : pc'[q] = pc[q] /\ task'[q] = task[q]
    BY <1>1 DEF TypeOK, Answer, Goto, Changing
  <1>7. AboutARole'
    BY <1>1, <1>6 DEF AboutARole
  <1>8. Contests'
    BY <1>1, <1>6 DEF Contests
  <1>9. Progress'
    <2>1. \A q \in Requests \ {r} : pc[q] \in Changing /\ task[q].role \notin contested
            => task[q].role \in Roles \ {role}
      BY <1>1, <1>2 DEF Contests, AboutARole
    <2> HIDE DEF role
    <2> QED
      BY <1>1, <1>5, <1>6, <2>1 DEF Progress, Changing
  <1>10. NothingForTheDeleted'
    BY <1>1, <1>6 DEF NothingForTheDeleted
  <1>11. LastReplacementInForce'
    <2> HIDE DEF role
    <2> QED
      BY <1>1, <1>3, <1>5 DEF LastReplacementInForce
  <1>12. DeletedRolesGrantNothing'
    <2>1. life[role] = "deleted" => task[r].found = {}
      BY <1>1, <1>3 DEF NothingForTheDeleted
    <2> HIDE DEF role
    <2> QED
      BY <1>1, <1>2, <1>5, <2>1 DEF DeletedRolesGrantNothing
  <1> QED
    BY <1>4, <1>7, <1>8, <1>9, <1>10, <1>11, <1>12

\* The DELETE of the role has waited until no replacement under way had rows of it.
LEMMA CommitDeletionKeepsIInv ==
  ASSUME IInv, NEW r \in Requests, CommitDeletion(r)
  PROVE  IInv'
  <1> USE DEF IInv
  <1> DEFINE role == task[r].role
  <1>1. /\ pc[r] = "removing" /\ pc[r] \in Changing
        /\ \A o \in Others(r) : task[o].deleted \cup task[o].inserted = {}
        /\ life' = [life EXCEPT ![role] = "deleted"] /\ perms' = [perms EXCEPT ![role] = {}]
        /\ assignments' = {a \in assignments : a.role # role}
        /\ Answer(r, "done") /\ UNCHANGED <<parent, audited, contested>>
    BY DEF CommitDeletion, Changing
  <1>2. role \in Roles
    BY <1>1 DEF AboutARole
  <1>3. TypeOK'
    <2> HIDE DEF role
    <2>1. /\ task' \in [Requests -> Task]
          /\ pc' \in [Requests -> {"idle", "assigning", "authenticated", "scoped"} \cup Changing \cup Answers]
      BY <1>1, AnswerIsTyped DEF Answers
    <2> QED
      BY <1>1, <2>1 DEF TypeOK
  <1>4. /\ life'[role] = "deleted" /\ perms'[role] = {}
        /\ \A other \in Roles \ {role} : life'[other] = life[other] /\ perms'[other] = perms[other]
    BY <1>1, <1>2 DEF TypeOK
  <1>5. /\ pc'[r] = "done" /\ pc'[r] \notin Changing \cup {"assigning"}
        /\ \A q \in Requests \ {r} : pc'[q] = pc[q] /\ task'[q] = task[q]
    BY <1>1 DEF TypeOK, Answer, Goto, Changing
  <1>6. \A q \in Requests \ {r} : pc[q] \in Changing /\ task[q].role = role => task[q].inserted = {}
    BY <1>1 DEF Others
  <1> HIDE DEF role
  <1>7. AboutARole'
    BY <1>2, <1>4, <1>5 DEF AboutARole
  <1>8. Contests'
    BY <1>1, <1>5 DEF Contests
  <1>9. Progress'
    <2>1. \A q \in Requests :
            pc[q] \in Changing => perms'[task[q].role] \subseteq perms[task[q].role]
      BY <1>2, <1>4 DEF AboutARole
    <2> QED
      BY <1>1, <1>5, <2>1 DEF Progress, Changing
  <1>10. NothingForTheDeleted'
    BY <1>4, <1>5, <1>6 DEF NothingForTheDeleted, AboutARole
  <1>11. LastReplacementInForce'
    BY <1>1, <1>4 DEF LastReplacementInForce
  <1>12. DeletedRolesGrantNothing'
    BY <1>1, <1>4 DEF DeletedRolesGrantNothing
  <1> QED
    BY <1>3, <1>7, <1>8, <1>9, <1>10, <1>11, <1>12

LEMMA AssignRoleKeepsIInv ==
  ASSUME IInv, NEW r \in Requests, NEW role \in Roles, NEW unit \in Units \cup {Null},
         AssignRole(r, role, unit)
  PROVE  IInv'
  <1>1. CASE Answer(r, "refused")
    BY <1>1, AnswerKeepsIInv DEF AssignRole, Answers
  <1>2. CASE /\ Goto(r, "assigning")
             /\ task' = [task EXCEPT ![r] = [NoTask EXCEPT !.role = role, !.unit = unit]]
    <2> DEFINE new == [NoTask EXCEPT !.role = role, !.unit = unit]
    <2>1. new \in Task /\ new.role \in Roles
      BY DEF Task, NoTask
    <2> HIDE DEF new
    <2> QED
      BY <1>2, <2>1, ReadingKeepsIInv DEF AssignRole, new
  <1> QED
    BY <1>1, <1>2 DEF AssignRole

LEMMA CommitAssignmentKeepsIInv ==
  ASSUME IInv, NEW r \in Requests, CommitAssignment(r)
  PROVE  IInv'
  <1> DEFINE role == task[r].role
             unit == task[r].unit
             row == [by |-> r, role |-> role, unit |-> unit]
  <1>1. CASE Answer(r, "error") /\ UNCHANGED assignments
    BY <1>1, AnswerKeepsIInv DEF CommitAssignment, Answers
  <1>2. CASE life[role] = "live" /\ assignments' = assignments \cup {row} /\ Answer(r, "done")
    <2> USE DEF IInv, Answer, Goto
    <2>1. /\ pc[r] = "assigning" /\ UNCHANGED <<parent, life, perms, audited, contested>>
          /\ role \in Roles /\ unit \in Units \cup {Null}
      BY DEF CommitAssignment, AboutARole, TypeOK, Task
    <2> HIDE DEF role, unit
    <2>2. TypeOK'
      <3>1. /\ task' \in [Requests -> Task]
            /\ pc' \in [Requests -> {"idle", "assigning", "authenticated", "scoped"} \cup Changing \cup Answers]
        BY <1>2, AnswerIsTyped DEF Answers
      <3> QED
        BY <1>2, <2>1, <3>1 DEF TypeOK
    <2>3. pc'[r] = "done" /\ pc'[r] \notin Changing \cup {"assigning"}
      BY <1>2 DEF Changing, TypeOK
    <2>4. \A q \in Requests \ {r} : pc'[q] = pc[q] /\ task'[q] = task[q]
      BY <1>2 DEF TypeOK
    <2>5. AboutARole'
      BY <2>1, <2>3, <2>4 DEF AboutARole
    <2>6. Contests'
      BY <2>1, <2>3, <2>4 DEF Contests
    <2>7. Progress'
      BY <2>1, <2>3, <2>4 DEF Progress, Changing
    <2>8. NothingForTheDeleted'
      BY <2>1, <2>3, <2>4 DEF NothingForTheDeleted
    <2>9. LastReplacementInForce' /\ DeletedRolesGrantNothing'
      BY <1>2, <2>1 DEF LastReplacementInForce, DeletedRolesGrantNothing
    <2> QED
      BY <2>2, <2>5, <2>6, <2>7, <2>8, <2>9
  <1> QED
    BY <1>1, <1>2 DEF CommitAssignment

LEMMA AuthorizationKeepsIInv ==
  ASSUME IInv, NEW r \in Requests,
         (\E need \in Needs : Authenticate(r, need)) \/ ReadAssignments(r) \/ Authorize(r)
  PROVE  IInv'
  <1>0. task \in [Requests -> Task]
    BY DEF IInv, TypeOK
  <1>1. ASSUME NEW need \in Needs, Authenticate(r, need) PROVE IInv'
    <2>1. CASE Answer(r, "refused")
      BY <1>1, <2>1, AnswerKeepsIInv DEF Authenticate, Answers
    <2>2. CASE /\ Goto(r, "authenticated")
               /\ task' = [task EXCEPT ![r] = [NoTask EXCEPT !.permission = need[1], !.unit = need[2]]]
      <3> DEFINE new == [NoTask EXCEPT !.permission = need[1], !.unit = need[2]]
      <3>1. new \in Task
        BY AccessAssumption DEF Task, NoTask
      <3> HIDE DEF new
      <3> QED
        BY <1>1, <2>2, <3>1, ReadingKeepsIInv DEF Authenticate, new
    <2> QED
      BY <1>1, <2>1, <2>2 DEF Authenticate
  <1>2. CASE ReadAssignments(r)
    <2>1. CASE Answer(r, "refused")
      BY <1>2, <2>1, AnswerKeepsIInv DEF ReadAssignments, Answers
    <2>2. CASE /\ Goto(r, "scoped")
               /\ task' = [task EXCEPT ![r].seen = {<<a.role, a.unit>> : a \in assignments}]
      <3> DEFINE pairs == {<<a.role, a.unit>> : a \in assignments}
                 new == [task[r] EXCEPT !.seen = pairs]
      <3>1. pairs \in SUBSET (Roles \X (Units \cup {Null}))
        BY DEF IInv, TypeOK
      <3> HIDE DEF pairs
      <3>2. new \in Task
        BY <1>0, <3>1 DEF Task
      <3>3. task' = [task EXCEPT ![r] = new]
        BY <2>2 DEF pairs
      <3> HIDE DEF new
      <3> QED
        BY <1>2, <2>2, <3>2, <3>3, ReadingKeepsIInv DEF ReadAssignments
    <2> QED
      BY <1>2, <2>1, <2>2 DEF ReadAssignments
  <1>3. CASE Authorize(r)
    <2>1. \E answer \in Answers : Answer(r, answer)
      BY <1>3 DEF Authorize, Answers
    <2> QED
      BY <1>3, <2>1, AnswerKeepsIInv DEF Authorize
  <1> QED
    BY <1>1, <1>2, <1>3

LEMMA NextKeepsIInv ==
  ASSUME IInv, [Next]_vars
  PROVE  IInv'
  <1>1. ASSUME NEW role \in Roles, NEW codes \in Payloads, CreateRole(role, codes) PROVE IInv'
    BY <1>1, CreateRoleKeepsIInv
  <1>2. ASSUME NEW r \in Requests, NEW role \in Roles, NEW codes \in Payloads,
               ReplacePermissions(r, role, codes)
        PROVE  IInv'
    BY <1>2, LoadRoleKeepsIInv DEF ReplacePermissions
  <1>3. ASSUME NEW r \in Requests, NEW role \in Roles, DeleteRole(r, role) PROVE IInv'
    BY <1>3, LoadRoleKeepsIInv DEF DeleteRole
  <1>4. ASSUME NEW r \in Requests, NEW role \in Roles, NEW unit \in Units \cup {Null},
               AssignRole(r, role, unit)
        PROVE  IInv'
    BY <1>4, AssignRoleKeepsIInv
  <1>5. ASSUME NEW r \in Requests, NEW need \in Needs, Authenticate(r, need) PROVE IInv'
    BY <1>5, AuthorizationKeepsIInv
  <1>6. ASSUME NEW r \in Requests, Serve(r) PROVE IInv'
    <2>1. CASE BreakDeadlock(r)
      BY <2>1, AnswerKeepsIInv DEF BreakDeadlock, Answers
    <2> QED
      BY <1>6, <2>1, DeleteRowKeepsIInv, BeginInsertKeepsIInv, InsertRowKeepsIInv,
         CommitReplacementKeepsIInv, CommitDeletionKeepsIInv, CommitAssignmentKeepsIInv,
         AuthorizationKeepsIInv DEF Serve
  <1>7. ASSUME NEW r \in Requests, Abort(r) PROVE IInv'
    BY <1>7, AnswerKeepsIInv DEF Abort, Answers
  <1>8. CASE UNCHANGED vars
    BY <1>8 DEF vars, IInv, TypeOK, AboutARole, Contests, Progress, NothingForTheDeleted,
       LastReplacementInForce, DeletedRolesGrantNothing
  <1> QED
    BY <1>1, <1>2, <1>3, <1>4, <1>5, <1>6, <1>7, <1>8 DEF Next

LEMMA IInvAlways == Spec => []IInv
  BY InitIInv, NextKeepsIInv, PTL DEF Spec

--------------------------------------------------------------------------------
\* Every variable of the roles, the assignments and the requests keeps its type, in particular
\* every permission held is a seeded one, whatever codes clients send.
THEOREM TypeCorrect == Spec => []TypeOK
  BY IInvAlways, PTL DEF IInv

\* Whatever requests overlap, wait for each other's rows or are broken off, the permissions
\* the last audit event of a role names are in force, and no others unless two changed it at once.
THEOREM ReplacementsTakeEffect == Spec => []LastReplacementInForce
  BY IInvAlways, PTL DEF IInv

\* No replacement and no assignment that was under way when a role was deleted leaves rows of it.
THEOREM DeletionsAreComplete == Spec => []DeletedRolesGrantNothing
  BY IInvAlways, PTL DEF IInv

--------------------------------------------------------------------------------
(* Requests that are authorized. *)

\* What a context has read of the assignments is still there, but for those that went with
\* a deleted role.
SeenIsThere ==
  \A r \in Requests : pc[r] = "scoped" =>
    /\ task[r].unit \in Units \cup {Null}
    /\ \A s \in task[r].seen :
         /\ s[1] \in Roles /\ s[2] \in Units \cup {Null}
         /\ \/ life[s[1]] = "deleted"
            \/ \E a \in assignments : a.role = s[1] /\ a.unit = s[2]

LEMMA SeenIsThereKept ==
  ASSUME IInv, SeenIsThere, [Next]_vars
  PROVE  SeenIsThere'
  <1> DEFINE Seen(r) ==
               /\ task[r].unit \in Units \cup {Null}
               /\ \A s \in task[r].seen :
                    /\ s[1] \in Roles /\ s[2] \in Units \cup {Null}
                    /\ \/ life[s[1]] = "deleted"
                       \/ \E a \in assignments : a.role = s[1] /\ a.unit = s[2]
  <1>1. TypeOK /\ AboutARole /\ task \in [Requests -> Task] /\ life \in [Roles -> {"none", "live", "deleted"}]
        /\ \A r \in Requests : pc[r] = "scoped" => Seen(r)
    BY DEF IInv, TypeOK, SeenIsThere
  \* A step that leaves the contexts alone, and takes assignments with their role only.
  <1>2. ASSUME \A r \in Requests : pc'[r] = "scoped" => pc[r] = "scoped" /\ task'[r] = task[r],
               \A role \in Roles : life[role] = "deleted" => life'[role] = "deleted",
               \A a \in assignments : a \in assignments' \/ life'[a.role] = "deleted"
        PROVE  SeenIsThere'
    <2> SUFFICES ASSUME NEW r \in Requests, pc[r] = "scoped", task'[r] = task[r], NEW s \in task[r].seen
                 PROVE  /\ s[1] \in Roles /\ s[2] \in Units \cup {Null}
                        /\ \/ life'[s[1]] = "deleted"
                           \/ \E a \in assignments' : a.role = s[1] /\ a.unit = s[2]
      BY <1>1, <1>2 DEF SeenIsThere
    <2>1. /\ s[1] \in Roles /\ s[2] \in Units \cup {Null}
          /\ \/ life[s[1]] = "deleted"
             \/ \E a \in assignments : a.role = s[1] /\ a.unit = s[2]
      BY <1>1
    <2>2. CASE life[s[1]] = "deleted"
      BY <1>2, <2>1, <2>2
    <2>3. ASSUME NEW a \in assignments, a.role = s[1], a.unit = s[2]
          PROVE  life'[s[1]] = "deleted" \/ \E b \in assignments' : b.role = s[1] /\ b.unit = s[2]
      BY <1>2, <2>3
    <2> QED
      BY <2>1, <2>2, <2>3
  \* A request that is answered, or goes to another place than "scoped".
  <1>3. ASSUME NEW r \in Requests, NEW place, place # "scoped", Goto(r, place),
               \A q \in Requests \ {r} : task'[q] = task[q]
        PROVE  \A q \in Requests : pc'[q] = "scoped" => pc[q] = "scoped" /\ task'[q] = task[q]
    <2>1. pc'[r] = place /\ \A q \in Requests \ {r} : pc'[q] = pc[q]
      BY <1>1, <1>3 DEF Goto, TypeOK
    <2> QED
      BY <1>3, <2>1
  <1>4. ASSUME NEW r \in Requests, NEW answer \in Answers, Answer(r, answer)
        PROVE  \A q \in Requests : pc'[q] = "scoped" => pc[q] = "scoped" /\ task'[q] = task[q]
    <2>1. answer # "scoped" /\ Goto(r, answer) /\ \A q \in Requests \ {r} : task'[q] = task[q]
      BY <1>1, <1>4 DEF Answer, Answers
    <2> QED
      BY <1>3, <2>1
  <1> DEFINE Alone == \A q \in Requests : pc'[q] = "scoped" => pc[q] = "scoped" /\ task'[q] = task[q]
  <1>5. ASSUME UNCHANGED <<life, assignments>>, Alone PROVE SeenIsThere'
    BY <1>2, <1>5
  <1>6. CASE UNCHANGED vars
    BY <1>5, <1>6 DEF vars
  <1>7. ASSUME NEW role \in Roles, NEW codes \in Payloads, CreateRole(role, codes) PROVE SeenIsThere'
    <2>1. Alone /\ UNCHANGED assignments
      BY <1>7 DEF CreateRole
    <2>2. \A any \in Roles : life[any] = "deleted" => life'[any] = "deleted"
      BY <1>1, <1>7 DEF CreateRole
    <2> QED
      BY <1>2, <2>1, <2>2
  <1>8. ASSUME NEW r \in Requests, NEW role \in Roles, NEW found, NEW place \in {"deleting", "removing"},
               LoadRole(r, role, found, place)
        PROVE  SeenIsThere'
    <2>1. UNCHANGED <<life, assignments>>
      BY <1>8 DEF LoadRole
    <2>2. CASE Answer(r, "refused")
      BY <1>4, <1>5, <2>1, <2>2 DEF Answers
    <2>3. CASE Goto(r, place) /\ \A q \in Requests \ {r} : task'[q] = task[q]
      BY <1>3, <1>5, <2>1, <2>3
    <2> QED
      BY <1>1, <1>8, <2>2, <2>3 DEF LoadRole
  <1>9. ASSUME NEW r \in Requests, DeleteRow(r) PROVE SeenIsThere'
    <2>1. /\ UNCHANGED <<life, assignments, pc>> /\ pc[r] # "scoped"
          /\ \A q \in Requests \ {r} : task'[q] = task[q]
      BY <1>1, <1>9 DEF DeleteRow
    <2> QED
      BY <1>5, <2>1
  <1>10. ASSUME NEW r \in Requests, BeginInsert(r) PROVE SeenIsThere'
    <2>1. /\ UNCHANGED <<life, assignments>> /\ Goto(r, "inserting")
          /\ \A q \in Requests \ {r} : task'[q] = task[q]
      BY <1>1, <1>10 DEF BeginInsert
    <2> QED
      BY <1>3, <1>5, <2>1
  <1>11. ASSUME NEW r \in Requests, InsertRow(r) PROVE SeenIsThere'
    <2>1. UNCHANGED <<life, assignments>> /\ pc[r] = "inserting"
      BY <1>11 DEF InsertRow
    <2>2. CASE Answer(r, "error")
      BY <1>4, <1>5, <2>1, <2>2 DEF Answers
    <2>3. CASE UNCHANGED pc /\ \A q \in Requests \ {r} : task'[q] = task[q]
      BY <1>5, <2>1, <2>3
    <2> QED
      BY <1>1, <1>11, <2>2, <2>3 DEF InsertRow
  <1>12. ASSUME NEW r \in Requests, CommitDeletion(r) PROVE SeenIsThere'
    <2>1. /\ Answer(r, "done") /\ life' = [life EXCEPT ![task[r].role] = "deleted"]
          /\ assignments' = {a \in assignments : a.role # task[r].role}
          /\ task[r].role \in Roles
      BY <1>1, <1>12 DEF CommitDeletion, AboutARole, Changing
    <2>2. life'[task[r].role] = "deleted"
          /\ \A any \in Roles : life[any] = "deleted" => life'[any] = "deleted"
      BY <1>1, <2>1
    <2>3. \A a \in assignments : a \in assignments' \/ life'[a.role] = "deleted"
      BY <2>1, <2>2
    <2>4. Alone
      BY <1>4, <2>1 DEF Answers
    <2> QED
      BY <1>2, <2>2, <2>3, <2>4
  <1>13. ASSUME NEW r \in Requests, CommitReplacement(r) \/ BreakDeadlock(r) \/ Abort(r) PROVE SeenIsThere'
    BY <1>4, <1>5, <1>13 DEF CommitReplacement, BreakDeadlock, Abort, Answers
  <1>14. ASSUME NEW r \in Requests, NEW role \in Roles, NEW unit, AssignRole(r, role, unit) PROVE SeenIsThere'
    <2>1. UNCHANGED <<life, assignments>>
      BY <1>14 DEF AssignRole
    <2>2. CASE Answer(r, "refused")
      BY <1>4, <1>5, <2>1, <2>2 DEF Answers
    <2>3. CASE Goto(r, "assigning") /\ \A q \in Requests \ {r} : task'[q] = task[q]
      BY <1>3, <1>5, <2>1, <2>3
    <2> QED
      BY <1>1, <1>14, <2>2, <2>3 DEF AssignRole
  <1>15. ASSUME NEW r \in Requests, CommitAssignment(r) PROVE SeenIsThere'
    <2>1. UNCHANGED life /\ assignments \subseteq assignments' /\ (Answer(r, "done") \/ Answer(r, "error"))
      BY <1>15 DEF CommitAssignment
    <2>2. Alone
      BY <1>4, <2>1 DEF Answers
    <2> QED
      BY <1>2, <2>1, <2>2
  <1>16. ASSUME NEW r \in Requests, NEW need \in Needs, Authenticate(r, need) PROVE SeenIsThere'
    <2>1. UNCHANGED <<life, assignments>>
      BY <1>16 DEF Authenticate
    <2>2. CASE Answer(r, "refused")
      BY <1>4, <1>5, <2>1, <2>2 DEF Answers
    <2>3. CASE Goto(r, "authenticated") /\ \A q \in Requests \ {r} : task'[q] = task[q]
      BY <1>3, <1>5, <2>1, <2>3
    <2> QED
      BY <1>1, <1>16, <2>2, <2>3 DEF Authenticate
  <1>17. ASSUME NEW r \in Requests, Authorize(r) PROVE SeenIsThere'
    <2>1. UNCHANGED <<life, assignments>> /\ \E answer \in Answers : Answer(r, answer)
      BY <1>17 DEF Authorize, Answers
    <2> QED
      BY <1>4, <1>5, <2>1
  <1>18. ASSUME NEW r \in Requests, ReadAssignments(r) PROVE SeenIsThere'
    <2>1. UNCHANGED <<life, assignments>>
      BY <1>18 DEF ReadAssignments
    <2>2. CASE Answer(r, "refused")
      BY <1>4, <1>5, <2>1, <2>2 DEF Answers
    <2>3. CASE /\ Goto(r, "scoped")
               /\ task' = [task EXCEPT ![r].seen = {<<a.role, a.unit>> : a \in assignments}]
      <3>1. /\ \A q \in Requests \ {r} : pc'[q] = pc[q] /\ task'[q] = task[q]
            /\ task'[r] = [task[r] EXCEPT !.seen = {<<a.role, a.unit>> : a \in assignments}]
            /\ task[r] \in Task
        BY <1>1, <2>3 DEF Goto, TypeOK
      <3>2. task'[r].unit \in Units \cup {Null} /\ task'[r].seen = {<<a.role, a.unit>> : a \in assignments}
        BY <3>1 DEF Task
      <3>3. \A a \in assignments : a.role \in Roles /\ a.unit \in Units \cup {Null}
        BY <1>1 DEF TypeOK
      <3>4. \A s \in task'[r].seen : /\ s[1] \in Roles /\ s[2] \in Units \cup {Null}
                                     /\ \E a \in assignments : a.role = s[1] /\ a.unit = s[2]
        BY <3>2, <3>3
      <3>5. ASSUME NEW q \in Requests, q # r, pc'[q] = "scoped" PROVE Seen(q)'
        BY <1>1, <2>1, <3>1, <3>5
      <3>6. Seen(r)'
        BY <2>1, <3>2, <3>4
      <3> HIDE DEF Seen
      <3>7. \A q \in Requests : pc'[q] = "scoped" => Seen(q)'
        BY <3>5, <3>6
      <3> QED
        BY <3>7 DEF Seen, SeenIsThere
    <2> QED
      BY <1>18, <2>2, <2>3 DEF ReadAssignments
  <1> HIDE DEF Alone, Seen
  <1> QED
    BY <1>6, <1>7, <1>8, <1>9, <1>10, <1>11, <1>12, <1>13, <1>14, <1>15, <1>16, <1>17, <1>18
    DEF Next, Serve, ReplacePermissions, DeleteRole

LEMMA SeenIsThereAlways == Spec => []SeenIsThere
  <1>1. Init => SeenIsThere
    BY DEF Init, SeenIsThere
  <1> QED
    BY <1>1, SeenIsThereKept, IInvAlways, PTL DEF Spec

\* Of all steps only Authorize() answers a request for a permission with "allowed".
LEMMA OnlyAuthorizeAllows ==
  ASSUME TypeOK, Next, NEW r \in Requests, pc[r] # "allowed", pc'[r] = "allowed"
  PROVE  Authorize(r)
  <1>1. ASSUME NEW q \in Requests, NEW place, place # "allowed", Goto(q, place) PROVE FALSE
    BY <1>1 DEF Goto, TypeOK
  <1>2. ASSUME NEW q \in Requests, NEW answer, answer # "allowed", Answer(q, answer) PROVE FALSE
    BY <1>1, <1>2 DEF Answer
  <1>3. pc' # pc
    OBVIOUS
  <1>4. ASSUME NEW q \in Requests, NEW role, NEW found, NEW place \in {"deleting", "removing"},
               LoadRole(q, role, found, place)
        PROVE  FALSE
    BY <1>1, <1>2, <1>4 DEF LoadRole
  <1>5. ASSUME NEW q \in Requests, Serve(q) \/ Abort(q), ~Authorize(q) PROVE FALSE
    BY <1>1, <1>2, <1>3, <1>5 DEF Serve, Abort, DeleteRow, BeginInsert, InsertRow, CommitReplacement,
       CommitDeletion, BreakDeadlock, CommitAssignment, ReadAssignments
  <1>6. ASSUME NEW q \in Requests, Authorize(q) PROVE q = r
    BY <1>6 DEF Authorize, Answer, Goto, TypeOK
  <1>7. ASSUME NEW q \in Requests, NEW role, NEW unit, AssignRole(q, role, unit) PROVE FALSE
    BY <1>1, <1>2, <1>7 DEF AssignRole
  <1>8. ASSUME NEW q \in Requests, NEW need, Authenticate(q, need) PROVE FALSE
    BY <1>1, <1>2, <1>8 DEF Authenticate
  <1>9. ASSUME NEW role, NEW codes, CreateRole(role, codes) PROVE FALSE
    BY <1>3, <1>9 DEF CreateRole
  <1> QED
    BY <1>4, <1>5, <1>6, <1>7, <1>8, <1>9 DEF Next, ReplacePermissions, DeleteRole

\* Of all steps only Authorize() refuses a request whose context has its scopes.
LEMMA OnlyAuthorizeRefuses ==
  ASSUME TypeOK, Next, NEW r \in Requests, pc[r] = "scoped", pc'[r] = "refused"
  PROVE  Authorize(r)
  <1>1. ASSUME NEW q \in Requests, NEW place, Goto(q, place) PROVE q = r
    BY <1>1 DEF Goto, TypeOK
  <1>2. ASSUME NEW q \in Requests, NEW answer, Answer(q, answer) PROVE q = r
    BY <1>1, <1>2 DEF Answer
  <1>3. pc' # pc
    OBVIOUS
  <1>4. ASSUME NEW q \in Requests, NEW role, NEW found, NEW place, LoadRole(q, role, found, place) PROVE FALSE
    BY <1>1, <1>2, <1>4 DEF LoadRole
  <1>5. ASSUME NEW q \in Requests, BreakDeadlock(q) PROVE FALSE
    <2>1. q = r
      BY <1>2, <1>5 DEF BreakDeadlock
    <2>2. WaitsFor(r) = {}
      BY DEF WaitsFor
    <2> QED
      BY <1>5, <2>1, <2>2 DEF BreakDeadlock, InACycle
  <1>6. ASSUME NEW q \in Requests, Serve(q) \/ Abort(q), ~Authorize(q), ~BreakDeadlock(q) PROVE FALSE
    BY <1>1, <1>2, <1>3, <1>6 DEF Serve, Abort, DeleteRow, BeginInsert, InsertRow, CommitReplacement,
       CommitDeletion, CommitAssignment, ReadAssignments, Changing
  <1>7. ASSUME NEW q \in Requests, NEW role, NEW unit, AssignRole(q, role, unit) PROVE FALSE
    BY <1>1, <1>2, <1>7 DEF AssignRole
  <1>8. ASSUME NEW q \in Requests, NEW need, Authenticate(q, need) PROVE FALSE
    BY <1>1, <1>2, <1>8 DEF Authenticate
  <1>9. ASSUME NEW role, NEW codes, CreateRole(role, codes) PROVE FALSE
    BY <1>3, <1>9 DEF CreateRole
  <1>10. ASSUME NEW q \in Requests, Authorize(q) PROVE q = r
    BY <1>2, <1>10 DEF Authorize
  <1> QED
    BY <1>4, <1>5, <1>6, <1>7, <1>8, <1>9, <1>10 DEF Next, ReplacePermissions, DeleteRole

\* A request that is allowed is covered by the rows committed at that moment, however roles,
\* permissions and assignments changed between the SELECTs its context was put together from,
\* and for every organization tree.
THEOREM NothingUncoveredIsAllowed == Spec => AllowedMeansCovered
  <1>1. ASSUME IInv, SeenIsThere, Next, NEW r \in Requests, pc[r] # "allowed", pc'[r] = "allowed"
        PROVE  Covers(task[r].permission, task[r].unit)
    <2>1. TypeOK /\ DeletedRolesGrantNothing
      BY <1>1 DEF IInv
    <2>2. Authorize(r)
      BY <1>1, <2>1, OnlyAuthorizeAllows
    <2> DEFINE permission == task[r].permission
               unit == task[r].unit
               scopes == Scopes(task[r].seen, permission)
    <2>3. pc[r] = "scoped" /\ IsAuthorized(scopes, unit)
      <3>1. ~Answer(r, "refused") /\ ~Answer(r, "error")
        BY <1>1, <2>1 DEF Answer, Goto, TypeOK
      <3> HIDE DEF scopes
      <3> QED
        BY <2>2, <3>1 DEF Authorize, scopes
    <2>4. PICK scope \in scopes : scope = Null \/ (unit # Null /\ scope \in SelfAndAncestors(unit))
      BY <2>3 DEF IsAuthorized
    <2>5. PICK s \in task[r].seen : permission \in perms[s[1]] /\ s[2] = scope
      BY <2>4 DEF Scopes
    <2>6. /\ unit \in Units \cup {Null} /\ s[1] \in Roles
          /\ \/ life[s[1]] = "deleted"
             \/ \E a \in assignments : a.role = s[1] /\ a.unit = s[2]
      BY <1>1, <2>3, <2>5 DEF SeenIsThere
    <2>7. life[s[1]] # "deleted"
      BY <2>1, <2>5, <2>6 DEF DeletedRolesGrantNothing
    <2>8. PICK a \in assignments : a.role = s[1] /\ a.unit = scope
      BY <2>5, <2>6, <2>7
    <2> HIDE DEF permission, unit, scopes
    <2>9. a.unit = Null \/ (unit # Null /\ a.unit \in Above(unit))
      BY <2>1, <2>4, <2>6, <2>8, AncestorsAreAbove
    <2> QED
      BY <2>5, <2>8, <2>9 DEF Covers, permission, unit
  <1>2. IInv /\ SeenIsThere /\ [Next]_vars =>
          [\A r \in Requests : pc[r] # "allowed" /\ pc'[r] = "allowed" =>
             Covers(task[r].permission, task[r].unit)]_vars
    BY <1>1
  <1> QED
    BY <1>2, IInvAlways, SeenIsThereAlways, PTL DEF Spec, AllowedMeansCovered

\* A request that is refused was covered at most by an assignment made after its context read
\* them, when no unit of the tree is deeper than the loop of get_self_and_ancestor_ids() goes.
THEOREM NothingCoveredIsRefused == Spec /\ RootsReached => RefusedMeansUncovered
  <1>1. ASSUME IInv, SeenIsThere, RootsReached, Next, NEW r \in Requests, pc[r] = "scoped", pc'[r] = "refused",
               NEW a \in assignments, <<a.role, a.unit>> \in task[r].seen,
               task[r].permission \in perms[a.role],
               a.unit = Null \/ (task[r].unit # Null /\ a.unit \in Above(task[r].unit))
        PROVE  FALSE
    <2>1. TypeOK
      BY <1>1 DEF IInv
    <2>2. Authorize(r)
      BY <1>1, <2>1, OnlyAuthorizeRefuses
    <2> DEFINE permission == task[r].permission
               unit == task[r].unit
               scopes == Scopes(task[r].seen, permission)
    <2>3. ~IsAuthorized(scopes, unit)
      <3>1. ~Answer(r, "allowed") /\ ~Answer(r, "error")
        BY <1>1, <2>1 DEF Answer, Goto, TypeOK
      <3> HIDE DEF scopes
      <3> QED
        BY <2>2, <3>1 DEF Authorize, scopes
    <2>4. a.unit \in scopes
      <3> DEFINE s == <<a.role, a.unit>>
      <3>1. s \in {t \in task[r].seen : permission \in perms[t[1]]} /\ s[2] = a.unit
        BY <1>1
      <3> QED
        BY <3>1 DEF Scopes
    <2>5. unit \in Units \cup {Null}
      BY <1>1 DEF SeenIsThere
    <2> HIDE DEF permission, unit, scopes
    <2>6. a.unit = Null \/ (unit # Null /\ a.unit \in Above(unit))
      BY <1>1 DEF unit
    <2>7. unit # Null => Above(unit) \subseteq SelfAndAncestors(unit)
      BY <1>1, <2>1, <2>5, AboveAreAncestors
    <2> QED
      BY <2>3, <2>4, <2>6, <2>7 DEF IsAuthorized
  <1>2. ASSUME RootsReached, [Next]_vars PROVE RootsReached'
    <2>1. UNCHANGED parent
      BY <1>2 DEF vars, Next, Serve, ReplacePermissions, DeleteRole, LoadRole, CreateRole, AssignRole,
         Authenticate, Abort, DeleteRow, BeginInsert, InsertRow, CommitReplacement, CommitDeletion,
         BreakDeadlock, CommitAssignment, ReadAssignments, Authorize
    <2> QED
      BY <1>2, <2>1 DEF RootsReached, Climb
  <1>3. IInv /\ SeenIsThere /\ RootsReached /\ [Next]_vars =>
          [\A r \in Requests : pc[r] = "scoped" /\ pc'[r] = "refused" =>
             \/ ~Covers(task[r].permission, task[r].unit)
             \/ \E a \in assignments : <<a.role, a.unit>> \notin task[r].seen]_vars
    BY <1>1 DEF Covers
  <1> QED
    BY <1>2, <1>3, IInvAlways, SeenIsThereAlways, PTL DEF Spec, RefusedMeansUncovered

\* That is so for every organization of at most _MAX_DEPTH units, whatever its tree: a request
\* is then refused only if the committed rows do not cover it, or by a later assignment.
THEOREM SmallOrganizationsAreCovered ==
  Spec /\ IsFiniteSet(Units) /\ Cardinality(Units) <= MaxDepth => RefusedMeansUncovered
  <1>1. Init /\ IsFiniteSet(Units) /\ Cardinality(Units) <= MaxDepth => RootsReached
    BY RootsOfSmallTrees
  <1>2. Spec /\ IsFiniteSet(Units) /\ Cardinality(Units) <= MaxDepth => RootsReached
    BY <1>1, PTL DEF Spec
  <1> QED
    BY <1>2, NothingCoveredIsRefused, PTL

--------------------------------------------------------------------------------
(* Requests that wait for each other's rows. *)

\* Requests under way, and those whose next statement PostgreSQL answers without waiting.
BusyRequests == {r \in Requests : pc[r] \notin {"idle"} \cup Answers}

Answerable(r) ==
  \/ pc[r] \in {"assigning", "authenticated", "scoped"}
  \/ /\ pc[r] \in {"deleting", "removing"} /\ task[r].todo # {}
     /\ task[r].queue # Null => pc[task[r].queue] \in {"done", "error", "aborted"}
  \/ pc[r] = "deleting" /\ task[r].todo = {}
  \/ /\ pc[r] = "inserting"
     /\ \/ task[r].todo = {}
        \/ /\ task[r].next \in task[r].todo
           /\ \A o \in Others(r) : task[r].next \notin task[o].deleted \cup task[o].inserted
  \/ /\ pc[r] = "removing" /\ task[r].todo = {}
     /\ \A o \in Others(r) : task[o].deleted \cup task[o].inserted = {}

\* While a request is under way, one of them is answered, or stands in a cycle of waiting
\* transactions that the deadlock detection finds and breaks.
SomeRequestGoesOn ==
  BusyRequests # {} => \E r \in BusyRequests : Answerable(r) \/ InACycle(r)

\* A DELETE stands in the queue of another request that has ended, or changes the same role.
QueuesFit ==
  \A r \in Requests : pc[r] \in {"deleting", "removing"} /\ task[r].queue # Null =>
    /\ task[r].todo # {} /\ task[r].queue \in Requests \ {r}
    /\ \/ pc[task[r].queue] \in {"done", "error", "aborted"}
       \/ pc[task[r].queue] \in Changing /\ task[task[r].queue].role = task[r].role

\* It stays so when only request r moves: from a place where nobody queues for it, or to an
\* answer, or on at its role, and then stands in a queue that fits.
LEMMA OneMovesQueuesFit ==
  ASSUME TypeOK, QueuesFit, NEW r \in Requests,
         \A q \in Requests \ {r} : pc'[q] = pc[q] /\ task'[q] = task[q],
         \/ pc[r] \notin Changing \cup {"done", "error", "aborted"}
         \/ pc'[r] \in {"done", "error", "aborted"}
         \/ pc[r] \in Changing /\ pc'[r] \in Changing /\ task'[r].role = task[r].role,
         pc'[r] \in {"deleting", "removing"} /\ task'[r].queue # Null =>
           /\ task'[r].todo # {} /\ task'[r].queue \in Requests \ {r}
           /\ \/ pc[task'[r].queue] \in {"done", "error", "aborted"}
              \/ pc[task'[r].queue] \in Changing /\ task[task'[r].queue].role = task'[r].role
  PROVE  QueuesFit'
  <1> SUFFICES ASSUME NEW q \in Requests, pc'[q] \in {"deleting", "removing"}, task'[q].queue # Null
               PROVE  /\ task'[q].todo # {} /\ task'[q].queue \in Requests \ {q}
                      /\ \/ pc'[task'[q].queue] \in {"done", "error", "aborted"}
                         \/ pc'[task'[q].queue] \in Changing /\ task'[task'[q].queue].role = task'[q].role
    BY DEF QueuesFit
  <1>1. CASE q = r
    BY <1>1
  <1>2. CASE q # r
    <2> DEFINE o == task[q].queue
    <2>1. /\ task'[q] = task[q] /\ task[q].todo # {} /\ o \in Requests \ {q}
          /\ \/ pc[o] \in {"done", "error", "aborted"}
             \/ pc[o] \in Changing /\ task[o].role = task[q].role
      BY <1>2 DEF QueuesFit
    <2> HIDE DEF o
    <2>2. \/ pc'[o] \in {"done", "error", "aborted"}
          \/ pc'[o] \in Changing /\ task'[o].role = task[q].role
      <3>1. CASE o # r
        BY <2>1, <3>1
      <3>2. CASE o = r
        BY <2>1, <3>2 DEF Changing
      <3> QED
        BY <2>1, <3>1, <3>2
    <2> QED
      BY <2>1, <2>2 DEF o
  <1> QED
    BY <1>1, <1>2

LEMMA AnswerQueuesFit ==
  ASSUME TypeOK, QueuesFit, NEW r \in Requests, NEW answer \in Answers, Answer(r, answer),
         \/ answer \in {"done", "error", "aborted"}
         \/ pc[r] \notin Changing \cup {"done", "error", "aborted"}
  PROVE  QueuesFit'
  <1>1. /\ pc'[r] = answer /\ answer \notin {"deleting", "removing"}
        /\ \A q \in Requests \ {r} : pc'[q] = pc[q] /\ task'[q] = task[q]
    BY DEF Answer, Goto, TypeOK, Answers
  <1> QED
    BY <1>1, OneMovesQueuesFit

LEMMA DeleteRowQueuesFit ==
  ASSUME TypeOK, QueuesFit, NEW r \in Requests, DeleteRow(r)
  PROVE  QueuesFit'
  <1> DEFINE p == Min(task[r].todo)
             holders == {o \in Others(r) : p \in task[o].deleted}
  <1>1. /\ UNCHANGED pc /\ pc[r] \in {"deleting", "removing"} /\ task[r] \in Task /\ task[r].todo # {}
        /\ \A q \in Requests \ {r} : pc'[q] = pc[q] /\ task'[q] = task[q]
    BY DEF DeleteRow, TypeOK
  <1>2. CASE \E o \in holders : task' = [task EXCEPT ![r].queue = o]
    <2>1. PICK o \in holders : task' = [task EXCEPT ![r].queue = o]
      BY <1>2
    <2>2. o \in Requests \ {r} /\ pc[o] \in Changing /\ task[o].role = task[r].role
      BY DEF Others
    <2>3. /\ task'[r].role = task[r].role /\ task'[r].todo = task[r].todo /\ task'[r].queue = o
      BY <1>1, <2>1 DEF Task, TypeOK
    <2> HIDE DEF holders
    <2> QED
      BY <1>1, <2>2, <2>3, OneMovesQueuesFit DEF Changing
  <1>3. CASE task'[r].queue = Null /\ task'[r].role = task[r].role
    BY <1>1, <1>3, OneMovesQueuesFit DEF Changing
  <1>4. \/ \E o \in holders : task' = [task EXCEPT ![r].queue = o]
        \/ task'[r].queue = Null /\ task'[r].role = task[r].role
    <2>1. CASE /\ task[r].queue = Null
               /\ task' = [task EXCEPT ![r].todo = @ \ {p},
                                       ![r].deleted = IF p \in perms[task[r].role] THEN @ \cup {p} ELSE @]
      BY <1>1, <2>1 DEF Task, TypeOK
    <2>2. CASE task' = [task EXCEPT ![r].queue = Null, ![r].todo = @ \ {p}]
      BY <1>1, <2>2 DEF Task, TypeOK
    <2>3. CASE task' = [task EXCEPT ![r].queue = Null]
      BY <1>1, <2>3 DEF Task, TypeOK
    <2> QED
      BY <2>1, <2>2, <2>3 DEF DeleteRow
  <1> QED
    BY <1>2, <1>3, <1>4

LEMMA NextQueuesFit ==
  ASSUME TypeOK, QueuesFit, [Next]_vars
  PROVE  QueuesFit'
  <1>1. ASSUME UNCHANGED <<pc, task>> PROVE QueuesFit'
    BY <1>1 DEF QueuesFit
  \* A request that reads, or is about an assignment, is in nobody's queue.
  <1>2. ASSUME NEW r \in Requests, pc[r] \in {"idle", "assigning", "authenticated", "scoped"},
               \A q \in Requests \ {r} : pc'[q] = pc[q] /\ task'[q] = task[q],
               pc'[r] \in {"deleting", "removing"} => task'[r].queue = Null
        PROVE  QueuesFit'
    <2>1. pc[r] \notin Changing \cup {"done", "error", "aborted"}
      BY <1>2 DEF Changing
    <2> QED
      BY <1>2, <2>1, OneMovesQueuesFit
  <1>3. ASSUME NEW r \in Requests, NEW role \in Roles, NEW found, NEW place \in {"deleting", "removing"},
               LoadRole(r, role, found, place)
        PROVE  QueuesFit'
    <2>1. CASE Answer(r, "refused")
      BY <1>3, <2>1, AnswerQueuesFit DEF LoadRole, Answers, Changing
    <2>2. CASE task' = [task EXCEPT ![r] = [NoTask EXCEPT !.role = role, !.found = found, !.todo = perms[role]]]
               /\ Goto(r, place)
      <3>1. /\ task'[r].queue = Null
            /\ \A q \in Requests \ {r} : pc'[q] = pc[q] /\ task'[q] = task[q]
        BY <2>2 DEF Goto, NoTask, TypeOK
      <3> QED
        BY <1>2, <1>3, <3>1 DEF LoadRole
    <2> QED
      BY <1>3, <2>1, <2>2 DEF LoadRole
  <1>4. ASSUME NEW r \in Requests, BeginInsert(r) \/ InsertRow(r) PROVE QueuesFit'
    <2>1. CASE Answer(r, "error")
      BY <2>1, AnswerQueuesFit DEF Answers
    <2>2. CASE ~Answer(r, "error")
      <3>1. /\ pc[r] \in Changing /\ pc'[r] = "inserting" /\ task'[r].role = task[r].role
            /\ \A q \in Requests \ {r} : pc'[q] = pc[q] /\ task'[q] = task[q]
        <4>0. task[r] \in Task
          BY DEF TypeOK
        <4>1. CASE BeginInsert(r)
          <5>1. PICK p \in NextOf(task[r].found) : task' = [task EXCEPT ![r].todo = task[r].found, ![r].next = p]
            BY <4>1 DEF BeginInsert
          <5>2. task'[r].role = task[r].role
            BY <4>0, <5>1 DEF TypeOK, Task
          <5> QED
            BY <4>1, <5>1, <5>2 DEF BeginInsert, Goto, TypeOK, Changing
        <4>2. CASE InsertRow(r)
          <5>1. PICK q \in NextOf(task[r].todo \ {task[r].next}) :
                  task' = [task EXCEPT ![r].todo = @ \ {task[r].next},
                                       ![r].inserted = @ \cup {task[r].next}, ![r].next = q]
            BY <2>2, <4>2 DEF InsertRow
          <5>2. task'[r].role = task[r].role
            BY <4>0, <5>1 DEF TypeOK, Task
          <5> QED
            BY <2>2, <4>2, <5>1, <5>2 DEF InsertRow, TypeOK, Changing
        <4> QED
          BY <1>4, <4>1, <4>2
      <3>2. pc'[r] \in Changing
        BY <3>1 DEF Changing
      <3> QED
        BY <3>1, <3>2, OneMovesQueuesFit
    <2> QED
      BY <2>1, <2>2
  <1>5. ASSUME NEW r \in Requests,
               CommitReplacement(r) \/ CommitDeletion(r) \/ BreakDeadlock(r) \/ Abort(r)
        PROVE  QueuesFit'
    <2>1. Answer(r, "done") \/ Answer(r, "error") \/ Answer(r, "aborted")
      BY <1>5 DEF CommitReplacement, CommitDeletion, BreakDeadlock, Abort
    <2> QED
      BY <2>1, AnswerQueuesFit DEF Answers
  <1>6. ASSUME NEW r \in Requests, NEW role, NEW unit, AssignRole(r, role, unit) PROVE QueuesFit'
    <2>1. pc[r] = "idle" /\ pc'[r] \notin {"deleting", "removing"}
          /\ \A q \in Requests \ {r} : pc'[q] = pc[q] /\ task'[q] = task[q]
      BY <1>6 DEF AssignRole, Answer, Goto, TypeOK
    <2> QED
      BY <1>2, <2>1
  <1>7. ASSUME NEW r \in Requests, CommitAssignment(r) PROVE QueuesFit'
    <2>1. pc[r] = "assigning" /\ pc'[r] \notin {"deleting", "removing"}
          /\ \A q \in Requests \ {r} : pc'[q] = pc[q] /\ task'[q] = task[q]
      BY <1>7 DEF CommitAssignment, Answer, Goto, TypeOK
    <2> QED
      BY <1>2, <2>1
  <1>8. ASSUME NEW r \in Requests, NEW need, Authenticate(r, need) PROVE QueuesFit'
    <2>1. pc[r] = "idle" /\ pc'[r] \notin {"deleting", "removing"}
          /\ \A q \in Requests \ {r} : pc'[q] = pc[q] /\ task'[q] = task[q]
      BY <1>8 DEF Authenticate, Answer, Goto, TypeOK
    <2> QED
      BY <1>2, <2>1
  <1>9. ASSUME NEW r \in Requests, ReadAssignments(r) \/ Authorize(r) PROVE QueuesFit'
    <2>1. pc[r] \in {"authenticated", "scoped"} /\ pc'[r] \notin {"deleting", "removing"}
          /\ \A q \in Requests \ {r} : pc'[q] = pc[q] /\ task'[q] = task[q]
      <3>1. CASE ReadAssignments(r)
        BY <3>1 DEF ReadAssignments, Answer, Goto, TypeOK
      <3>2. CASE Authorize(r)
        <4>1. PICK answer \in Answers : Answer(r, answer)
          BY <3>2 DEF Authorize, Answers
        <4> QED
          BY <3>2, <4>1 DEF Authorize, Answer, Answers, Goto, TypeOK
      <3> QED
        BY <1>9, <3>1, <3>2
    <2> QED
      BY <1>2, <2>1
  <1>10. ASSUME NEW r \in Requests, DeleteRow(r) PROVE QueuesFit'
    BY <1>10, DeleteRowQueuesFit
  <1>11. ASSUME NEW role \in Roles, NEW codes \in Payloads, CreateRole(role, codes) PROVE QueuesFit'
    BY <1>1, <1>11 DEF CreateRole
  <1>12. CASE UNCHANGED vars
    BY <1>1, <1>12 DEF vars
  <1> QED
    BY <1>3, <1>4, <1>5, <1>6, <1>7, <1>8, <1>9, <1>10, <1>11, <1>12
    DEF Next, Serve, ReplacePermissions, DeleteRole

LEMMA QueuesFitAlways == Spec => []QueuesFit
  <1>1. Init => QueuesFit
    BY DEF Init, QueuesFit
  <1>2. TypeOK /\ QueuesFit /\ [Next]_vars => QueuesFit'
    BY NextQueuesFit
  <1> QED
    BY <1>1, <1>2, TypeCorrect, PTL DEF Spec

\* Of finite sets there is one that none of the others is a part of.
LEMMA SmallestFiniteSet ==
  ASSUME NEW F, F # {}, \A A \in F : IsFiniteSet(A)
  PROVE  \E A \in F : \A B \in F : B \subseteq A => B = A
  <1> DEFINE S == UNION F
             O == StrictSubsetOrdering(S)
             D == FiniteSubsetsOf(S)
  <1>1. IsWellFoundedOn(O, D)
    BY FS_StrictSubsetOrderingWellFounded
  <1>2. F \subseteq D
    BY DEF FiniteSubsetsOf
  <1>3. \A A, B \in F : B \subseteq A /\ B # A => <<B, A>> \in O
    <2> TAKE A, B \in F
    <2>1. A \in SUBSET S /\ B \in SUBSET S
      OBVIOUS
    <2> HIDE DEF S
    <2> QED
      BY <2>1, Zenon DEF StrictSubsetOrdering
  <1> HIDE DEF O, D
  <1>4. \E x \in F : \A y \in F : ~(<<y, x>> \in O)
    BY <1>1, <1>2, WFMin
  <1> QED
    BY <1>3, <1>4

\* A finite set of requests each of which waits for another one of the set has a cycle: in a
\* smallest such set each is waited for, or it would do without.
LEMMA WaitingInACycle ==
  ASSUME NEW B \in SUBSET Requests, B # {}, IsFiniteSet(B),
         \A r \in B : r \notin WaitsFor(r) /\ WaitsFor(r) \cap B # {}
  PROVE  \E r \in B : InACycle(r)
  <1> DEFINE F == {C \in SUBSET B : C # {} /\ \A r \in C : WaitsFor(r) \cap C # {}}
  <1>1. B \in F
    OBVIOUS
  <1>2. F # {} /\ \A C \in F : IsFiniteSet(C)
    BY <1>1, FS_Subset
  <1> HIDE DEF F
  <1>3. PICK cycle \in F : \A C \in F : C \subseteq cycle => C = cycle
    BY <1>2, SmallestFiniteSet
  <1> USE DEF F
  <1>4. cycle \in SUBSET B /\ cycle # {} /\ \A r \in cycle : WaitsFor(r) \cap cycle # {}
    BY <1>3
  <1>5. ASSUME NEW q \in cycle, \A o \in cycle : q \notin WaitsFor(o)
        PROVE  FALSE
    <2> DEFINE less == cycle \ {q}
    <2>1. \A r \in cycle : WaitsFor(r) \cap less # {}
      BY <1>4, <1>5
    <2>2. less # {} /\ \A r \in less : WaitsFor(r) \cap less # {}
      BY <1>4, <2>1
    <2>3. less \in F
      BY <1>4, <2>2
    <2> QED
      BY <1>3, <1>5, <2>3
  <1> HIDE DEF F
  <1>6. PICK r \in cycle : TRUE
    BY <1>4
  <1>7. InACycle(r)
    BY <1>4, <1>5, <1>6 DEF InACycle
  <1> QED
    BY <1>4, <1>6, <1>7

\* A request under way that is not answered waits for others, which are under way.
LEMMA UnansweredWait ==
  ASSUME TypeOK, Progress, QueuesFit, NEW r \in BusyRequests, ~Answerable(r)
  PROVE  r \notin WaitsFor(r) /\ WaitsFor(r) \cap BusyRequests # {}
  <1>1. r \in Requests /\ pc[r] \in Changing
    BY DEF BusyRequests, Answerable, TypeOK, Changing
  <1>2. /\ Others(r) \subseteq BusyRequests /\ r \notin Others(r)
    BY DEF Others, BusyRequests, Changing, Answers
  <1>3. CASE pc[r] \in {"deleting", "removing"} /\ task[r].todo # {}
    <2> DEFINE q == task[r].queue
    <2>1. q # Null /\ pc[q] \notin {"done", "error", "aborted"}
      BY <1>3 DEF Answerable
    <2>2. q \in Others(r)
      BY <1>1, <1>3, <2>1 DEF QueuesFit, Others
    <2>3. WaitsFor(r) = {o \in Others(r) : o = q}
      BY <1>3 DEF WaitsFor
    <2> HIDE DEF q
    <2> QED
      BY <1>2, <2>2, <2>3
  <1>4. CASE pc[r] = "inserting" /\ task[r].todo # {}
    <2> DEFINE p == task[r].next
    <2>a. p \in task[r].todo
      BY <1>1, <1>4 DEF Progress, NextOf
    <2>1. \E o \in Others(r) : p \in task[o].deleted \cup task[o].inserted
      BY <1>4, <2>a DEF Answerable
    <2>2. WaitsFor(r) = {o \in Others(r) : p \in task[o].deleted \cup task[o].inserted}
      BY <1>4 DEF WaitsFor
    <2> HIDE DEF p
    <2> QED
      BY <1>2, <2>1, <2>2
  <1>5. CASE pc[r] = "removing" /\ task[r].todo = {}
    <2>1. \E o \in Others(r) : task[o].deleted \cup task[o].inserted # {}
      BY <1>5 DEF Answerable
    <2>2. WaitsFor(r) = {o \in Others(r) : task[o].deleted \cup task[o].inserted # {}}
      BY <1>5 DEF WaitsFor
    <2> QED
      BY <1>2, <2>1, <2>2
  <1>6. ~(pc[r] = "deleting" /\ task[r].todo = {}) /\ ~(pc[r] = "inserting" /\ task[r].todo = {})
    BY DEF Answerable
  <1> QED
    BY <1>1, <1>3, <1>4, <1>5, <1>6 DEF Changing

\* Whatever rows and role rows any number of requests wait for: as long as one is under way, one
\* is answered without waiting or by the deadlock detection, which looks for cycles and nothing
\* else.  It is what lets EveryRequestAnswered hold.
THEOREM EveryDeadlockIsACycle == Spec /\ IsFiniteSet(Requests) => []SomeRequestGoesOn
  <1>1. ASSUME TypeOK, Progress, QueuesFit, IsFiniteSet(Requests) PROVE SomeRequestGoesOn
    <2> SUFFICES ASSUME BusyRequests # {}, \A r \in BusyRequests : ~Answerable(r)
                 PROVE  \E r \in BusyRequests : InACycle(r)
      BY DEF SomeRequestGoesOn
    <2>1. BusyRequests \in SUBSET Requests
      BY DEF BusyRequests
    <2>2. IsFiniteSet(BusyRequests)
      BY <1>1, <2>1, FS_Subset
    <2>3. \A r \in BusyRequests : r \notin WaitsFor(r) /\ WaitsFor(r) \cap BusyRequests # {}
      BY <1>1, UnansweredWait
    <2> QED
      BY <2>1, <2>2, <2>3, WaitingInACycle
  <1>2. IInv /\ QueuesFit /\ IsFiniteSet(Requests) => SomeRequestGoesOn
    BY <1>1 DEF IInv
  <1>3. IsFiniteSet(Requests) /\ [Next]_vars => IsFiniteSet(Requests)'
    OBVIOUS
  <1> QED
    BY <1>2, <1>3, IInvAlways, QueuesFitAlways, PTL DEF Spec

--------------------------------------------------------------------------------
(* Requests that go on. *)

Unanswered == {r \in Requests : pc[r] \notin Answers}

\* The statements a request has yet to send at most.  A DELETE is sent anew when the request it queued
\* for was broken off, which happens once for each request that is not answered.
Standing(r) ==
  IF task[r].queue = Null THEN 1 ELSE IF task[r].queue \in Unanswered THEN 0 ELSE 2

StatementsLeft(r) ==
  CASE pc[r] \in {"deleting", "removing"} ->
         Cardinality(Permissions) + 1 + 2 * Cardinality(task[r].todo) + 2 * Cardinality(Unanswered) + Standing(r)
    [] pc[r] = "inserting" -> Cardinality(task[r].todo)
    [] pc[r] = "authenticated" -> 1
    [] OTHER -> 0

\* A step of a request under way answers it or leaves it fewer statements to send, and no step of
\* another one leaves it more; an answer is final.
RequestsGoForward ==
  [][/\ \A r \in BusyRequests :
          \/ pc'[r] \in Answers
          \/ StatementsLeft(r)' < StatementsLeft(r)
          \/ UNCHANGED <<pc[r], task[r]>> /\ StatementsLeft(r)' <= StatementsLeft(r)
     /\ \A r \in Requests : pc[r] \in Answers => pc'[r] = pc[r]]_vars

\* What the measure of a request that deletes is made of.
LEMMA MeasureIsTyped ==
  ASSUME TypeOK, IsFiniteSet(Requests), IsFiniteSet(Permissions), NEW r \in Requests
  PROVE  /\ IsFiniteSet(Unanswered) /\ Cardinality(Unanswered) \in Nat
         /\ IsFiniteSet(task[r].todo) /\ Cardinality(task[r].todo) \in Nat
         /\ Cardinality(task[r].todo) <= Cardinality(Permissions) /\ Cardinality(Permissions) \in Nat
         /\ Standing(r) \in 0..2
  <1>1. task[r].todo \in SUBSET Permissions /\ Unanswered \in SUBSET Requests
    BY DEF TypeOK, Task, Unanswered
  <1>2. IsFiniteSet(task[r].todo) /\ IsFiniteSet(Unanswered)
        /\ Cardinality(task[r].todo) <= Cardinality(Permissions)
    BY <1>1, FS_Subset
  <1>3. Standing(r) \in 0..2
    BY DEF Standing
  <1> QED
    BY <1>2, <1>3, FS_CardinalityType

\* A request that does not move has no more left, whoever is answered.
LEMMA NoMoreLeft ==
  ASSUME TypeOK, IsFiniteSet(Requests), IsFiniteSet(Permissions), Unanswered' \subseteq Unanswered,
         NEW q \in Requests, pc'[q] = pc[q], task'[q] = task[q]
  PROVE  StatementsLeft(q)' <= StatementsLeft(q)
  <1> DEFINE P == Cardinality(Permissions)
             T == Cardinality(task[q].todo)
             U == Cardinality(Unanswered)
             U1 == Cardinality(Unanswered')
             S == Standing(q)
             S1 == Standing(q)'
  <1>1. P \in Nat /\ T \in Nat /\ U \in Nat /\ S \in 0..2
    BY MeasureIsTyped
  <1>2. S1 \in 0..2
    BY DEF Standing
  <1>3. U1 \in Nat /\ U1 <= U /\ (U1 = U => Unanswered' = Unanswered)
    <2> DEFINE before == Unanswered
               after == Unanswered'
    <2>1. IsFiniteSet(before) /\ after \subseteq before
      BY MeasureIsTyped
    <2> HIDE DEF before, after
    <2>2. IsFiniteSet(after) /\ Cardinality(after) <= Cardinality(before)
          /\ (Cardinality(before) = Cardinality(after) => before = after)
      BY <2>1, FS_Subset
    <2>3. Cardinality(after) \in Nat
      BY <2>2, FS_CardinalityType
    <2> QED
      BY <2>2, <2>3 DEF before, after
  <1>4. U1 = U => S1 = S
    BY <1>3 DEF Standing
  <1>5. CASE pc[q] \in {"deleting", "removing"}
    <2>1. StatementsLeft(q) = P + 1 + 2 * T + 2 * U + S
      BY <1>5 DEF StatementsLeft
    <2>2. StatementsLeft(q)' = P + 1 + 2 * T + 2 * U1 + S1
      BY <1>5 DEF StatementsLeft
    <2> HIDE DEF P, T, U, U1, S, S1
    <2> QED
      BY <1>1, <1>2, <1>3, <1>4, <2>1, <2>2
  <1>6. CASE pc[q] \notin {"deleting", "removing"}
    <2>1. StatementsLeft(q) = IF pc[q] = "inserting" THEN T ELSE IF pc[q] = "authenticated" THEN 1 ELSE 0
      BY <1>6 DEF StatementsLeft
    <2>2. StatementsLeft(q)' = IF pc[q] = "inserting" THEN T ELSE IF pc[q] = "authenticated" THEN 1 ELSE 0
      BY <1>6 DEF StatementsLeft
    <2> HIDE DEF T
    <2> QED
      BY <1>1, <2>1, <2>2
  <1> QED
    BY <1>5, <1>6

LEMMA DeleteRowLeavesFewer ==
  ASSUME TypeOK, IsFiniteSet(Requests), IsFiniteSet(Permissions), NEW r \in Requests, DeleteRow(r)
  PROVE  StatementsLeft(r)' < StatementsLeft(r)
  <1> DEFINE p == Min(task[r].todo)
             P == Cardinality(Permissions)
             T == Cardinality(task[r].todo)
             T1 == Cardinality(task'[r].todo)
             U == Cardinality(Unanswered)
             S == Standing(r)
             S1 == Standing(r)'
  <1>1. P \in Nat /\ T \in Nat /\ U \in Nat
    BY MeasureIsTyped
  <1>2. /\ pc' = pc /\ pc[r] \in {"deleting", "removing"} /\ task[r] \in Task /\ task[r].todo # {}
        /\ Unanswered' = Unanswered
    BY DEF DeleteRow, TypeOK, Unanswered
  <1>3. StatementsLeft(r) = P + 1 + 2 * T + 2 * U + S
    BY <1>2 DEF StatementsLeft
  <1>4. StatementsLeft(r)' = P + 1 + 2 * T1 + 2 * U + S1
    BY <1>2 DEF StatementsLeft
  <1>5. Cardinality(task[r].todo \ {p}) = T - 1
    <2>1. task[r].todo \subseteq Nat
      BY <1>2, AccessAssumption DEF Task
    <2>2. p \in task[r].todo
      BY <1>2, <2>1, MinIsThere
    <2>3. IsFiniteSet(task[r].todo)
      BY MeasureIsTyped
    <2> HIDE DEF p
    <2> QED
      BY <2>2, <2>3, FS_RemoveElement
  <1>6. CASE /\ task[r].queue = Null
             /\ \E o \in Others(r) : task' = [task EXCEPT ![r].queue = o]
    <2>1. PICK o \in Others(r) : task' = [task EXCEPT ![r].queue = o]
      BY <1>6
    <2>2. o \in Unanswered /\ o # Null
      BY AccessAssumption DEF Others, Unanswered, Changing, Answers
    <2>3. task'[r].queue = o /\ task'[r].todo = task[r].todo
      BY <1>2, <2>1 DEF Task, TypeOK
    <2>4. S = 1 /\ S1 = 0 /\ T1 = T
      BY <1>2, <1>6, <2>2, <2>3 DEF Standing
    <2> HIDE DEF P, T, T1, U, S, S1
    <2> QED
      BY <1>1, <1>3, <1>4, <2>4
  <1>7. CASE /\ task[r].queue = Null
             /\ task' = [task EXCEPT ![r].todo = @ \ {p},
                                     ![r].deleted = IF p \in perms[task[r].role] THEN @ \cup {p} ELSE @]
    <2>1. task'[r].queue = Null /\ task'[r].todo = task[r].todo \ {p}
      BY <1>2, <1>7 DEF Task, TypeOK
    <2>2. S = 1 /\ S1 = 1 /\ T1 = T - 1
      BY <1>5, <1>7, <2>1 DEF Standing
    <2> HIDE DEF P, T, T1, U, S, S1
    <2> QED
      BY <1>1, <1>3, <1>4, <2>2
  <1>8. CASE /\ task[r].queue # Null /\ pc[task[r].queue] \in {"done", "error", "aborted"}
             /\ \/ task' = [task EXCEPT ![r].queue = Null, ![r].todo = @ \ {p}]
                \/ task' = [task EXCEPT ![r].queue = Null]
    <2>1. task[r].queue \notin Unanswered
      BY <1>8 DEF Unanswered, Answers
    <2>2. task'[r].queue = Null /\ (task'[r].todo = task[r].todo \ {p} \/ task'[r].todo = task[r].todo)
      <3>1. CASE task' = [task EXCEPT ![r].queue = Null, ![r].todo = @ \ {p}]
        BY <1>2, <3>1 DEF Task, TypeOK
      <3>2. CASE task' = [task EXCEPT ![r].queue = Null]
        BY <1>2, <3>2 DEF Task, TypeOK
      <3> QED
        BY <1>8, <3>1, <3>2
    <2>3. S = 2 /\ S1 = 1 /\ (T1 = T - 1 \/ T1 = T)
      BY <1>5, <1>8, <2>1, <2>2 DEF Standing
    <2> HIDE DEF P, T, T1, U, S, S1
    <2> QED
      BY <1>1, <1>3, <1>4, <2>3
  <1> QED
    BY <1>6, <1>7, <1>8 DEF DeleteRow

\* A step answers a request that was not, or leaves it fewer statements, and moves no other.
LEMMA OneGoesForward ==
  ASSUME TypeOK, TypeOK', IsFiniteSet(Requests), IsFiniteSet(Permissions), Next
  PROVE  \/ UNCHANGED <<pc, task>>
         \/ \E r \in Requests :
              /\ pc[r] \notin Answers
              /\ \A q \in Requests \ {r} : pc'[q] = pc[q] /\ task'[q] = task[q]
              /\ pc[r] = "idle" \/ pc'[r] \in Answers \/ StatementsLeft(r)' < StatementsLeft(r)
  <1> DEFINE Forward(r) ==
               /\ pc[r] \notin Answers
               /\ \A q \in Requests \ {r} : pc'[q] = pc[q] /\ task'[q] = task[q]
               /\ pc[r] = "idle" \/ pc'[r] \in Answers \/ StatementsLeft(r)' < StatementsLeft(r)
  <1>1. ASSUME NEW r \in Requests, NEW answer \in Answers, Answer(r, answer), pc[r] \notin Answers
        PROVE  Forward(r)
    BY <1>1 DEF Answer, Goto, TypeOK
  <1>2. ASSUME NEW r \in Requests, pc[r] = "idle", NEW place, Goto(r, place), NEW new, task' = [task EXCEPT ![r] = new]
        PROVE  Forward(r)
    BY <1>2 DEF Goto, TypeOK, Answers
  <1>3. ASSUME NEW r \in Requests, NEW role, NEW found, NEW place, LoadRole(r, role, found, place) PROVE Forward(r)
    <2>1. pc[r] = "idle" /\ pc[r] \notin Answers
      BY <1>3 DEF LoadRole, Answers
    <2>2. CASE Answer(r, "refused")
      BY <1>1, <2>1, <2>2 DEF Answers
    <2>3. CASE Goto(r, place) /\ \E new : task' = [task EXCEPT ![r] = new]
      BY <1>2, <2>1, <2>3
    <2> HIDE DEF Forward
    <2> QED
      BY <1>3, <2>2, <2>3 DEF LoadRole
  <1>4. ASSUME NEW r \in Requests, DeleteRow(r) PROVE Forward(r)
    <2>1. /\ pc[r] \notin Answers
          /\ \A q \in Requests \ {r} : pc'[q] = pc[q] /\ task'[q] = task[q]
      BY <1>4 DEF DeleteRow, TypeOK, Answers
    <2> QED
      BY <1>4, <2>1, DeleteRowLeavesFewer
  <1>5. ASSUME NEW r \in Requests, BeginInsert(r) PROVE Forward(r)
    <2>1. /\ pc[r] = "deleting" /\ pc'[r] = "inserting" /\ task'[r].todo = task[r].found /\ pc[r] \notin Answers
          /\ \A q \in Requests \ {r} : pc'[q] = pc[q] /\ task'[q] = task[q]
      <3>1. PICK p \in NextOf(task[r].found) : task' = [task EXCEPT ![r].todo = task[r].found, ![r].next = p]
        BY <1>5 DEF BeginInsert
      <3>2. task[r] \in Task /\ task'[r] = [task[r] EXCEPT !.todo = task[r].found, !.next = p]
        BY <3>1 DEF TypeOK
      <3>3. task'[r].todo = task[r].found
        BY <3>2 DEF Task
      <3> QED
        BY <1>5, <3>1, <3>3 DEF BeginInsert, Goto, TypeOK, Answers
    <2> DEFINE P == Cardinality(Permissions)
               T == Cardinality(task[r].todo)
               T1 == Cardinality(task'[r].todo)
               U == Cardinality(Unanswered)
               S == Standing(r)
    <2>2. P \in Nat /\ T \in Nat /\ U \in Nat /\ S \in 0..2
      BY MeasureIsTyped
    <2>3. T1 \in Nat /\ T1 <= P
      <3>1. task'[r].todo \in SUBSET Permissions
        BY <2>1 DEF TypeOK, Task
      <3> DEFINE todo == task'[r].todo
      <3> HIDE DEF todo
      <3>2. IsFiniteSet(todo) /\ Cardinality(todo) <= Cardinality(Permissions)
        BY <3>1, FS_Subset DEF todo
      <3> QED
        BY <3>2, FS_CardinalityType DEF todo
    <2>4. StatementsLeft(r) = P + 1 + 2 * T + 2 * U + S
      BY <2>1 DEF StatementsLeft
    <2>5. StatementsLeft(r)' = T1
      BY <2>1 DEF StatementsLeft
    <2> HIDE DEF P, T, T1, U, S
    <2>6. StatementsLeft(r)' < StatementsLeft(r)
      BY <2>2, <2>3, <2>4, <2>5
    <2> QED
      BY <2>1, <2>6
  <1>6. ASSUME NEW r \in Requests, InsertRow(r) PROVE Forward(r)
    <2>1. pc[r] = "inserting" /\ pc[r] \notin Answers /\ task[r].next \in task[r].todo
      BY <1>6 DEF InsertRow, Answers
    <2>2. CASE Answer(r, "error")
      BY <1>1, <2>1, <2>2 DEF Answers
    <2>3. CASE ~Answer(r, "error")
      <3> DEFINE p == task[r].next
                 T == Cardinality(task[r].todo)
                 T1 == Cardinality(task'[r].todo)
      <3>1. /\ pc' = pc /\ task'[r].todo = task[r].todo \ {p}
            /\ \A q \in Requests \ {r} : pc'[q] = pc[q] /\ task'[q] = task[q]
        <4>1. PICK next \in NextOf(task[r].todo \ {p}) :
                task' = [task EXCEPT ![r].todo = @ \ {p}, ![r].inserted = @ \cup {p}, ![r].next = next]
          BY <1>6, <2>3 DEF InsertRow
        <4>2. /\ task[r] \in Task
              /\ task'[r] = [task[r] EXCEPT !.todo = @ \ {p}, !.inserted = @ \cup {p}, !.next = next]
          BY <4>1 DEF TypeOK
        <4>3. task'[r].todo = task[r].todo \ {p}
          BY <4>2 DEF Task
        <4> HIDE DEF p
        <4> QED
          BY <1>6, <2>3, <4>1, <4>3 DEF InsertRow, TypeOK
      <3>2. p \in task[r].todo
        BY <2>1
      <3>3. IsFiniteSet(task[r].todo) /\ T \in Nat
        BY MeasureIsTyped
      <3>4. T1 = T - 1
        <4> HIDE DEF p
        <4> QED
          BY <3>1, <3>2, <3>3, FS_RemoveElement
      <3>5. StatementsLeft(r) = T /\ StatementsLeft(r)' = T1
        BY <2>1, <3>1 DEF StatementsLeft
      <3> HIDE DEF T, T1
      <3>6. StatementsLeft(r)' < StatementsLeft(r)
        BY <3>3, <3>4, <3>5
      <3> QED
        BY <2>1, <3>1, <3>6
    <2> QED
      BY <2>2, <2>3
  <1>7. ASSUME NEW r \in Requests,
               \/ CommitReplacement(r) \/ CommitDeletion(r) \/ BreakDeadlock(r)
               \/ CommitAssignment(r) \/ Authorize(r) \/ Abort(r)
        PROVE  Forward(r)
    <2>1. \E answer \in Answers : Answer(r, answer)
      BY <1>7 DEF CommitReplacement, CommitDeletion, BreakDeadlock, CommitAssignment, Authorize, Abort, Answers
    <2>2. pc[r] \notin Answers
      <3>1. CASE BreakDeadlock(r)
        <4>1. WaitsFor(r) # {}
          BY <3>1 DEF BreakDeadlock, InACycle
        <4> QED
          BY <4>1 DEF WaitsFor, Answers
      <3>2. CASE ~BreakDeadlock(r)
        BY <1>7, <3>2 DEF CommitReplacement, CommitDeletion, CommitAssignment, Authorize, Abort, Answers, Changing
      <3> QED
        BY <3>1, <3>2
    <2> HIDE DEF Forward
    <2> QED
      BY <1>1, <2>1, <2>2
  <1>8. ASSUME NEW r \in Requests, NEW role, NEW unit, AssignRole(r, role, unit) PROVE Forward(r)
    <2>1. pc[r] = "idle" /\ pc[r] \notin Answers
      BY <1>8 DEF AssignRole, Answers
    <2>2. CASE Answer(r, "refused")
      BY <1>1, <2>1, <2>2 DEF Answers
    <2>3. CASE \E new : Goto(r, "assigning") /\ task' = [task EXCEPT ![r] = new]
      BY <1>2, <2>1, <2>3
    <2> HIDE DEF Forward
    <2> QED
      BY <1>8, <2>2, <2>3 DEF AssignRole
  <1>9. ASSUME NEW r \in Requests, NEW need, Authenticate(r, need) PROVE Forward(r)
    <2>1. pc[r] = "idle" /\ pc[r] \notin Answers
      BY <1>9 DEF Authenticate, Answers
    <2>2. CASE Answer(r, "refused")
      BY <1>1, <2>1, <2>2 DEF Answers
    <2>3. CASE \E new : Goto(r, "authenticated") /\ task' = [task EXCEPT ![r] = new]
      BY <1>2, <2>1, <2>3
    <2> HIDE DEF Forward
    <2> QED
      BY <1>9, <2>2, <2>3 DEF Authenticate
  <1>10. ASSUME NEW r \in Requests, ReadAssignments(r) PROVE Forward(r)
    <2>1. pc[r] = "authenticated" /\ pc[r] \notin Answers
      BY <1>10 DEF ReadAssignments, Answers
    <2>2. CASE Answer(r, "refused")
      BY <1>1, <2>1, <2>2 DEF Answers
    <2>3. CASE ~Answer(r, "refused")
      <3>1. pc'[r] = "scoped" /\ \A q \in Requests \ {r} : pc'[q] = pc[q] /\ task'[q] = task[q]
        BY <1>10, <2>3 DEF ReadAssignments, Goto, TypeOK
      <3>2. StatementsLeft(r) = 1 /\ StatementsLeft(r)' = 0
        BY <2>1, <3>1 DEF StatementsLeft
      <3> QED
        BY <2>1, <3>1, <3>2
    <2> QED
      BY <2>2, <2>3
  <1>11. ASSUME NEW role \in Roles, NEW codes \in Payloads, CreateRole(role, codes) PROVE UNCHANGED <<pc, task>>
    BY <1>11 DEF CreateRole
  <1> HIDE DEF Forward
  <1>12. UNCHANGED <<pc, task>> \/ \E r \in Requests : Forward(r)
    BY <1>3, <1>4, <1>5, <1>6, <1>7, <1>8, <1>9, <1>10, <1>11 DEF Next, Serve, ReplacePermissions, DeleteRole
  <1> QED
    BY <1>12 DEF Forward

\* A request under way has finitely many statements left to send, counted by StatementsLeft, whatever the
\* others do: a DELETE that has to look again does so only because another request has ended.  With
\* EveryDeadlockIsACycle that is why requests are answered if their statements are (EveryRequestAnswered).
THEOREM EveryRequestGoesForward ==
  Spec /\ IsFiniteSet(Requests) /\ IsFiniteSet(Permissions) => RequestsGoForward
  <1> DEFINE Fin == IsFiniteSet(Requests) /\ IsFiniteSet(Permissions)
             Forward == /\ \A r \in BusyRequests :
                             \/ pc'[r] \in Answers
                             \/ StatementsLeft(r)' < StatementsLeft(r)
                             \/ UNCHANGED <<pc[r], task[r]>> /\ StatementsLeft(r)' <= StatementsLeft(r)
                        /\ \A r \in Requests : pc[r] \in Answers => pc'[r] = pc[r]
  <1>1. ASSUME TypeOK, TypeOK', Fin, Next PROVE Forward
    <2>1. CASE UNCHANGED <<pc, task>>
      <3>1. Unanswered' = Unanswered
        BY <2>1 DEF Unanswered
      <3>2. \A r \in Requests : StatementsLeft(r)' <= StatementsLeft(r)
        BY <1>1, <2>1, <3>1, NoMoreLeft
      <3>3. BusyRequests \subseteq Requests
        BY DEF BusyRequests
      <3> QED
        BY <2>1, <3>2, <3>3
    <2>2. ASSUME NEW r \in Requests,
                 pc[r] \notin Answers,
                 \A q \in Requests \ {r} : pc'[q] = pc[q] /\ task'[q] = task[q],
                 pc[r] = "idle" \/ pc'[r] \in Answers \/ StatementsLeft(r)' < StatementsLeft(r)
          PROVE  Forward
      <3>1. Unanswered' \subseteq Unanswered
        BY <2>2 DEF Unanswered
      <3>2. \A q \in Requests \ {r} : StatementsLeft(q)' <= StatementsLeft(q)
        BY <1>1, <2>2, <3>1, NoMoreLeft
      <3>3. \A q \in BusyRequests : q \in Requests /\ pc[q] # "idle"
        BY DEF BusyRequests
      <3> QED
        BY <2>2, <3>2, <3>3
    <2> QED
      BY <1>1, <2>1, <2>2, OneGoesForward
  <1>2. TypeOK /\ TypeOK' /\ Fin /\ [Next]_vars => [Forward]_vars
    BY <1>1
  <1>3. Fin /\ [Next]_vars => Fin'
    OBVIOUS
  <1> QED
    BY <1>2, <1>3, TypeCorrect, PTL DEF Spec, RequestsGoForward
================================================================================
