---------------------------- MODULE QueryProofs ----------------------------
(***************************************************************************)
(* Proofs about RoomQueries, for every snapshot, policy, text and limit.   *)
(*                                                                         *)
(* Pages are pieces of a list in order.  That there is such a list of any  *)
(* finitely many objects, and one only as far as its members go, is proved *)
(* by induction over its length (SortedListExists, SortedListComplete).    *)
(* From there a page is described by where it starts and ends (Serves),    *)
(* and the invariants say where a walk stands in the list of the moment:   *)
(* its cursor is the last object served, what it served of one snapshot is *)
(* a beginning of its list (Agrees), and of several snapshots, in an order *)
(* that never changes, nothing it began with is behind its cursor and not  *)
(* served (Ahead).                                                         *)
(*                                                                         *)
(* A search passes two gates of its own, the matrix and the query policy;  *)
(* the argument is that each of them is at least as strict on searches as  *)
(* on content, in the mode of the snapshot and in the mode the policy was  *)
(* resolved in, which need not be the same.                                *)
(***************************************************************************)
EXTENDS RoomQueries, ObjectProofs, FiniteSetTheorems, SequenceTheorems

------------------------------------------------------------------------------
(* Rows of the matrix                                                      *)

LEMMA GroupRows ==
  ASSUME NEW operations, NEW effects
  PROVE  /\ DOMAIN M!Rows(operations, effects) = operations
         /\ \A op \in operations : M!Rows(operations, effects)[op] = effects
BY DEF M!Rows

LEMMA LeftRow ==
  ASSUME NEW f, NEW g, NEW op \in DOMAIN f
  PROVE  op \in DOMAIN M!++(f, g) /\ M!++(f, g)[op] = f[op]
BY DEF M!++

LEMMA RightRow ==
  ASSUME NEW f, NEW g, NEW op \in DOMAIN g, op \notin DOMAIN f
  PROVE  op \in DOMAIN M!++(f, g) /\ M!++(f, g)[op] = g[op]
BY DEF M!++

LEMMA NoRow ==
  ASSUME NEW f, NEW g, NEW op, op \notin DOMAIN f, op \notin DOMAIN g
  PROVE  op \notin DOMAIN M!++(f, g)
BY DEF M!++

\* The rows of searches and of details among those of queries.
LEMMA QueryRows ==
  /\ "room.query.search" \in DOMAIN M!RoomQueryRows
  /\ M!RoomQueryRows["room.query.search"] = M!Except("memory_only", M!OfflineModes, "deny")
  /\ "room.query.detail" \in DOMAIN M!RoomQueryRows
  /\ M!RoomQueryRows["room.query.detail"] = M!ExceptEmergency
BY GroupRows, LeftRow, RightRow, NoRow DEF M!RoomQueryRows

\* No domain table before that of queries has a row of the same name.
LEMMA RoomRow ==
  ASSUME NEW op \in {"room.query.search", "room.query.detail"}
  PROVE  /\ op \in DOMAIN M!Matrix["room"]
         /\ M!Matrix["room"][op] = M!RoomQueryRows[op]
<1>1. op \notin DOMAIN M!RoomLogRows
  BY GroupRows, NoRow DEF M!RoomLogRows
<1>2. op \notin DOMAIN M!RoomObjectRows
  BY GroupRows, NoRow DEF M!RoomObjectRows
<1>3. op \in DOMAIN M!RoomQueryRows
  BY QueryRows
<1> QED
  BY <1>1, <1>2, <1>3, LeftRow, RightRow, NoRow DEF M!Matrix

------------------------------------------------------------------------------
(* Evaluation                                                              *)

LEMMA AllowNotStricter == ~M!IsEffectStricterThan("allow", "memory_only")
<1> DEFINE at(e) == {i \in DOMAIN M!EffectStrictness : M!EffectStrictness[i] = e}
<1>1. DOMAIN M!EffectStrictness = 1 .. 11
  BY DEF M!EffectStrictness
<1>2. at("allow") = {11} /\ at("memory_only") = {5}
  BY <1>1 DEF M!EffectStrictness
<1>3. M!StrictnessIndex("allow") = 11 /\ M!StrictnessIndex("memory_only") = 5
  BY <1>2 DEF M!StrictnessIndex
<1> QED
  BY <1>3 DEF M!IsEffectStricterThan

\* Where the matrix lets a snapshot be searched, it lets its content be read.
LEMMA SearchImpliesDetail ==
  ASSUME MatrixAdmits("room.objects.search_plain_text")
  PROVE  MatrixAdmits("room.object.get")
<1> DEFINE search == "room.query.search"
           detail == "room.query.detail"
           device(op) == M!DeviceBaseline("room", op, snapshot.mode, FALSE, FALSE)
           answer(op) ==
             M!EvaluatePolicyMatrix("room", op, snapshot.mode, FALSE, FALSE, M!RoomSilent)
<1>1. answer(search).effect = "memory_only"
  BY DEF MatrixAdmits, MatrixOperation
<1>2. snapshot.mode \in M!Modes
  BY <1>1 DEF M!EvaluatePolicyMatrix, M!Denied
<1>3. device(search).effect = "memory_only"
  BY <1>1 DEF M!EvaluatePolicyMatrix, M!Denied, M!RoomSilent
<1>4. ASSUME NEW op \in {search, detail}
      PROVE  device(op) = [effect  |-> M!Matrix["room"][op][snapshot.mode],
                           allowed |-> M!Matrix["room"][op][snapshot.mode] \in M!AllowingEffects]
  BY DEF M!DeviceBaseline, M!ShieldTightened
<1> HIDE DEF device, answer
<1>5. snapshot.mode \notin M!OfflineModes
  <2>1. M!Matrix["room"][search] = M!Except("memory_only", M!OfflineModes, "deny")
    BY RoomRow, QueryRows
  <2>2. M!Matrix["room"][search][snapshot.mode] = "memory_only"
    BY <1>3, <1>4
  <2> QED
    BY <1>2, <2>1, <2>2 DEF M!Except
<1>6. device(detail) = [effect |-> "memory_only", allowed |-> TRUE]
  <2>1. M!Matrix["room"][detail] = M!Except("memory_only", {"emergency"}, "deny")
    BY RoomRow, QueryRows DEF M!ExceptEmergency
  <2>2. M!Matrix["room"][detail][snapshot.mode] = "memory_only"
    BY <1>2, <1>5, <2>1 DEF M!Except, M!OfflineModes
  <2> QED
    BY <1>4, <2>2 DEF M!AllowingEffects
<1>7. <<"room", detail>> \in M!MatrixQuestions
  <2>1. "room" \in DOMAIN M!Matrix
    BY DEF M!Matrix
  <2> QED
    BY <2>1, RoomRow DEF M!MatrixQuestions
<1>8. answer(detail) = device(detail)
  <2>1. ~M!IsEffectStricterThan(M!RoomSilent.effect, device(detail).effect)
    BY <1>6, AllowNotStricter DEF M!RoomSilent
  <2>2. M!RoomSilent.allowed
    BY DEF M!RoomSilent
  <2> QED
    BY <1>2, <1>7, <2>1, <2>2 DEF M!EvaluatePolicyMatrix, device, answer
<1>9. answer(detail).effect = "memory_only"
  BY <1>6, <1>8
<1> QED
  BY <1>9 DEF MatrixAdmits, MatrixOperation, answer

\* So does the query policy, whatever mode it was resolved in.
LEMMA SearchPolicyShowsContent ==
  ASSUME NEW policyMode,
         "search" \in Granted(policyMode, "room.objects.search_plain_text")
  PROVE  /\ PolicyAdmits(policyMode, "room.object.get")
         /\ "content" \in Granted(policyMode, "room.object.get")
BY DEF Granted, PolicyAdmits

\* A search finds an object by a text only where the same policy and the same
\* snapshot let its content be read: not in Emergency or Bunker, not by another
\* policy than reads, and no redacted or tombstoned object.
THEOREM SearchesFindOnlyReadable == QuerySpec => []SearchFindsOnlyReadable
<1>1. SearchFindsOnlyReadable
  <2> DEFINE search == "room.objects.search_plain_text"
  <2> SUFFICES ASSUME NEW policyMode \in Modes, NEW text \in Texts,
                      QueryAllowed(policyMode, search, FALSE),
                      NEW id \in Existing(snapshot.objects),
                      Mentions(snapshot.objects[id], text, Granted(policyMode, search))
               PROVE  /\ QueryAllowed(policyMode, "room.object.get", TRUE)
                      /\ ShownContent(snapshot.objects[id]) # NoContent
    BY DEF SearchFindsOnlyReadable
  <2>1. MatrixAdmits("room.object.get")
    BY SearchImpliesDetail DEF QueryAllowed
  <2>2. /\ PolicyAdmits(policyMode, "room.object.get")
        /\ "content" \in Granted(policyMode, "room.object.get")
    BY SearchPolicyShowsContent DEF QueryAllowed
  <2>3. ShownContent(snapshot.objects[id]) # NoContent
    BY DEF Mentions, ShownContent
  <2> QED
    BY <2>1, <2>2, <2>3 DEF QueryAllowed
<1> QED
  BY <1>1, PTL

------------------------------------------------------------------------------
(* Lists in order                                                          *)

\* A strict order on X, as the set of its pairs.
StrictOrder(R, X) ==
  /\ \A x \in X : <<x, x>> \notin R
  /\ \A x, y \in X : x # y => <<x, y>> \in R \/ <<y, x>> \in R
  /\ \A x, y, z \in X : <<x, y>> \in R /\ <<y, z>> \in R => <<x, z>> \in R

\* The first n elements of a list come in order.
Sorted(list, n, R) == \A i, j \in 1..n : i < j => <<list[i], list[j]>> \in R

Greatest(x, S, R) == x \in S /\ \A y \in S \ {x} : <<y, x>> \in R

LEMMA GreatestExists ==
  ASSUME NEW X, NEW R, StrictOrder(R, X), NEW S \in SUBSET X, IsFiniteSet(S), S # {}
  PROVE  \E x : Greatest(x, S, R)
<1> DEFINE good == {n \in Nat : \A T \in SUBSET X :
                      IsFiniteSet(T) /\ Cardinality(T) = n /\ T # {} =>
                        \E x : Greatest(x, T, R)}
<1>1. 0 \in good
  BY FS_EmptySet
<1>2. ASSUME NEW n \in Nat \ {0}, n - 1 \in good PROVE n \in good
  <2> SUFFICES ASSUME NEW T \in SUBSET X, IsFiniteSet(T), Cardinality(T) = n, T # {}
               PROVE  \E x : Greatest(x, T, R)
    OBVIOUS
  <2>1. PICK x \in T : TRUE
    OBVIOUS
  <2>2. IsFiniteSet(T \ {x}) /\ Cardinality(T \ {x}) = n - 1
    BY FS_RemoveElement
  <2>3. CASE T \ {x} = {}
    <3>1. Greatest(x, T, R)
      BY <2>1, <2>3 DEF Greatest
    <3> QED
      BY <3>1
  <2>4. CASE T \ {x} # {}
    <3>1. PICK m : Greatest(m, T \ {x}, R)
      BY <1>2, <2>2, <2>4
    <3>2. /\ m \in T /\ m # x /\ m \in X /\ x \in X
          /\ \A y \in T \ {x, m} : <<y, m>> \in R /\ y \in X
      BY <2>1, <3>1 DEF Greatest
    <3>3. CASE <<x, m>> \in R
      <4>1. Greatest(m, T, R)
        BY <3>2, <3>3 DEF Greatest
      <4> QED
        BY <4>1
    <3>4. CASE <<m, x>> \in R
      <4>1. \A y \in T \ {x, m} : <<y, x>> \in R
        BY <3>2, <3>4 DEF StrictOrder
      <4>2. Greatest(x, T, R)
        BY <2>1, <3>4, <4>1 DEF Greatest
      <4> QED
        BY <4>2
    <3> QED
      BY <3>2, <3>3, <3>4 DEF StrictOrder
  <2> QED
    BY <2>3, <2>4
<1>3. Cardinality(S) \in Nat
  BY FS_CardinalityType
<1> HIDE DEF good
<1>4. 0..Cardinality(S) \subseteq good
  BY <1>1, <1>2, <1>3, UpTo
<1>5. Cardinality(S) \in good
  BY <1>3, <1>4
<1> QED
  BY <1>5 DEF good

LEMMA SortedListExists ==
  ASSUME NEW X, NEW R, StrictOrder(R, X), NEW S \in SUBSET X, IsFiniteSet(S)
  PROVE  \E list \in [1..Cardinality(S) -> S] : Sorted(list, Cardinality(S), R)
<1> DEFINE good == {n \in Nat : \A T \in SUBSET X :
                      IsFiniteSet(T) /\ Cardinality(T) = n =>
                        \E list \in [1..n -> T] : Sorted(list, n, R)}
<1>1. 0 \in good
  <2> SUFFICES ASSUME NEW T \in SUBSET X PROVE \E list \in [1..0 -> T] : Sorted(list, 0, R)
    OBVIOUS
  <2> DEFINE list == [i \in 1..0 |-> CHOOSE t \in T : TRUE]
  <2>1. list \in [1..0 -> T] /\ Sorted(list, 0, R)
    BY DEF Sorted
  <2> QED
    BY <2>1
<1>2. ASSUME NEW n \in Nat \ {0}, n - 1 \in good PROVE n \in good
  <2> SUFFICES ASSUME NEW T \in SUBSET X, IsFiniteSet(T), Cardinality(T) = n
               PROVE  \E list \in [1..n -> T] : Sorted(list, n, R)
    OBVIOUS
  <2>1. PICK x : Greatest(x, T, R)
    BY FS_EmptySet, GreatestExists
  <2>2. IsFiniteSet(T \ {x}) /\ Cardinality(T \ {x}) = n - 1 /\ x \in T
    BY <2>1, FS_RemoveElement DEF Greatest
  <2>3. PICK rest \in [1..(n-1) -> T \ {x}] : Sorted(rest, n - 1, R)
    BY <1>2, <2>2
  <2> DEFINE list == [i \in 1..n |-> IF i = n THEN x ELSE rest[i]]
  <2>4. \A i \in 1..(n-1) : list[i] = rest[i] /\ rest[i] \in T \ {x}
    OBVIOUS
  <2>5. list[n] = x /\ list \in [1..n -> T]
    BY <2>2
  <2> HIDE DEF list
  <2>6. ASSUME NEW i \in 1..n, NEW j \in 1..n, i < j PROVE <<list[i], list[j]>> \in R
    <3>1. i \in 1..(n-1)
      BY <2>6
    <3>2. CASE j = n
      BY <2>1, <2>4, <2>5, <3>1, <3>2 DEF Greatest
    <3>3. CASE j # n
      BY <2>3, <2>4, <2>6, <3>1, <3>3 DEF Sorted
    <3> QED
      BY <3>2, <3>3
  <2> QED
    BY <2>5, <2>6 DEF Sorted
<1>3. Cardinality(S) \in Nat
  BY FS_CardinalityType
<1> HIDE DEF good
<1>4. 0..Cardinality(S) \subseteq good
  BY <1>1, <1>2, <1>3, UpTo
<1>5. Cardinality(S) \in good
  BY <1>3, <1>4
<1> QED
  BY <1>5 DEF good

\* A list in order of as many elements as the set has holds each of them once.
LEMMA SortedListComplete ==
  ASSUME NEW X, NEW R, StrictOrder(R, X), NEW S \in SUBSET X, IsFiniteSet(S),
         NEW list \in [1..Cardinality(S) -> S], Sorted(list, Cardinality(S), R)
  PROVE  /\ \A i, j \in 1..Cardinality(S) : list[i] = list[j] => i = j
         /\ \A x \in S : \E i \in 1..Cardinality(S) : list[i] = x
<1> DEFINE n == Cardinality(S)
<1>1. n \in Nat
  BY FS_CardinalityType
<1>2. ASSUME NEW i \in 1..n, NEW j \in 1..n, list[i] = list[j], i # j PROVE FALSE
  <2>1. i < j \/ j < i
    BY <1>1, <1>2
  <2>2. <<list[i], list[i]>> \in R
    BY <1>2, <2>1 DEF Sorted
  <2> QED
    BY <2>2 DEF StrictOrder
<1>3. list \in Injection(1..n, S)
  BY <1>2 DEF Injection, IsInjective
<1>4. IsFiniteSet(1..n) /\ Cardinality(1..n) = n
  BY <1>1, FS_Interval
<1>5. list \in Surjection(1..n, S)
  BY <1>3, <1>4, FS_Injection
<1> QED
  BY <1>2, <1>5 DEF Surjection

------------------------------------------------------------------------------
(* What a listing is a page of                                             *)

Projections == [ObjectIds -> Objects \cup {NoObject}]

\* Every order of the comparator is a strict order on the objects there are: it
\* compares integers and falls back on the id.
LEMMA PrecedesOrders ==
  ASSUME NEW objs \in Projections, NEW sort
  PROVE  StrictOrder({p \in ObjectIds \X ObjectIds : Precedes(objs, sort, p[1], p[2])},
                     Existing(objs))
<1> DEFINE key(id) == CASE sort = "revision_desc" -> MaxRevision - objs[id].revision
                        [] sort = "created_local_asc" -> CreatedAt[id]
                        [] OTHER -> 0
           R == {p \in ObjectIds \X ObjectIds : Precedes(objs, sort, p[1], p[2])}
<1>1. ASSUME NEW id \in Existing(objs)
      PROVE  id \in ObjectIds /\ id \in Nat /\ key(id) \in Int
  <2>1. id \in ObjectIds /\ objs[id] \in Objects
    BY DEF Existing, Projections
  <2>2. objs[id].revision \in Nat /\ MaxRevision \in Nat
    BY <2>1, MaxRevisionType DEF Objects
  <2>3. CreatedAt[id] \in Nat /\ id \in Nat
    BY <2>1, RoomQueriesAssumption DEF RoomQueriesAssumption
  <2> QED
    BY <2>1, <2>2, <2>3
<1>2. \A a, b : Precedes(objs, sort, a, b) <=> key(a) < key(b) \/ (key(a) = key(b) /\ a < b)
  BY DEF Precedes
<1> HIDE DEF key
<1>3. \A a, b \in Existing(objs) :
        <<a, b>> \in R <=> key(a) < key(b) \/ (key(a) = key(b) /\ a < b)
  BY <1>1, <1>2
<1> HIDE DEF R
<1>4. \A x \in Existing(objs) : <<x, x>> \notin R
  BY <1>1, <1>3
<1>5. \A x, y \in Existing(objs) : x # y => <<x, y>> \in R \/ <<y, x>> \in R
  BY <1>1, <1>3
<1>6. \A x, y, z \in Existing(objs) : <<x, y>> \in R /\ <<y, z>> \in R => <<x, z>> \in R
  BY <1>1, <1>3
<1>7. StrictOrder(R, Existing(objs))
  BY <1>4, <1>5, <1>6 DEF StrictOrder
<1> QED
  BY <1>7 DEF R

\* A list has what was chosen, each once, in order.
Lists(list, chosen, objs, sort) ==
  /\ list \in Seq(chosen)
  /\ \A i, j \in 1..Len(list) : i < j => Precedes(objs, sort, list[i], list[j])
  /\ \A i, j \in 1..Len(list) : list[i] = list[j] => i = j
  /\ \A x \in chosen : \E i \in 1..Len(list) : list[i] = x

LEMMA OrderedLists ==
  ASSUME NEW objs \in Projections, IsFiniteSet(Existing(objs)),
         NEW selection, NEW granted, NEW sort
  PROVE  Lists(Ordered(objs, selection, granted, sort),
               Selected(objs, selection, granted), objs, sort)
<1> DEFINE X      == Existing(objs)
           R      == {p \in ObjectIds \X ObjectIds : Precedes(objs, sort, p[1], p[2])}
           chosen == Selected(objs, selection, granted)
           n      == Cardinality(chosen)
           list   == Ordered(objs, selection, granted, sort)
<1>1. StrictOrder(R, X)
  BY PrecedesOrders
<1>2. chosen \in SUBSET X /\ X \subseteq ObjectIds
  BY DEF Selected, Existing
<1>3. IsFiniteSet(chosen) /\ n \in Nat
  BY <1>2, FS_Subset, FS_CardinalityType
<1>4. list = CHOOSE l \in [1..n -> chosen] :
               \A i, j \in 1..n : i < j => Precedes(objs, sort, l[i], l[j])
  BY DEF Ordered
<1>5. \A l \in [1..n -> chosen] :
        Sorted(l, n, R) <=> \A i, j \in 1..n : i < j => Precedes(objs, sort, l[i], l[j])
  <2> SUFFICES ASSUME NEW l \in [1..n -> chosen], NEW i \in 1..n, NEW j \in 1..n
               PROVE  <<l[i], l[j]>> \in R <=> Precedes(objs, sort, l[i], l[j])
    BY DEF Sorted
  <2>1. l[i] \in ObjectIds /\ l[j] \in ObjectIds
    BY <1>2
  <2> QED
    BY <2>1
<1> HIDE DEF R, X, chosen, list
<1>6. \E l \in [1..n -> chosen] : Sorted(l, n, R)
  BY <1>1, <1>2, <1>3, SortedListExists
<1>7. list \in [1..n -> chosen] /\ Sorted(list, n, R)
  BY <1>4, <1>5, <1>6
<1>8. /\ \A i, j \in 1..n : list[i] = list[j] => i = j
      /\ \A x \in chosen : \E i \in 1..n : list[i] = x
  BY <1>1, <1>2, <1>3, <1>7, SortedListComplete
<1>9. list \in Seq(chosen) /\ Len(list) = n
  BY <1>3, <1>7
<1> QED
  BY <1>5, <1>7, <1>8, <1>9 DEF Lists, list, chosen

LEMMA StartAfterFinds ==
  ASSUME NEW S, NEW list \in Seq(S), NEW cursor,
         \A i, j \in 1..Len(list) : list[i] = list[j] => i = j
  PROVE  /\ StartAfter(list, cursor) \in 0..Len(list)
         /\ cursor = Nothing => StartAfter(list, cursor) = 0
         /\ cursor # Nothing => \A i \in 1..Len(list) :
              list[i] = cursor => StartAfter(list, cursor) = i
<1> DEFINE found == {i \in DOMAIN list : list[i] = cursor}
<1>1. Len(list) \in Nat /\ DOMAIN list = 1..Len(list)
  OBVIOUS
<1>2. CASE cursor = Nothing
  BY <1>1, <1>2 DEF StartAfter
<1>3. CASE cursor # Nothing /\ found = {}
  <2>1. StartAfter(list, cursor) = Len(list)
    BY <1>3 DEF StartAfter
  <2>2. \A i \in 1..Len(list) : list[i] # cursor
    BY <1>1, <1>3
  <2>3. cursor # Nothing
    BY <1>3
  <2>4. StartAfter(list, cursor) \in 0..Len(list)
    BY <1>1, <2>1
  <2> QED
    BY <2>2, <2>3, <2>4
<1>4. CASE cursor # Nothing /\ found # {}
  <2>1. PICK i \in 1..Len(list) : list[i] = cursor
    BY <1>1, <1>4
  <2>2. found = {i}
    BY <1>1, <2>1
  <2>3. Min(found) = i
    BY <1>1, <2>2 DEF Min
  <2>4. StartAfter(list, cursor) = i
    BY <1>4, <2>3 DEF StartAfter
  <2> QED
    BY <1>1, <1>4, <2>1, <2>4
<1> QED
  BY <1>2, <1>3, <1>4

\* A page is the piece of its list after its start, and the one without a
\* cursor is the one that reaches the end.
Piece(page, list, start, S) ==
  \E end \in start..Len(list) :
    /\ page.window = SubSeq(list, start + 1, end)
    /\ page.window \in Seq(S)
    /\ Len(page.window) = end - start
    /\ \A i \in 1..(end - start) : page.window[i] = list[start + i]
    /\ page.more <=> end # Len(list)
    /\ end = start => start = Len(list)

LEMMA PageIs ==
  ASSUME NEW S, NEW list \in Seq(S), NEW cursor, NEW limit \in Nat \ {0},
         NEW start, start = StartAfter(list, cursor), start \in 0..Len(list)
  PROVE  Piece(Page(list, cursor, limit), list, start, S)
<1> DEFINE page == Page(list, cursor, limit)
           end  == Smaller(start + limit, Len(list))
<1>1. Len(list) \in Nat /\ \A i \in 1..Len(list) : list[i] \in S
  OBVIOUS
<1>2. /\ end \in start..Len(list)
      /\ start + limit < Len(list) <=> end # Len(list)
      /\ end = start => start = Len(list)
  BY <1>1 DEF Smaller
<1>3. /\ page.window = SubSeq(list, start + 1, end)
      /\ page.more <=> start + limit < Len(list)
  BY DEF Page
<1> HIDE DEF page, end
<1>4. /\ start \in Nat /\ end \in Nat
      /\ \A i \in (start + 1)..end : list[i] \in S
  BY <1>1, <1>2
<1>5. /\ SubSeq(list, start + 1, end) \in Seq(S)
      /\ Len(SubSeq(list, start + 1, end)) = end - start
      /\ \A i \in 1..(end - start) : SubSeq(list, start + 1, end)[i] = list[start + i]
  <2> DEFINE m == start + 1
  <2>1. m \in Int /\ end \in Int /\ \A i \in m..end : list[i] \in S
    BY <1>4
  <2>2. end - m + 1 = end - start /\ \A i \in 1..(end - start) : m + i - 1 = start + i
    BY <1>4
  <2>3. (IF m <= end THEN end - m + 1 ELSE 0) = end - start
    BY <1>2, <1>4
  <2> HIDE DEF m
  <2>4. /\ SubSeq(list, m, end) \in Seq(S)
        /\ Len(SubSeq(list, m, end)) = IF m <= end THEN end - m + 1 ELSE 0
        /\ \A i \in 1..(end - m + 1) : SubSeq(list, m, end)[i] = list[m + i - 1]
    BY <2>1
  <2>5. \A i \in 1..(end - start) : SubSeq(list, m, end)[i] = list[start + i]
    BY <2>2, <2>4
  <2> QED
    BY <2>3, <2>4, <2>5 DEF m
<1> QED
  BY <1>2, <1>3, <1>5 DEF page, Piece

------------------------------------------------------------------------------
(* Type correctness                                                        *)

\* Every object id is a number, and none is the absent cursor.
LEMMA CursorsAreIds == Nothing \notin ObjectIds
BY RoomObjectsAssumption DEF RoomObjectsAssumption

\* The order a page comes in is an order.
LEMMA EffectiveSortType ==
  ASSUME NEW sort \in Sorts, NEW granted
  PROVE  EffectiveSort(sort, granted) \in Sorts
BY DEF EffectiveSort, Sorts

\* What a page adds to a walk, and where it leaves it: a piece of the list from
\* `start' on.
Serves(w, after, list, start) ==
  /\ after.selection = w.selection
  /\ after.sort = w.sort
  /\ after.first = w.first
  /\ after.policyMode = w.policyMode
  /\ after.single = w.single
  /\ start \in 0..Len(list)
  /\ \E end \in start..Len(list) :
       /\ Len(after.served) = Len(w.served) + (end - start)
       /\ \A i \in 1..Len(w.served) : after.served[i] = w.served[i]
       /\ \A i \in 1..(end - start) : after.served[Len(w.served) + i] = list[start + i]
       /\ after.cursor = IF end = start THEN w.cursor ELSE list[end]
       /\ after.done <=> end = Len(list)
       /\ end = start => start = Len(list)

LEMMA PageServes ==
  ASSUME snapshot \in Snapshots, IsFiniteSet(Existing(snapshot.objects)),
         NEW w \in Walks, NEW granted, NEW limit \in Nat \ {0}, NEW list,
         list = Ordered(snapshot.objects, w.selection, granted, w.sort)
  PROVE  /\ AfterPage(w, granted, limit) \in Walks
         /\ Serves(w, AfterPage(w, granted, limit), list, StartAfter(list, w.cursor))
<1> DEFINE chosen == Selected(snapshot.objects, w.selection, granted)
           start  == StartAfter(list, w.cursor)
           page   == Page(list, w.cursor, limit)
           window == page.window
           after  == AfterPage(w, granted, limit)
<1>1. snapshot.objects \in Projections /\ chosen \subseteq ObjectIds
  BY DEF Snapshots, Projections, Selected, Existing
<1>2. Lists(list, chosen, snapshot.objects, w.sort)
  BY <1>1, OrderedLists
<1>3. list \in Seq(ObjectIds) /\ \A i, j \in 1..Len(list) : list[i] = list[j] => i = j
  BY <1>1, <1>2 DEF Lists
<1>4. after = [w EXCEPT !.served = w.served \o window,
                        !.cursor = IF window = <<>> THEN w.cursor ELSE Last(window),
                        !.done   = ~page.more]
  BY DEF AfterPage
<1>5. start \in 0..Len(list)
  BY <1>3, StartAfterFinds
<1>6. PICK end \in start..Len(list) :
        /\ window \in Seq(ObjectIds)
        /\ Len(window) = end - start
        /\ \A i \in 1..(end - start) : window[i] = list[start + i]
        /\ page.more <=> end # Len(list)
        /\ end = start => start = Len(list)
  <2>1. Piece(page, list, start, ObjectIds)
    BY <1>3, <1>5, PageIs
  <2> QED
    BY <2>1 DEF Piece
<1>7. Len(list) \in Nat /\ end \in Nat /\ start \in Nat
  BY <1>3, <1>5
<1> HIDE DEF page, start
<1>8. window = <<>> <=> end = start
  BY <1>6, <1>7
<1>9. end # start => Last(window) = list[end] /\ list[end] \in ObjectIds
  <2> SUFFICES ASSUME end # start
               PROVE  Last(window) = list[end] /\ list[end] \in ObjectIds
    OBVIOUS
  <2>1. end - start \in 1..(end - start) /\ start + (end - start) = end /\ end \in 1..Len(list)
    BY <1>5, <1>6, <1>7
  <2>2. Last(window) = window[end - start]
    BY <1>6 DEF Last
  <2>3. window[end - start] = list[start + (end - start)]
    BY <1>6, <2>1
  <2> QED
    BY <1>3, <2>1, <2>2, <2>3
<1>10. w.served \in Seq(ObjectIds) /\ w.cursor \in ObjectIds \cup {Nothing}
  BY DEF Walks
<1> HIDE DEF window
<1>11. /\ w.served \o window \in Seq(ObjectIds)
       /\ Len(w.served \o window) = Len(w.served) + (end - start)
       /\ \A i \in 1..Len(w.served) : (w.served \o window)[i] = w.served[i]
       /\ \A i \in 1..(end - start) : (w.served \o window)[Len(w.served) + i] = list[start + i]
  <2>1. /\ w.served \o window \in Seq(ObjectIds)
        /\ Len(w.served \o window) = Len(w.served) + Len(window)
        /\ \A i \in 1..Len(w.served) : (w.served \o window)[i] = w.served[i]
        /\ \A i \in 1..Len(window) : (w.served \o window)[Len(w.served) + i] = window[i]
    <3>1. w.served \in Seq(ObjectIds) /\ window \in Seq(ObjectIds)
      BY <1>6, <1>10
    <3> QED
      BY <3>1
  <2> QED
    BY <1>6, <2>1
<1>12. /\ after.served = w.served \o window
       /\ after.cursor = IF end = start THEN w.cursor ELSE list[end]
       /\ after.done = ~page.more
       /\ /\ after.selection = w.selection
          /\ after.sort = w.sort
          /\ after.first = w.first
          /\ after.policyMode = w.policyMode
          /\ after.single = w.single
  BY <1>4, <1>8, <1>9 DEF Walks
<1>13. after \in Walks
  BY <1>4, <1>8, <1>9, <1>10, <1>11 DEF Walks
<1> HIDE DEF after
<1>14. after.done <=> end = Len(list)
  BY <1>6, <1>12
<1>15. \E e \in start..Len(list) :
         /\ Len(after.served) = Len(w.served) + (e - start)
         /\ \A i \in 1..Len(w.served) : after.served[i] = w.served[i]
         /\ \A i \in 1..(e - start) : after.served[Len(w.served) + i] = list[start + i]
         /\ after.cursor = IF e = start THEN w.cursor ELSE list[e]
         /\ after.done <=> e = Len(list)
         /\ e = start => start = Len(list)
  BY <1>6, <1>11, <1>12, <1>14
<1> QED
  BY <1>5, <1>12, <1>13, <1>15 DEF after, start, Serves

\* A walk as its first page finds it.
Begun(selection, sort, policyMode) ==
  LET granted == Granted(policyMode, QueryOf(selection))
  IN  [selection |-> selection, sort |-> EffectiveSort(sort, granted),
       cursor |-> Nothing, served |-> <<>>,
       first |-> Selected(snapshot.objects, selection, granted),
       policyMode |-> policyMode, single |-> TRUE, done |-> FALSE]

\* A walk as a later page finds it.
Resumed(policyMode) == [walk EXCEPT !.single = walk.single /\ policyMode = walk.policyMode]

LEMMA BegunType ==
  ASSUME NEW selection \in InputSelections, NEW sort \in Sorts,
         NEW policyMode \in InputPolicyModes
  PROVE  Begun(selection, sort, policyMode) \in Walks
<1>1. selection \in Selections /\ policyMode \in Modes
  BY InputSelectionsAssumption, RoomQueriesAssumption
     DEF InputSelectionsAssumption, RoomQueriesAssumption
<1>2. <<>> \in Seq(ObjectIds)
  BY EmptySeq
<1>3. Selected(snapshot.objects, selection, Granted(policyMode, QueryOf(selection)))
        \subseteq ObjectIds
  BY DEF Selected, Existing
<1>4. EffectiveSort(sort, Granted(policyMode, QueryOf(selection))) \in Sorts
  BY EffectiveSortType
<1> QED
  BY <1>1, <1>2, <1>3, <1>4 DEF Begun, Walks

\* Every page is one more page of a walk begun or resumed.
LEMMA WalkStep ==
  ASSUME QueryTypeOK, [QueryNext]_queryVars
  PROVE  \/ UNCHANGED <<snapshot, walk>>
         \/ TakeSnapshot
         \/ \E selection \in InputSelections, sort \in Sorts,
               policyMode \in InputPolicyModes, limit \in Nat \ {0} :
              /\ walk' = AfterPage(Begun(selection, sort, policyMode),
                                  Granted(policyMode, QueryOf(selection)), limit)
              /\ UNCHANGED <<objects, snapshot>>
         \/ /\ walk # NoWalk
            /\ \E policyMode \in InputPolicyModes, limit \in Nat \ {0} :
                 walk' = AfterPage(Resumed(policyMode),
                                   Granted(policyMode, QueryOf(walk.selection)), limit)
            /\ UNCHANGED <<objects, snapshot>>
<1>1. InputLimits \subseteq Nat \ {0}
  BY RoomQueriesAssumption DEF RoomQueriesAssumption
<1>2. CASE SubmitCommand \/ (ResolveObjectPolicy /\ UNCHANGED <<snapshot, walk>>)
  BY <1>2 DEF SubmitCommand
<1>3. ASSUME NEW selection \in InputSelections, NEW sort \in Sorts,
             NEW policyMode \in InputPolicyModes, NEW limit \in InputLimits,
             BeginWalk(selection, sort, policyMode, limit)
      PROVE  /\ limit \in Nat \ {0}
             /\ walk' = AfterPage(Begun(selection, sort, policyMode),
                                 Granted(policyMode, QueryOf(selection)), limit)
             /\ UNCHANGED <<objects, snapshot>>
  BY <1>1, <1>3 DEF BeginWalk, Begun, objectVars
<1>4. ASSUME walk # NoWalk, NEW sort \in Sorts, NEW policyMode \in InputPolicyModes,
             NEW limit \in InputLimits, NextPage(sort, policyMode, limit)
      PROVE  /\ limit \in Nat \ {0}
             /\ walk' = AfterPage(Resumed(policyMode),
                                 Granted(policyMode, QueryOf(walk.selection)), limit)
             /\ UNCHANGED <<objects, snapshot>>
  <2> DEFINE granted == Granted(policyMode, QueryOf(walk.selection))
  <2>1. walk \in Walks
    BY <1>4 DEF QueryTypeOK
  <2>2. walk.sort = EffectiveSort(sort, granted)
    BY <1>4 DEF NextPage, SortMatches
  <2>3. walk' = AfterPage([walk EXCEPT !.sort = EffectiveSort(sort, granted),
                                       !.single = @ /\ policyMode = walk.policyMode],
                          granted, limit)
    BY <1>4 DEF NextPage
  <2>4. [walk EXCEPT !.sort = EffectiveSort(sort, granted),
                     !.single = @ /\ policyMode = walk.policyMode] = Resumed(policyMode)
    BY <2>1, <2>2 DEF Resumed, Walks
  <2> QED
    BY <1>1, <1>4, <2>3, <2>4 DEF NextPage, objectVars
<1>5. CASE \E selection \in InputSelections, sort \in Sorts,
            policyMode \in InputPolicyModes, limit \in InputLimits :
              BeginWalk(selection, sort, policyMode, limit)
  <2>1. PICK selection \in InputSelections, sort \in Sorts,
             policyMode \in InputPolicyModes, limit \in InputLimits :
               BeginWalk(selection, sort, policyMode, limit)
    BY <1>5
  <2>2. /\ limit \in Nat \ {0}
        /\ walk' = AfterPage(Begun(selection, sort, policyMode),
                            Granted(policyMode, QueryOf(selection)), limit)
        /\ UNCHANGED <<objects, snapshot>>
    BY <1>3, <2>1
  <2> QED
    BY <2>2
<1>6. CASE /\ walk # NoWalk
           /\ \E sort \in Sorts, policyMode \in InputPolicyModes, limit \in InputLimits :
                NextPage(sort, policyMode, limit)
  <2>1. PICK sort \in Sorts, policyMode \in InputPolicyModes, limit \in InputLimits :
               NextPage(sort, policyMode, limit)
    BY <1>6
  <2>2. /\ limit \in Nat \ {0}
        /\ walk' = AfterPage(Resumed(policyMode),
                            Granted(policyMode, QueryOf(walk.selection)), limit)
        /\ UNCHANGED <<objects, snapshot>>
    BY <1>4, <1>6, <2>1
  <2> QED
    BY <1>6, <2>2
<1>7. CASE TakeSnapshot
  BY <1>7
<1>8. CASE UNCHANGED queryVars
  BY <1>8 DEF queryVars
<1> QED
  BY <1>2, <1>5, <1>6, <1>7, <1>8 DEF QueryNext

LEMMA ResumedType ==
  ASSUME QueryTypeOK, walk # NoWalk, NEW policyMode
  PROVE  /\ walk \in Walks
         /\ Resumed(policyMode) \in Walks
         /\ \A field \in DOMAIN walk \ {"single"} : Resumed(policyMode)[field] = walk[field]
<1>1. walk \in Walks
  BY DEF QueryTypeOK
<1>2. (walk.single /\ policyMode = walk.policyMode) \in BOOLEAN
  BY <1>1 DEF Walks
<1> QED
  BY <1>1, <1>2 DEF Resumed, Walks

\* The objects there are stay, with their kinds, and only so many are added.
LEMMA SubmissionAdds ==
  ASSUME ObjectTypeOK, SubmitCommand
  PROVE  /\ ObjectTypeOK'
         /\ \E id \in ObjectIds : Existing(objects)' \subseteq Existing(objects) \cup {id}
         /\ \A id \in Existing(objects) :
              id \in Existing(objects)' /\ objects'[id].kind = objects[id].kind
<1>1. PICK id, command, kind, text, r :
        /\ id \in ObjectIds /\ command \in InputCommands
        /\ kind \in InputKinds /\ text \in Texts
        /\ r = [command |-> command, id |-> id, mode |-> mode, seen |-> objects[id],
                kind |-> kind, text |-> text, status |-> "none", ref |-> Nothing]
        /\ CreateObject(r) \/ UpdateObject(r)
  BY DEF SubmitCommand
<1>2. r \in ObjectRequests
  <2>1. /\ command \in ObjectCommands /\ kind \in Kinds /\ "none" \in Statuses
        /\ mode \in Modes /\ objects[id] \in Objects \cup {NoObject}
    BY <1>1, InputCommandsAssumption, SettableStatuses DEF InputCommandsAssumption, ObjectTypeOK
  <2> QED
    BY <1>1, <2>1 DEF ObjectRequests
<1>3. ObjectTypeOK'
  BY <1>1, <1>2, SubmitObjectTypeOK
<1>4. ASSUME NEW i \in ObjectIds, objects'[i] # objects[i]
      PROVE  /\ i = r.id
             /\ objects[i] # NoObject =>
                  objects'[i] # NoObject /\ objects'[i].kind = objects[i].kind
  <2>1. /\ r.id = i
        /\ objects'[i] = ResultingObject(r)
        /\ \/ CreateObject(r) /\ objects[i] = NoObject
           \/ UpdateObject(r) /\ objects[i] # NoObject
    BY <1>1, <1>2, <1>4, AcceptedWrites
  <2> QED
    BY <1>2, <2>1, UpdatedType, NoObjectAssumption DEF NoObjectAssumption
<1>5. Existing(objects)' \subseteq Existing(objects) \cup {r.id}
  BY <1>4 DEF Existing
<1>6. r.id \in ObjectIds
  BY <1>2 DEF ObjectRequests
<1>7. \A i \in Existing(objects) :
        i \in Existing(objects)' /\ objects'[i].kind = objects[i].kind
  BY <1>4 DEF Existing
<1> QED
  BY <1>3, <1>5, <1>6, <1>7

\* Only finitely many objects were ever created, so that lists exist.
FinitelyMany == IsFiniteSet(Existing(objects)) /\ IsFiniteSet(Existing(snapshot.objects))

LEMMA FinitelyManyStep ==
  ASSUME QueryTypeOK, FinitelyMany, [QueryNext]_queryVars
  PROVE  FinitelyMany'
<1>1. CASE SubmitCommand
  <2>1. PICK id \in ObjectIds : Existing(objects)' \subseteq Existing(objects) \cup {id}
    BY <1>1, SubmissionAdds DEF QueryTypeOK
  <2>2. IsFiniteSet(Existing(objects) \cup {id})
    BY FS_AddElement DEF FinitelyMany
  <2>3. IsFiniteSet(Existing(objects)')
    BY <2>1, <2>2, FS_Subset
  <2> QED
    BY <1>1, <2>3 DEF SubmitCommand, FinitelyMany, Existing
<1>2. CASE TakeSnapshot
  BY <1>2 DEF TakeSnapshot, objectVars, FinitelyMany, Existing
<1>3. CASE ~SubmitCommand /\ ~TakeSnapshot
  <2>1. UNCHANGED <<objects, snapshot>>
    BY <1>3 DEF QueryNext, ResolveObjectPolicy, BeginWalk, NextPage, queryVars, objectVars
  <2> QED
    BY <2>1 DEF FinitelyMany, Existing
<1> QED
  BY <1>1, <1>2, <1>3

LEMMA QueryTypeOKStep ==
  ASSUME QueryTypeOK, FinitelyMany, [QueryNext]_queryVars
  PROVE  QueryTypeOK'
<1>1. ObjectTypeOK'
  <2>1. CASE SubmitCommand
    BY <2>1, SubmissionAdds DEF QueryTypeOK
  <2>2. CASE ResolveObjectPolicy
    BY <2>2, ObjectTypeOKStep DEF ObjectNext, QueryTypeOK
  <2>3. CASE UNCHANGED objectVars
    BY <2>3, ObjectTypeOKStep DEF QueryTypeOK
  <2> QED
    BY <2>1, <2>2, <2>3 DEF QueryNext, TakeSnapshot, BeginWalk, NextPage, queryVars
<1>2. CASE UNCHANGED <<snapshot, walk>>
  BY <1>1, <1>2 DEF QueryTypeOK
<1>3. CASE TakeSnapshot
  <2>1. snapshot' \in Snapshots
    BY <1>3 DEF TakeSnapshot, Snapshots, QueryTypeOK, ObjectTypeOK
  <2>2. walk' \in Walks \cup {NoWalk}
    BY <1>3 DEF TakeSnapshot, QueryTypeOK, Walks
  <2> QED
    BY <1>1, <2>1, <2>2 DEF QueryTypeOK
<1>4. ASSUME NEW selection \in InputSelections, NEW sort \in Sorts,
             NEW policyMode \in InputPolicyModes, NEW limit \in Nat \ {0},
             walk' = AfterPage(Begun(selection, sort, policyMode),
                               Granted(policyMode, QueryOf(selection)), limit),
             UNCHANGED snapshot
      PROVE  QueryTypeOK'
  BY <1>1, <1>4, BegunType, PageServes DEF QueryTypeOK, FinitelyMany
<1>5. ASSUME walk # NoWalk, NEW policyMode \in InputPolicyModes, NEW limit \in Nat \ {0},
             walk' = AfterPage(Resumed(policyMode),
                               Granted(policyMode, QueryOf(walk.selection)), limit),
             UNCHANGED snapshot
      PROVE  QueryTypeOK'
  BY <1>1, <1>5, ResumedType, PageServes DEF QueryTypeOK, FinitelyMany
<1> QED
  BY <1>2, <1>3, <1>4, <1>5, WalkStep

\* Every snapshot, cursor and walk is well formed: a listing has an order
\* whatever the objects are, and every cursor names an object or nothing.
THEOREM QueryTypeCorrect == QuerySpec => [](QueryTypeOK /\ FinitelyMany)
<1>1. QueryInit => QueryTypeOK /\ FinitelyMany
  <2> SUFFICES ASSUME QueryInit PROVE QueryTypeOK /\ FinitelyMany
    OBVIOUS
  <2>1. ObjectTypeOK
    BY DEF QueryInit, ObjectInit, NoObjects, ObjectTypeOK, Modes
  <2>2. snapshot \in Snapshots /\ walk = NoWalk
    BY DEF QueryInit, NoObjects, Snapshots, Modes
  <2>3. Existing(objects) = {} /\ Existing(snapshot.objects) = {}
    BY DEF QueryInit, ObjectInit, NoObjects, Existing
  <2> QED
    BY <2>1, <2>2, <2>3, FS_EmptySet DEF QueryTypeOK, FinitelyMany
<1> QED
  BY <1>1, QueryTypeOKStep, FinitelyManyStep, PTL DEF QuerySpec

------------------------------------------------------------------------------
(* Pages of one snapshot                                                   *)

\* The cursor a caller holds is the last object it was served.
CursorIsLast(w) ==
  w.cursor = IF Len(w.served) = 0 THEN Nothing ELSE w.served[Len(w.served)]

\* The list a walk reads when nothing changes under it.
Whole(w) ==
  Ordered(snapshot.objects, w.selection, Granted(w.policyMode, QueryOf(w.selection)), w.sort)

\* What a walk was served so far is where that list begins.
Agrees(w) ==
  /\ Len(w.served) <= Len(Whole(w))
  /\ \A i \in 1..Len(w.served) : w.served[i] = Whole(w)[i]

PagesInv ==
  walk # NoWalk =>
    /\ CursorIsLast(walk)
    /\ walk.single =>
         Agrees(walk) /\ (walk.done <=> Len(walk.served) = Len(Whole(walk)))

LEMMA PageMovesCursor ==
  ASSUME snapshot \in Snapshots, IsFiniteSet(Existing(snapshot.objects)),
         NEW w \in Walks, NEW granted, NEW limit \in Nat \ {0}, CursorIsLast(w)
  PROVE  CursorIsLast(AfterPage(w, granted, limit))
<1> DEFINE list  == Ordered(snapshot.objects, w.selection, granted, w.sort)
           start == StartAfter(list, w.cursor)
           after == AfterPage(w, granted, limit)
<1> HIDE DEF list, start, after
<1>1. Serves(w, after, list, start)
  BY PageServes DEF list, start, after
<1>2. PICK end \in start..Len(list) :
        /\ Len(after.served) = Len(w.served) + (end - start)
        /\ \A i \in 1..Len(w.served) : after.served[i] = w.served[i]
        /\ \A i \in 1..(end - start) : after.served[Len(w.served) + i] = list[start + i]
        /\ after.cursor = IF end = start THEN w.cursor ELSE list[end]
  BY <1>1 DEF Serves
<1>3. Len(w.served) \in Nat
  BY DEF Walks
<1>4. start \in Int /\ end \in Int /\ start <= end
  BY <1>1, <1>2 DEF Serves
<1>5. CASE end = start
  BY <1>2, <1>3, <1>4, <1>5 DEF CursorIsLast, after
<1>6. CASE end # start
  <2>1. end - start \in 1..(end - start) /\ start + (end - start) = end
    BY <1>4, <1>6
  <2>2. after.served[Len(w.served) + (end - start)] = list[end]
    BY <1>2, <2>1
  <2> QED
    BY <1>2, <1>3, <1>4, <1>6, <2>1, <2>2 DEF CursorIsLast, after
<1> QED
  BY <1>5, <1>6

\* A page of the same list goes on where the last one ended.
LEMMA PageContinues ==
  ASSUME snapshot \in Snapshots, IsFiniteSet(Existing(snapshot.objects)),
         NEW w \in Walks, NEW granted, NEW limit \in Nat \ {0},
         granted = Granted(w.policyMode, QueryOf(w.selection)), CursorIsLast(w), Agrees(w)
  PROVE  LET after == AfterPage(w, granted, limit)
         IN  Agrees(after) /\ (after.done <=> Len(after.served) = Len(Whole(after)))
<1> DEFINE list  == Ordered(snapshot.objects, w.selection, granted, w.sort)
           start == StartAfter(list, w.cursor)
           after == AfterPage(w, granted, limit)
<1>1. snapshot.objects \in Projections
  BY DEF Snapshots, Projections
<1>2. /\ list \in Seq(Selected(snapshot.objects, w.selection, granted))
      /\ \A i, j \in 1..Len(list) : list[i] = list[j] => i = j
  BY <1>1, OrderedLists DEF Lists
<1>3. w.served \in Seq(ObjectIds) /\ Len(w.served) \in Nat /\ Len(list) \in Nat
  BY <1>2 DEF Walks
<1>4. Serves(w, after, list, start)
  BY PageServes
<1>5. Whole(w) = list /\ Whole(after) = list
  <2>1. after.selection = w.selection /\ after.sort = w.sort /\ after.policyMode = w.policyMode
    BY <1>4 DEF Serves
  <2> QED
    BY <2>1 DEF Whole
<1> HIDE DEF list, start, after
<1>6. /\ start \in 0..Len(list)
      /\ \E end \in start..Len(list) :
           /\ Len(after.served) = Len(w.served) + (end - start)
           /\ \A i \in 1..Len(w.served) : after.served[i] = w.served[i]
           /\ \A i \in 1..(end - start) : after.served[Len(w.served) + i] = list[start + i]
           /\ after.done <=> end = Len(list)
  BY <1>4 DEF Serves
<1>7. start = Len(w.served)
  <2>1. CASE Len(w.served) = 0
    BY <1>2, <2>1, StartAfterFinds DEF CursorIsLast, start
  <2>2. CASE Len(w.served) # 0
    <3> DEFINE n == Len(w.served)
    <3>1. n \in 1..n /\ n \in 1..Len(list)
      BY <1>3, <1>5, <2>2 DEF Agrees
    <3>2. list[n] = w.cursor
      BY <1>5, <2>2, <3>1 DEF Agrees, CursorIsLast
    <3>3. w.cursor # Nothing
      <4>1. w.served[n] \in ObjectIds
        BY <1>3, <3>1
      <4> QED
        BY <2>2, <4>1, CursorsAreIds DEF CursorIsLast
    <3> HIDE DEF n
    <3>4. start = n
      BY <1>2, <3>1, <3>2, <3>3, StartAfterFinds DEF start
    <3> QED
      BY <3>4 DEF n
  <2> QED
    BY <2>1, <2>2
<1>8. PICK end \in start..Len(list) :
        /\ Len(after.served) = Len(w.served) + (end - start)
        /\ \A i \in 1..Len(w.served) : after.served[i] = w.served[i]
        /\ \A i \in 1..(end - start) : after.served[Len(w.served) + i] = list[start + i]
        /\ after.done <=> end = Len(list)
  BY <1>6
<1>9. end \in Nat /\ Len(after.served) = end /\ end <= Len(list)
  BY <1>3, <1>7, <1>8
<1>10. ASSUME NEW i \in 1..Len(after.served)
       PROVE  after.served[i] = list[i]
  <2>1. CASE i <= start
    <3>1. i \in 1..Len(w.served)
      BY <1>3, <1>7, <1>9, <2>1
    <3> QED
      BY <1>5, <1>8, <3>1 DEF Agrees
  <2>2. CASE i > start
    <3>1. i - start \in 1..(end - start) /\ start + (i - start) = i
      BY <1>3, <1>7, <1>9, <2>2
    <3> QED
      BY <1>7, <1>8, <3>1
  <2> QED
    BY <1>3, <1>7, <1>9, <2>1, <2>2
<1>11. Agrees(after)
  BY <1>5, <1>9, <1>10 DEF Agrees
<1> QED
  BY <1>5, <1>8, <1>9, <1>11 DEF after

LEMMA PagesStep ==
  ASSUME QueryTypeOK, FinitelyMany, PagesInv, [QueryNext]_queryVars
  PROVE  PagesInv'
<1> USE DEF QueryTypeOK, FinitelyMany
<1>1. CASE UNCHANGED <<snapshot, walk>>
  BY <1>1 DEF PagesInv, CursorIsLast, Agrees, Whole
<1>2. CASE TakeSnapshot
  <2>1. CASE walk = NoWalk
    BY <1>2, <2>1 DEF TakeSnapshot, PagesInv
  <2>2. CASE walk # NoWalk
    <3>1. walk' = [walk EXCEPT !.single = FALSE] /\ walk \in Walks
      BY <1>2, <2>2 DEF TakeSnapshot
    <3>2. walk'.single = FALSE /\ walk'.cursor = walk.cursor /\ walk'.served = walk.served
      BY <3>1 DEF Walks
    <3> QED
      BY <2>2, <3>2 DEF PagesInv, CursorIsLast
  <2> QED
    BY <2>1, <2>2
<1>3. ASSUME NEW selection \in InputSelections, NEW sort \in Sorts,
             NEW policyMode \in InputPolicyModes, NEW limit \in Nat \ {0},
             walk' = AfterPage(Begun(selection, sort, policyMode),
                               Granted(policyMode, QueryOf(selection)), limit),
             UNCHANGED <<objects, snapshot>>
      PROVE  PagesInv'
  <2> DEFINE w == Begun(selection, sort, policyMode)
             granted == Granted(policyMode, QueryOf(selection))
  <2>1. w \in Walks
    BY BegunType
  <2>2. w.served = <<>> /\ w.cursor = Nothing /\ w.selection = selection
          /\ w.policyMode = policyMode
    BY DEF Begun
  <2>3. CursorIsLast(w)
    BY <2>2 DEF CursorIsLast
  <2>4. Len(Whole(w)) \in Nat
    <3>1. snapshot.objects \in Projections
      BY DEF Snapshots, Projections
    <3>2. Whole(w) \in Seq(Selected(snapshot.objects, w.selection,
                                    Granted(w.policyMode, QueryOf(w.selection))))
      BY <3>1, OrderedLists DEF Lists, Whole
    <3> QED
      BY <3>2
  <2>5. Agrees(w)
    BY <2>2, <2>4 DEF Agrees
  <2> HIDE DEF w, granted
  <2>6. /\ CursorIsLast(AfterPage(w, granted, limit))
        /\ Agrees(AfterPage(w, granted, limit))
        /\ AfterPage(w, granted, limit).done
             <=> Len(AfterPage(w, granted, limit).served) = Len(Whole(AfterPage(w, granted, limit)))
    BY <2>1, <2>2, <2>3, <2>5, PageMovesCursor, PageContinues DEF granted
  <2>7. walk' = AfterPage(w, granted, limit) /\ snapshot' = snapshot
    BY <1>3 DEF w, granted
  <2> QED
    BY <2>6, <2>7 DEF PagesInv, CursorIsLast, Agrees, Whole
<1>4. ASSUME walk # NoWalk, NEW policyMode \in InputPolicyModes, NEW limit \in Nat \ {0},
             walk' = AfterPage(Resumed(policyMode),
                               Granted(policyMode, QueryOf(walk.selection)), limit),
             UNCHANGED <<objects, snapshot>>
      PROVE  PagesInv'
  <2> DEFINE w == Resumed(policyMode)
             granted == Granted(policyMode, QueryOf(walk.selection))
             after == AfterPage(w, granted, limit)
  <2>1. /\ walk \in Walks
        /\ w \in Walks
        /\ w.cursor = walk.cursor /\ w.served = walk.served /\ w.sort = walk.sort
        /\ w.selection = walk.selection /\ w.policyMode = walk.policyMode
    BY <1>4, ResumedType DEF Walks
  <2>2. w.single = (walk.single /\ policyMode = walk.policyMode)
    BY <2>1 DEF Resumed, Walks
  <2> HIDE DEF w, granted
  <2>3. CursorIsLast(w)
    BY <1>4, <2>1 DEF PagesInv, CursorIsLast
  <2>4. CursorIsLast(after) /\ after.single = w.single
    <3>1. CursorIsLast(after)
      BY <2>1, <2>3, PageMovesCursor
    <3>2. Serves(w, after, Ordered(snapshot.objects, w.selection, granted, w.sort),
                 StartAfter(Ordered(snapshot.objects, w.selection, granted, w.sort), w.cursor))
      BY <2>1, PageServes
    <3> QED
      BY <3>1, <3>2 DEF Serves
  <2>5. ASSUME after.single
        PROVE  Agrees(after) /\ (after.done <=> Len(after.served) = Len(Whole(after)))
    <3>1. walk.single /\ policyMode = walk.policyMode
      BY <2>2, <2>4, <2>5
    <3>2. granted = Granted(w.policyMode, QueryOf(w.selection))
      BY <2>1, <3>1 DEF granted
    <3>3. Agrees(w)
      BY <1>4, <2>1, <3>1 DEF PagesInv, Agrees, Whole
    <3> QED
      BY <2>1, <2>3, <3>2, <3>3, PageContinues
  <2>6. walk' = after /\ snapshot' = snapshot
    BY <1>4 DEF w, granted
  <2> QED
    BY <2>4, <2>5, <2>6 DEF PagesInv, CursorIsLast, Agrees, Whole
<1> QED
  BY <1>1, <1>2, <1>3, <1>4, WalkStep

\* Where two lists agree up to the length of the first, it is a prefix.
LEMMA AgreementIsPrefix ==
  ASSUME NEW S, NEW s \in Seq(S), NEW t \in Seq(S), Len(s) <= Len(t),
         \A i \in 1..Len(s) : s[i] = t[i]
  PROVE  IsPrefix(s, t) /\ (s = t <=> Len(s) = Len(t))
<1>1. /\ Len(s) \in Nat /\ DOMAIN s = 1..Len(s) /\ s = [i \in 1..Len(s) |-> s[i]]
      /\ Len(t) \in Nat /\ DOMAIN t = 1..Len(t) /\ t = [i \in 1..Len(t) |-> t[i]]
  OBVIOUS
<1>2. Len(s) = Len(t) => s = t
  <2> SUFFICES ASSUME Len(s) = Len(t) PROVE s = t
    OBVIOUS
  <2> QED
    BY <1>1, Zenon
<1>3. IsPrefix(s, t)
  BY <1>1 DEF IsPrefix
<1> QED
  BY <1>2, <1>3

\* The pages of one snapshot under one policy are consecutive pieces of one
\* list (paginate): whatever limits they were asked for with, together they
\* serve a prefix of it, and the page without a cursor is the one that
\* completes it.
THEOREM PagesAlwaysPartition == QuerySpec => []PagesPartition
<1>1. QueryInit => PagesInv
  BY DEF QueryInit, PagesInv
<1>2. QueryTypeOK /\ FinitelyMany /\ PagesInv => PagesPartition
  <2> SUFFICES ASSUME QueryTypeOK, FinitelyMany, PagesInv, walk # NoWalk, walk.single
               PROVE  /\ IsPrefix(walk.served, Whole(walk))
                      /\ walk.done <=> walk.served = Whole(walk)
    BY DEF PagesPartition, Whole
  <2>1. walk \in Walks /\ walk.served \in Seq(ObjectIds)
    BY DEF QueryTypeOK, Walks
  <2>2. Whole(walk) \in Seq(ObjectIds)
    <3>1. snapshot.objects \in Projections /\ IsFiniteSet(Existing(snapshot.objects))
      BY DEF Snapshots, Projections, QueryTypeOK, FinitelyMany
    <3>2. Whole(walk) \in Seq(Selected(snapshot.objects, walk.selection,
                                  Granted(walk.policyMode, QueryOf(walk.selection))))
      BY <3>1, OrderedLists DEF Lists, Whole
    <3>3. Selected(snapshot.objects, walk.selection,
                   Granted(walk.policyMode, QueryOf(walk.selection))) \subseteq ObjectIds
      BY DEF Selected, Existing
    <3> QED
      BY <3>2, <3>3
  <2>3. Agrees(walk) /\ (walk.done <=> Len(walk.served) = Len(Whole(walk)))
    BY DEF PagesInv
  <2> HIDE DEF Whole
  <2> QED
    BY <2>1, <2>2, <2>3, AgreementIsPrefix DEF Agrees
<1> QED
  BY <1>1, <1>2, PagesStep, QueryTypeCorrect, PTL DEF QuerySpec

------------------------------------------------------------------------------
(* Pages of several snapshots                                              *)

\* An order that does not look at the objects.
Before(sort, a, b) ==
  LET key(id) == IF sort = "created_local_asc" THEN CreatedAt[id] ELSE 0
  IN  key(a) < key(b) \/ (key(a) = key(b) /\ a < b)

LEMMA PrecedesIsBefore ==
  ASSUME NEW objs, NEW sort, sort # "revision_desc", NEW a, NEW b
  PROVE  Precedes(objs, sort, a, b) <=> Before(sort, a, b)
BY DEF Precedes, Before

LEMMA BeforeOrders ==
  ASSUME NEW sort
  PROVE  /\ \A a \in ObjectIds : ~Before(sort, a, a)
         /\ \A a, b, c \in ObjectIds :
              Before(sort, a, b) /\ Before(sort, b, c) => Before(sort, a, c)
<1> DEFINE key(id) == IF sort = "created_local_asc" THEN CreatedAt[id] ELSE 0
<1>1. \A a \in ObjectIds : a \in Nat /\ key(a) \in Nat
  BY RoomQueriesAssumption DEF RoomQueriesAssumption
<1>2. \A a, b : Before(sort, a, b) <=> key(a) < key(b) \/ (key(a) = key(b) /\ a < b)
  BY DEF Before
<1> HIDE DEF key
<1> QED
  BY <1>1, <1>2

\* What a stable selection selects, whatever the policy grants.
Kept(objs, selection) == {id \in Existing(objs) : objs[id].kind \in selection.kinds}

LEMMA SelectedIsKept ==
  ASSUME NEW objs \in Projections, NEW selection, StableSelection(selection), NEW granted
  PROVE  Selected(objs, selection, granted) = Kept(objs, selection)
<1>1. ASSUME NEW id \in Existing(objs)
      PROVE  Matches(objs[id], selection, granted) <=> objs[id].kind \in selection.kinds
  <2>1. objs[id] \in Objects
    BY DEF Existing, Projections
  <2>2. objs[id].lifecycle \in ObjectLifecycles /\ objs[id].redacted \in BOOLEAN
    BY <2>1 DEF Objects
  <2> QED
    BY <2>2 DEF StableSelection, Matches
<1> QED
  BY <1>1 DEF Selected, Kept

\* A walk serves kept objects, in ascending order.
Ascends(w) ==
  \A i, j \in 1..Len(w.served) : i < j => Before(w.sort, w.served[i], w.served[j])

ServesKept(w, objs) ==
  /\ \A i \in 1..Len(w.served) : w.served[i] \in Kept(objs, w.selection)
  /\ w.first \subseteq Kept(objs, w.selection)

Served(w, x) == \E i \in 1..Len(w.served) : w.served[i] = x

\* What was there at first was served, or is still ahead of the cursor.
Ahead(w) ==
  \A x \in w.first : Served(w, x) \/ Len(w.served) = 0 \/ Before(w.sort, w.cursor, x)

Complete(w) == w.done => \A x \in w.first : Served(w, x)

Ordering(w) == StableSelection(w.selection) /\ w.sort # "revision_desc"

\* An object keeps its kind, and is never forgotten.
SnapshotBehind ==
  \A id \in Existing(snapshot.objects) :
    id \in Existing(objects) /\ objects[id].kind = snapshot.objects[id].kind

StableInv ==
  walk # NoWalk /\ Ordering(walk) =>
    /\ Ascends(walk)
    /\ ServesKept(walk, snapshot.objects)
    /\ Ahead(walk)
    /\ Complete(walk)

\* A page of a stable walk begins after the last object served, and leaves
\* nothing behind its cursor.
LEMMA StablePage ==
  ASSUME snapshot \in Snapshots, IsFiniteSet(Existing(snapshot.objects)),
         NEW w \in Walks, NEW granted, NEW limit \in Nat \ {0}, CursorIsLast(w),
         Ordering(w), Ascends(w), ServesKept(w, snapshot.objects), Ahead(w)
  PROVE  LET after == AfterPage(w, granted, limit)
         IN  /\ Ascends(after)
             /\ ServesKept(after, snapshot.objects)
             /\ Ahead(after)
             /\ Complete(after)
<1> DEFINE list  == Ordered(snapshot.objects, w.selection, granted, w.sort)
           kept  == Kept(snapshot.objects, w.selection)
           start == StartAfter(list, w.cursor)
           after == AfterPage(w, granted, limit)
           n     == Len(w.served)
<1>1. snapshot.objects \in Projections /\ kept \subseteq ObjectIds
  BY DEF Snapshots, Projections, Kept, Existing
<1>2. Lists(list, kept, snapshot.objects, w.sort)
  BY <1>1, OrderedLists, SelectedIsKept DEF Ordering
<1>3. Serves(w, after, list, start)
  BY PageServes
<1> HIDE DEF list, kept, start, after, n
<1>4. /\ list \in Seq(kept) /\ Len(list) \in Nat
      /\ \A i \in 1..Len(list) : list[i] \in kept /\ list[i] \in ObjectIds
      /\ \A i, j \in 1..Len(list) : list[i] = list[j] => i = j
      /\ \A x \in kept : \E i \in 1..Len(list) : list[i] = x
  BY <1>1, <1>2 DEF Lists
<1>5. \A i, j \in 1..Len(list) : i < j => Before(w.sort, list[i], list[j])
  BY <1>2, PrecedesIsBefore DEF Lists, Ordering
<1>6. /\ n \in Nat
      /\ \A i \in 1..n : w.served[i] \in kept /\ w.served[i] \in ObjectIds
      /\ w.first \subseteq kept
  BY <1>1 DEF Walks, ServesKept, kept, n
<1>7. /\ after.selection = w.selection
      /\ after.sort = w.sort
      /\ after.first = w.first
      /\ start \in 0..Len(list) /\ start \in Nat
  BY <1>3, <1>4 DEF Serves
<1>8. PICK end \in start..Len(list) :
        /\ Len(after.served) = n + (end - start)
        /\ \A i \in 1..n : after.served[i] = w.served[i]
        /\ \A i \in 1..(end - start) : after.served[n + i] = list[start + i]
        /\ after.cursor = IF end = start THEN w.cursor ELSE list[end]
        /\ after.done <=> end = Len(list)
        /\ end = start => start = Len(list)
  BY <1>3 DEF Serves, n
<1>9. end \in Nat /\ start <= end /\ end <= Len(list)
  BY <1>7, <1>8
<1>10. /\ n = 0 => start = 0
       /\ n # 0 => /\ n \in 1..n
                   /\ w.cursor = w.served[n]
                   /\ start \in 1..Len(list)
                   /\ list[start] = w.cursor
  <2>1. CASE n = 0
    BY <1>4, <2>1, StartAfterFinds DEF CursorIsLast, start, n
  <2>2. CASE n # 0
    <3>1. n \in 1..n /\ w.cursor = w.served[n]
      BY <1>6, <2>2 DEF CursorIsLast, n
    <3>2. PICK k \in 1..Len(list) : list[k] = w.cursor
      BY <1>4, <1>6, <3>1
    <3>3. w.cursor # Nothing
      BY <1>6, <3>1, CursorsAreIds
    <3>4. start = k
      BY <1>4, <3>2, <3>3, StartAfterFinds DEF start
    <3> QED
      BY <2>2, <3>1, <3>2, <3>4
  <2> QED
    BY <2>1, <2>2
<1>11. ASSUME NEW i \in 1..n, NEW k \in (start + 1)..Len(list)
       PROVE  Before(w.sort, w.served[i], list[k])
  <2>1. n # 0
    BY <1>6
  <2>2. start \in 1..Len(list) /\ list[start] = w.served[n] /\ n \in 1..n /\ k \in 1..Len(list)
    BY <1>7, <1>10, <2>1
  <2>3. Before(w.sort, list[start], list[k])
    BY <1>5, <1>7, <2>2
  <2>4. CASE i = n
    BY <2>2, <2>3, <2>4
  <2>5. CASE i # n
    <3>1. i < n
      BY <1>6, <2>5
    <3>2. Before(w.sort, w.served[i], w.served[n])
      BY <2>2, <3>1 DEF Ascends, n
    <3> QED
      BY <1>4, <1>6, <2>2, <2>3, <3>2, BeforeOrders
  <2> QED
    BY <2>4, <2>5
<1>12. ASSUME NEW i \in 1..Len(after.served)
       PROVE  \/ i \in 1..n /\ after.served[i] = w.served[i]
              \/ /\ i \in (n + 1)..(n + (end - start))
                 /\ (i - n) \in 1..(end - start)
                 /\ start + (i - n) \in (start + 1)..end
                 /\ start + (i - n) \in 1..Len(list)
                 /\ after.served[i] = list[start + (i - n)]
  <2>1. CASE i <= n
    <3>1. i \in 1..n
      BY <1>6, <1>7, <1>8, <1>9, <2>1
    <3> QED
      BY <1>8, <3>1
  <2>2. CASE i > n
    <3>1. /\ i \in (n + 1)..(n + (end - start))
          /\ (i - n) \in 1..(end - start) /\ n + (i - n) = i
          /\ start + (i - n) \in (start + 1)..end
          /\ start + (i - n) \in 1..Len(list)
      BY <1>6, <1>7, <1>8, <1>9, <2>2
    <3>2. after.served[n + (i - n)] = list[start + (i - n)]
      BY <1>8, <3>1
    <3> QED
      BY <3>1, <3>2
  <2> QED
    BY <1>6, <1>8, <1>9, <2>1, <2>2
<1>13. Ascends(after)
  <2> SUFFICES ASSUME NEW i \in 1..Len(after.served), NEW j \in 1..Len(after.served), i < j
               PROVE  Before(w.sort, after.served[i], after.served[j])
    BY <1>7 DEF Ascends
  <2>1. CASE j \in 1..n
    <3>1. i \in 1..n
      BY <1>6, <2>1
    <3> QED
      BY <1>8, <2>1, <3>1 DEF Ascends, n
  <2>2. CASE i \in 1..n /\ j \notin 1..n
    <3>1. after.served[j] = list[start + (j - n)] /\ start + (j - n) \in (start + 1)..Len(list)
      BY <1>7, <1>9, <1>12, <2>2
    <3>2. after.served[i] = w.served[i]
      BY <1>8, <2>2
    <3> QED
      BY <1>11, <2>2, <3>1, <3>2
  <2>3. CASE i \notin 1..n /\ j \notin 1..n
    <3>1. /\ after.served[i] = list[start + (i - n)] /\ start + (i - n) \in 1..Len(list)
          /\ after.served[j] = list[start + (j - n)] /\ start + (j - n) \in 1..Len(list)
      BY <1>12, <2>3
    <3>2. start + (i - n) < start + (j - n)
      BY <1>6, <1>7
    <3> QED
      BY <1>5, <3>1, <3>2
  <2>4. i \in 1..n \/ i \notin 1..n
    OBVIOUS
  <2> QED
    BY <2>1, <2>2, <2>3, <2>4
<1>14. ServesKept(after, snapshot.objects)
  <2>1. \A i \in 1..Len(after.served) : after.served[i] \in kept
    BY <1>4, <1>6, <1>12
  <2> QED
    BY <1>6, <1>7, <2>1 DEF ServesKept, kept
<1>15. ASSUME NEW x \in w.first
       PROVE  /\ Served(after, x) \/ (end # start /\ end # Len(list)
                                        /\ Before(w.sort, list[end], x))
  <2>1. CASE Served(w, x)
    <3>1. PICK i \in 1..n : w.served[i] = x
      BY <2>1 DEF Served, n
    <3>2. i \in 1..Len(after.served) /\ after.served[i] = x
      BY <1>6, <1>7, <1>8, <1>9, <3>1
    <3> QED
      BY <3>2 DEF Served
  <2>2. CASE ~Served(w, x)
    <3>1. PICK k \in 1..Len(list) : list[k] = x
      BY <1>4, <1>6
    <3>2. k > start
      <4> SUFFICES ASSUME k <= start PROVE FALSE
        BY <1>7
      <4>1. n # 0
        BY <1>7, <1>10
      <4>2. start \in 1..Len(list) /\ list[start] = w.cursor
        BY <1>10, <4>1
      <4>3. Before(w.sort, list[start], list[k])
        BY <2>2, <3>1, <4>1, <4>2 DEF Ahead, n
      <4>4. k = start \/ Before(w.sort, list[k], list[start])
        BY <1>5, <1>7, <4>2
      <4> QED
        BY <1>4, <4>2, <4>3, <4>4, BeforeOrders
    <3>3. CASE k <= end
      <4>1. /\ k - start \in 1..(end - start)
            /\ start + (k - start) = k
            /\ n + (k - start) \in 1..Len(after.served)
        BY <1>6, <1>7, <1>8, <1>9, <3>2, <3>3
      <4>2. after.served[n + (k - start)] = list[start + (k - start)]
        BY <1>8, <4>1
      <4>3. after.served[n + (k - start)] = x
        BY <3>1, <4>1, <4>2
      <4> QED
        BY <4>1, <4>3 DEF Served
    <3>4. CASE k > end
      <4>1. end # Len(list)
        BY <1>9, <3>4
      <4>2. end # start
        BY <1>8, <4>1
      <4>3. end \in 1..Len(list)
        BY <1>7, <1>9, <4>2
      <4> QED
        BY <1>5, <3>1, <3>4, <4>1, <4>2, <4>3
    <3> QED
      BY <1>9, <3>3, <3>4
  <2> QED
    BY <2>1, <2>2
<1>16. Ahead(after)
  BY <1>7, <1>8, <1>15 DEF Ahead
<1>17. Complete(after)
  BY <1>7, <1>8, <1>15 DEF Complete
<1> QED
  BY <1>13, <1>14, <1>16, <1>17 DEF after

LEMMA SnapshotBehindStep ==
  ASSUME QueryTypeOK, SnapshotBehind, [QueryNext]_queryVars
  PROVE  /\ SnapshotBehind'
         /\ \A id \in Existing(snapshot.objects) :
              /\ id \in Existing(snapshot.objects)'
              /\ snapshot'.objects[id].kind = snapshot.objects[id].kind
<1>1. CASE SubmitCommand
  <2>1. \A id \in Existing(objects) :
          id \in Existing(objects)' /\ objects'[id].kind = objects[id].kind
    BY <1>1, SubmissionAdds DEF QueryTypeOK
  <2>2. UNCHANGED snapshot
    BY <1>1 DEF SubmitCommand
  <2> QED
    BY <2>1, <2>2 DEF SnapshotBehind, Existing
<1>2. CASE TakeSnapshot
  <2>1. snapshot'.objects = objects /\ objects' = objects
    BY <1>2 DEF TakeSnapshot, objectVars
  <2> QED
    BY <2>1 DEF SnapshotBehind, Existing
<1>3. CASE ~SubmitCommand /\ ~TakeSnapshot
  <2>1. UNCHANGED <<objects, snapshot>>
    BY <1>3 DEF QueryNext, ResolveObjectPolicy, BeginWalk, NextPage, queryVars, objectVars
  <2> QED
    BY <2>1 DEF SnapshotBehind, Existing
<1> QED
  BY <1>1, <1>2, <1>3

LEMMA StableStep ==
  ASSUME QueryTypeOK, FinitelyMany, PagesInv, SnapshotBehind, StableInv,
         [QueryNext]_queryVars
  PROVE  StableInv'
<1> USE DEF QueryTypeOK, FinitelyMany
<1>1. CASE UNCHANGED <<snapshot, walk>>
  BY <1>1 DEF StableInv, Ordering, Ascends, ServesKept, Ahead, Complete, Served
<1>2. CASE TakeSnapshot
  <2>1. CASE walk = NoWalk
    BY <1>2, <2>1 DEF TakeSnapshot, StableInv
  <2>2. CASE walk # NoWalk
    <3>1. walk' = [walk EXCEPT !.single = FALSE] /\ walk \in Walks
      BY <1>2, <2>2 DEF TakeSnapshot
    <3>2. /\ walk'.selection = walk.selection /\ walk'.sort = walk.sort
          /\ walk'.cursor = walk.cursor /\ walk'.served = walk.served
          /\ walk'.first = walk.first /\ walk'.done = walk.done
      BY <3>1 DEF Walks
    <3>3. Kept(snapshot.objects, walk.selection) \subseteq Kept(snapshot'.objects, walk.selection)
      BY SnapshotBehindStep DEF Kept, Existing
    <3>4. ASSUME Ordering(walk)
          PROVE  /\ Ascends(walk')
                 /\ ServesKept(walk', snapshot'.objects)
                 /\ Ahead(walk')
                 /\ Complete(walk')
      <4>1. Ascends(walk) /\ ServesKept(walk, snapshot.objects) /\ Ahead(walk) /\ Complete(walk)
        BY <2>2, <3>4 DEF StableInv
      <4>2. Ascends(walk')
        BY <3>2, <4>1 DEF Ascends
      <4>3. ServesKept(walk', snapshot'.objects)
        BY <3>2, <3>3, <4>1 DEF ServesKept
      <4>4. Ahead(walk') /\ Complete(walk')
        BY <3>2, <4>1 DEF Ahead, Complete, Served
      <4> QED
        BY <4>2, <4>3, <4>4
    <3>5. Ordering(walk') = Ordering(walk)
      BY <3>2 DEF Ordering
    <3> QED
      BY <2>2, <3>4, <3>5 DEF StableInv
  <2> QED
    BY <2>1, <2>2
<1>3. ASSUME NEW w \in Walks, NEW granted, NEW limit \in Nat \ {0}, CursorIsLast(w),
             Ordering(w) =>
               Ascends(w) /\ ServesKept(w, snapshot.objects) /\ Ahead(w),
             walk' = AfterPage(w, granted, limit), UNCHANGED snapshot
      PROVE  StableInv'
  <2> DEFINE list  == Ordered(snapshot.objects, w.selection, granted, w.sort)
             after == AfterPage(w, granted, limit)
  <2>1. Serves(w, after, list, StartAfter(list, w.cursor))
    BY PageServes
  <2>2. after.selection = w.selection /\ after.sort = w.sort
    BY <2>1 DEF Serves
  <2>3. Ordering(after) => Ordering(w)
    BY <2>2 DEF Ordering
  <2>4. ASSUME Ordering(w)
        PROVE  /\ Ascends(after)
               /\ ServesKept(after, snapshot.objects)
               /\ Ahead(after)
               /\ Complete(after)
    BY <1>3, <2>4, StablePage
  <2>5. walk' = after /\ snapshot' = snapshot
    BY <1>3
  <2> HIDE DEF after
  <2> QED
    BY <2>3, <2>4, <2>5
       DEF StableInv, Ordering, Ascends, ServesKept, Ahead, Complete, Served
<1>4. ASSUME NEW selection \in InputSelections, NEW sort \in Sorts,
             NEW policyMode \in InputPolicyModes, NEW limit \in Nat \ {0},
             walk' = AfterPage(Begun(selection, sort, policyMode),
                               Granted(policyMode, QueryOf(selection)), limit),
             UNCHANGED <<objects, snapshot>>
      PROVE  StableInv'
  <2> DEFINE w == Begun(selection, sort, policyMode)
             granted == Granted(policyMode, QueryOf(selection))
  <2>1. w \in Walks
    BY BegunType
  <2>2. /\ w.served = <<>> /\ w.cursor = Nothing /\ w.selection = selection
        /\ w.first = Selected(snapshot.objects, selection, granted)
    BY DEF Begun
  <2>3. CursorIsLast(w) /\ Ascends(w) /\ Ahead(w)
    BY <2>2 DEF CursorIsLast, Ascends, Ahead
  <2>4. Ordering(w) => ServesKept(w, snapshot.objects)
    <3>1. snapshot.objects \in Projections
      BY DEF Snapshots, Projections
    <3>2. Ordering(w) => w.first = Kept(snapshot.objects, w.selection)
      BY <2>2, <3>1, SelectedIsKept DEF Ordering
    <3> QED
      BY <2>2, <3>2 DEF ServesKept
  <2>5. walk' = AfterPage(w, granted, limit)
    BY <1>4
  <2> HIDE DEF w, granted
  <2> QED
    BY <1>3, <1>4, <2>1, <2>3, <2>4, <2>5
<1>5. ASSUME walk # NoWalk, NEW policyMode \in InputPolicyModes, NEW limit \in Nat \ {0},
             walk' = AfterPage(Resumed(policyMode),
                               Granted(policyMode, QueryOf(walk.selection)), limit),
             UNCHANGED <<objects, snapshot>>
      PROVE  StableInv'
  <2> DEFINE w == Resumed(policyMode)
             granted == Granted(policyMode, QueryOf(walk.selection))
  <2>1. /\ walk \in Walks
        /\ w \in Walks
        /\ w.cursor = walk.cursor /\ w.served = walk.served /\ w.sort = walk.sort
        /\ w.selection = walk.selection /\ w.first = walk.first
    BY <1>5, ResumedType DEF Walks
  <2>2. walk' = AfterPage(w, granted, limit)
    BY <1>5
  <2> HIDE DEF w, granted
  <2>3. CursorIsLast(w)
    BY <1>5, <2>1 DEF PagesInv, CursorIsLast
  <2>4. Ordering(w) => Ascends(w) /\ ServesKept(w, snapshot.objects) /\ Ahead(w)
    BY <1>5, <2>1 DEF StableInv, Ordering, Ascends, ServesKept, Ahead, Served
  <2> QED
    BY <1>3, <1>5, <2>1, <2>2, <2>3, <2>4
<1> QED
  BY <1>1, <1>2, <1>4, <1>5, WalkStep

\* Objects come and go through revisions, deletions and redactions, and the
\* policy may be another for every page: a listing by what never changes of an
\* object, in an order that never changes, still serves none twice, and, when a
\* page comes without a cursor, has served all it began with (paginate resumes
\* after the cursor's object, wherever that now stands).
THEOREM StableWalkAlwaysComplete == QuerySpec => []StableWalkComplete
<1>1. QueryInit => SnapshotBehind /\ StableInv
  BY DEF QueryInit, ObjectInit, NoObjects, SnapshotBehind, Existing, StableInv
<1>2. QueryTypeOK /\ StableInv => StableWalkComplete
  <2> SUFFICES ASSUME QueryTypeOK, StableInv, walk # NoWalk, Ordering(walk)
               PROVE  /\ IsInjective(walk.served)
                      /\ walk.done => walk.first \subseteq ToSet(walk.served)
    BY DEF StableWalkComplete, Ordering
  <2>1. walk \in Walks /\ walk.served \in Seq(ObjectIds)
    BY DEF QueryTypeOK, Walks
  <2>2. /\ Len(walk.served) \in Nat /\ DOMAIN walk.served = 1..Len(walk.served)
        /\ \A i \in 1..Len(walk.served) : walk.served[i] \in ObjectIds
    BY <2>1
  <2>3. ASSUME NEW i \in 1..Len(walk.served), NEW j \in 1..Len(walk.served),
               walk.served[i] = walk.served[j]
        PROVE  i = j
    <3>1. i < j \/ i = j \/ j < i
      BY <2>2
    <3>2. ~(i < j) /\ ~(j < i)
      BY <2>2, <2>3, BeforeOrders DEF StableInv, Ascends
    <3> QED
      BY <3>1, <3>2
  <2>4. IsInjective(walk.served)
    BY <2>2, <2>3 DEF IsInjective
  <2>5. walk.done => walk.first \subseteq ToSet(walk.served)
    BY <2>2 DEF StableInv, Complete, Served, ToSet
  <2> QED
    BY <2>4, <2>5
<1>3. QueryTypeOK /\ SnapshotBehind /\ [QueryNext]_queryVars => SnapshotBehind'
  BY SnapshotBehindStep
<1>4. QuerySpec => []PagesInv
  <2>1. QueryInit => PagesInv
    BY DEF QueryInit, PagesInv
  <2> QED
    BY <2>1, PagesStep, QueryTypeCorrect, PTL DEF QuerySpec
<1> QED
  BY <1>1, <1>2, <1>3, <1>4, StableStep, QueryTypeCorrect, PTL DEF QuerySpec
==============================================================================
