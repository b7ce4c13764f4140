---------------------------- MODULE RoomQueries ----------------------------
(***************************************************************************)
(* Queries over the object projection.  A query reads one frozen snapshot  *)
(* under a query policy; both are values its caller holds, taken and       *)
(* resolved at moments of its own choosing, while object commands go on.   *)
(* A listing or a search comes in pages: the cursor of one page asks for   *)
(* the next, from the same snapshot or from a later one.                   *)
(*                                                                         *)
(* Answering is a pure function of snapshot, policy and request, hence an  *)
(* operator; the only state is what the caller holds.  The policy a caller *)
(* passes may have been resolved in any mode, since nothing compares it    *)
(* with the snapshot or the request.                                       *)
(*                                                                         *)
(* Not modelled: decisions, the validation of requests, the filter by tag, *)
(* the order by update label, metadata in views other than content, and    *)
(* limits too large for the policy.                                        *)
(***************************************************************************)
EXTENDS RoomObjects, SequencesExt

M == INSTANCE PolicyMatrix

CONSTANTS
  CreatedAt,        \* createdAtLocal, the label each object is created with
  NoWalk,           \* no listing or search begun
  InputSelections,  \* bound of the model: what is listed or searched for
  InputPolicyModes, \* bound of the model: modes a policy was resolved in
  InputLimits       \* bound of the model: objects asked for per page

ASSUME RoomQueriesAssumption ==
  /\ ObjectIds \subseteq Nat
  /\ CreatedAt \in [ObjectIds -> Nat]
  /\ InputPolicyModes \subseteq Modes
  /\ InputLimits \subseteq Nat \ {0}

Queries ==
  {"room.summary", "room.object.get", "room.objects.list",
   "room.objects.search_plain_text", "room.object_counts"}

Sorts == {"object_id_asc", "created_local_asc", "revision_desc"}

\* taskStatuses, decisionStatuses and pollStatuses, each given or Nothing.
StatusKinds   == {"task", "decision", "poll"}
StatusFilters == [StatusKinds -> (SUBSET Statuses) \cup {Nothing}]

\* A filter, or a search for `term'; an absent condition is the full set.
Selections ==
  [kinds      : SUBSET Kinds,
   lifecycles : SUBSET ObjectLifecycles,
   redacted   : SUBSET BOOLEAN,
   statuses   : StatusFilters,
   term       : Texts \cup {Nothing}]

Everything ==
  [kinds |-> Kinds, lifecycles |-> ObjectLifecycles, redacted |-> BOOLEAN,
   statuses |-> [kind \in StatusKinds |-> Nothing], term |-> Nothing]

\* A listing or search under way.  `cursor' is the last object served, `first'
\* what the first page's snapshot held of the selection, `single' whether all
\* pages came from one snapshot and the policy of `policyMode'; these are
\* history, not part of the cursor.
Walks ==
  [selection  : Selections,
   sort       : Sorts,
   cursor     : ObjectIds \cup {Nothing},
   served     : Seq(ObjectIds),
   first      : SUBSET ObjectIds,
   policyMode : Modes,
   single     : BOOLEAN,
   done       : BOOLEAN]

ASSUME InputSelectionsAssumption == InputSelections \subseteq Selections

Snapshots == [mode : Modes, objects : [ObjectIds -> Objects \cup {NoObject}]]

VARIABLES
  snapshot,  \* the RoomQuerySnapshotV1 its caller reads
  walk       \* the listing or search it is in the middle of

queryVars == <<objectVars, snapshot, walk>>

QueryTypeOK ==
  /\ ObjectTypeOK
  /\ snapshot \in Snapshots
  /\ walk \in Walks \cup {NoWalk}

------------------------------------------------------------------------------
(* The policy of a query                                                   *)

\* Fault: the ghost mode stops granting content and keeps granting searches.
GrantedSearchOnly(policyMode, query) ==
  IF policyMode \in {"emergency", "bunker"} THEN {}
  ELSE (IF query = "room.objects.search_plain_text" THEN {"search"} ELSE {})
         \cup IF policyMode = "ghost" THEN {"revisions", "tags"}
              ELSE {"content", "revisions", "tags", "timestamps", "counts", "relations"}

\* The flags of resolveRoomQueryPolicy, per mode and query.
Granted(policyMode, query) ==
  LET own == CASE query = "room.object.get" -> {"content"}
               [] query = "room.objects.search_plain_text" -> {"search"}
               [] OTHER -> {}
  IN  CASE policyMode \in {"emergency", "bunker"} -> {}
        [] policyMode \in {"ghost", "private"} -> own \cup {"revisions", "tags"}
        [] OTHER ->
             own \cup {"revisions", "tags", "actor_refs", "timestamps", "counts",
                       "relations"}

\* policy.allowed
PolicyAdmits(policyMode, query) ==
  /\ policyMode = "emergency" => query = "room.summary"
  /\ policyMode = "bunker" =>
       query \notin {"room.objects.search_plain_text", "room.object_counts"}

\* The matrix operation a query is looked up under, by its scope.
MatrixOperation(query) ==
  CASE query = "room.summary" -> "room.query.summary"
    [] query = "room.object.get" -> "room.query.detail"
    [] query = "room.objects.search_plain_text" -> "room.query.search"
    [] query = "room.object_counts" -> "room.query.count"
    [] OTHER -> "room.query.list"

\* assertMatrixLocal, for the mode of the snapshot.
MatrixAdmits(query) ==
  M!EvaluatePolicyMatrix("room", MatrixOperation(query), snapshot.mode, FALSE, FALSE,
                         M!RoomSilent).effect = "memory_only"

\* executeRoomQueryV1 gets past assertMatrixLocal and assertRoomQueryAllowed.
QueryAllowed(policyMode, query, onContent) ==
  /\ MatrixAdmits(query)
  /\ PolicyAdmits(policyMode, query)
  /\ query = "room.objects.search_plain_text" => "search" \in Granted(policyMode, query)
  /\ query = "room.object_counts" => "counts" \in Granted(policyMode, query)
  /\ onContent => "content" \in Granted(policyMode, query)

\* The text fields a search looks into, by the kind of the object.
SearchedFields(kind, granted) ==
  IF kind = "file_ref" /\ "relations" \notin granted THEN {} ELSE FieldsOf[kind] \ {"tags"}

\* searchableText contains the term.
Mentions(object, term, granted) ==
  /\ object.content # NoContent
  /\ ~object.redacted
  /\ object.lifecycle # "deleted_tombstone"
  /\ \E field \in SearchedFields(object.kind, granted) :
       object.content.text[field] = term

\* The content a detail view carries, when a content view is allowed.
ShownContent(object) ==
  IF object.lifecycle = "deleted_tombstone" \/ object.redacted
  THEN NoContent ELSE object.content

------------------------------------------------------------------------------
(* Listings and searches                                                   *)

QueryOf(selection) ==
  IF selection.term = Nothing THEN "room.objects.list" ELSE "room.objects.search_plain_text"

\* matchesFilter, and searchRoomObjectsExact.  A status filter drops the objects
\* of every other kind, so two of them, or an empty one, leave nothing.
Matches(object, selection, granted) ==
  /\ object.kind \in selection.kinds
  /\ object.lifecycle \in selection.lifecycles
  /\ object.redacted \in selection.redacted
  /\ \A kind \in StatusKinds :
       selection.statuses[kind] # Nothing =>
         /\ object.kind = kind
         /\ object.content # NoContent
         /\ object.content.status \in selection.statuses[kind]
  /\ selection.term # Nothing => Mentions(object, selection.term, granted)

Selected(objs, selection, granted) ==
  {id \in Existing(objs) : Matches(objs[id], selection, granted)}

\* comparator: every order falls back on the object id.
Precedes(objs, sort, a, b) ==
  LET key(id) == CASE sort = "revision_desc" -> MaxRevision - objs[id].revision
                   [] sort = "created_local_asc" -> CreatedAt[id]
                   [] OTHER -> 0
  IN  key(a) < key(b) \/ (key(a) = key(b) /\ a < b)

\* sortedCopy of what is selected.
Ordered(objs, selection, granted, sort) ==
  LET chosen    == Selected(objs, selection, granted)
      positions == 1..Cardinality(chosen)
  IN  CHOOSE list \in [positions -> chosen] :
        \A i, j \in positions : i < j => Precedes(objs, sort, list[i], list[j])

\* A policy that denies timestamps denies ordering by them.
EffectiveSort(sort, granted) ==
  IF sort = "created_local_asc" /\ "timestamps" \notin granted
  THEN "object_id_asc" ELSE sort

\* Fault: the page begins with the object the cursor names.
StartAtCursor(ordered, cursor) ==
  LET found == {i \in DOMAIN ordered : ordered[i] = cursor}
  IN  IF cursor = Nothing THEN 0
      ELSE IF found # {} THEN Min(found) - 1 ELSE Len(ordered)

\* Where a page starts; a cursor object no longer listed leaves nothing.
StartAfter(ordered, cursor) ==
  LET found == {i \in DOMAIN ordered : ordered[i] = cursor}
  IN  IF cursor = Nothing THEN 0
      ELSE IF found # {} THEN Min(found) ELSE Len(ordered)

Smaller(a, b) == IF a < b THEN a ELSE b

\* paginate: the window, and whether a cursor for the next one comes with it.
Page(ordered, cursor, limit) ==
  LET start == StartAfter(ordered, cursor)
  IN  [window |-> SubSeq(ordered, start + 1, Smaller(start + limit, Len(ordered))),
       more   |-> start + limit < Len(ordered)]

------------------------------------------------------------------------------
(* Actions                                                                 *)

QueryInit ==
  /\ ObjectInit
  /\ snapshot = [mode |-> "standard", objects |-> NoObjects]
  /\ walk = NoWalk

\* createRoomQuerySnapshotV1; pages that follow read another snapshot.
TakeSnapshot ==
  /\ snapshot' = [mode |-> mode, objects |-> objects]
  /\ walk' = IF walk = NoWalk THEN NoWalk ELSE [walk EXCEPT !.single = FALSE]
  /\ UNCHANGED objectVars

\* Fault: the cursor counts positions instead of naming an object.
AfterPageByPosition(w, granted, limit) ==
  LET list == Ordered(snapshot.objects, w.selection, granted, w.sort)
      page == Page(list, w.cursor, limit)
  IN  [w EXCEPT
         !.served = @ \o page.window,
         !.cursor = StartAfter(list, w.cursor) + limit,
         !.done   = ~page.more]

\* The walk after one more page of the snapshot.
AfterPage(w, granted, limit) ==
  LET page == Page(Ordered(snapshot.objects, w.selection, granted, w.sort), w.cursor, limit)
  IN  [w EXCEPT
         !.served = @ \o page.window,
         !.cursor = IF page.window = <<>> THEN @ ELSE Last(page.window),
         !.done   = ~page.more]

\* executeRoomQueryV1 for the first page of a listing or a search.
BeginWalk(selection, sort, policyMode, limit) ==
  LET query   == QueryOf(selection)
      granted == Granted(policyMode, query)
  IN  /\ QueryAllowed(policyMode, query, FALSE)
      /\ selection.term # Nothing => sort = "object_id_asc"
      /\ walk' = AfterPage(
           [selection |-> selection, sort |-> EffectiveSort(sort, granted),
            cursor |-> Nothing, served |-> <<>>,
            first |-> Selected(snapshot.objects, selection, granted),
            policyMode |-> policyMode, single |-> TRUE, done |-> FALSE],
           granted, limit)
      /\ UNCHANGED <<objectVars, snapshot>>

\* Fault: the order of the cursor is not compared.
SortUnmatched(sort, granted) == TRUE

\* assertCursorMatchesQuery: the cursor has the order the page comes in.
SortMatches(sort, granted) == walk.sort = EffectiveSort(sort, granted)

\* executeRoomQueryV1 for a request with a cursor.
NextPage(sort, policyMode, limit) ==
  LET query   == QueryOf(walk.selection)
      granted == Granted(policyMode, query)
  IN  /\ ~walk.done
      /\ QueryAllowed(policyMode, query, FALSE)
      /\ walk.selection.term # Nothing => sort = "object_id_asc"
      /\ SortMatches(sort, granted)
      /\ walk' = AfterPage([walk EXCEPT !.sort = EffectiveSort(sort, granted),
                                        !.single = @ /\ policyMode = walk.policyMode],
                           granted, limit)
      /\ UNCHANGED <<objectVars, snapshot>>

\* The object pipeline, with a command composed just now; what it makes of the
\* commands callers hold, and of statuses and references, is the subject of
\* RoomObjects.
SubmitCommand ==
  /\ \E id \in ObjectIds, command \in InputCommands, kind \in InputKinds, text \in Texts :
       LET r == [command |-> command, id |-> id, mode |-> mode, seen |-> objects[id],
                 kind |-> kind, text |-> text, status |-> "none", ref |-> Nothing]
       IN  CreateObject(r) \/ UpdateObject(r)
  /\ UNCHANGED <<snapshot, walk>>

QueryNext ==
  \/ SubmitCommand
  \/ ResolveObjectPolicy /\ UNCHANGED <<snapshot, walk>>
  \/ TakeSnapshot
  \/ \E selection \in InputSelections, sort \in Sorts, policyMode \in InputPolicyModes,
        limit \in InputLimits :
       BeginWalk(selection, sort, policyMode, limit)
  \/ /\ walk # NoWalk
     /\ \E sort \in Sorts, policyMode \in InputPolicyModes, limit \in InputLimits :
          NextPage(sort, policyMode, limit)

QuerySpec == QueryInit /\ [][QueryNext]_queryVars

------------------------------------------------------------------------------
(* Properties                                                              *)

\* Pages of one snapshot under one policy are consecutive pieces of one list:
\* together they serve every selected object once, in order, and the last one
\* is the one without a cursor (paginate finds its place by object, not by
\* position).
PagesPartition ==
  walk # NoWalk /\ walk.single =>
    LET all == Ordered(snapshot.objects, walk.selection,
                       Granted(walk.policyMode, QueryOf(walk.selection)), walk.sort)
    IN  /\ IsPrefix(walk.served, all)
        /\ walk.done <=> walk.served = all

\* A listing selects by what never changes of an object.
StableSelection(selection) ==
  /\ selection.lifecycles = ObjectLifecycles
  /\ selection.redacted = BOOLEAN
  /\ \A kind \in StatusKinds : selection.statuses[kind] = Nothing
  /\ selection.term = Nothing

\* Continued on later snapshots and under other policies, a listing in an order
\* that never changes still repeats no object and, once it ends, has left out
\* none of those it began with.
StableWalkComplete ==
  walk # NoWalk /\ StableSelection(walk.selection) /\ walk.sort # "revision_desc" =>
    /\ IsInjective(walk.served)
    /\ walk.done => walk.first \subseteq ToSet(walk.served)

\* A search is no way around the policy: an object is found by a text only
\* where the same policy and snapshot let its content be read.
SearchFindsOnlyReadable ==
  \A policyMode \in Modes, text \in Texts :
    LET search  == "room.objects.search_plain_text"
        granted == Granted(policyMode, search)
    IN  QueryAllowed(policyMode, search, FALSE) =>
          \A id \in Existing(snapshot.objects) :
            Mentions(snapshot.objects[id], text, granted) =>
              /\ QueryAllowed(policyMode, "room.object.get", TRUE)
              /\ ShownContent(snapshot.objects[id]) # NoContent
==============================================================================
