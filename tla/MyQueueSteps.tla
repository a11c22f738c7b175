---------------------------- MODULE MyQueueSteps ----------------------------
(***************************************************************************)
(* Proofs about MyQueue, part 2: the requests that reach a worker and the  *)
(* statements of create and of destroy keep IInv.                          *)
(***************************************************************************)
EXTENDS MyQueueInvariant

(* A worker with nothing loaded, nothing pending, and nothing found. *)
LEMMA BareMemory ==
  ASSUME NEW w \in Workers, pc'[w] \notin {"rate", "delete"}, loaded'[w] = <<>>,
         \A i \in ItemIds : txn_items'[w][i] = Nil,
         \A r \in ReviewIds : txn_reviews'[w][r] = Nil, PlaceOK(w)'
  PROVE  MemoryOK(w)'
<1>1. HeldOK(w)' /\ RateOK(w)'
  BY DEF HeldOK, RateOK
<1>2. PendingOK(w)' /\ WrittenOK(w)'
  BY Zenon DEF PendingOK, WrittenOK
<1> QED BY <1>1, <1>2, Zenon DEF MemoryOK

(* An idle worker takes a request. *)
LEMMA RequestStep ==
  ASSUME IInv, NEW w \in Workers, pc[w] = "idle",
         NEW l \in {"count", "include", "form", "submit"}, NEW u \in Users, NEW p \in Params,
         pc' = [pc EXCEPT ![w] = l], user' = [user EXCEPT ![w] = u],
         params' = [params EXCEPT ![w] = p], UNCHANGED <<tables, txn, found, loaded>>,
         l \in {"count", "submit"} => p.video \in Videos,
         l = "include" => p.id \in 1..item_seq
  PROVE  IInv'
<1>1. WorkersOK /\ MemoryOK(w)
  BY Zenon DEF IInv
<1>2. /\ found' = found /\ loaded' = loaded /\ item_seq' = item_seq
      /\ txn_items' = txn_items /\ txn_reviews' = txn_reviews /\ UNCHANGED <<tables, txn>>
  BY DEF tables, txn
<1>3. Holds(w, l, u, p, found[w], loaded[w])
  BY <1>1, <1>2, Same, Zenon DEF Holds
<1>4. pc'[w] = l /\ user'[w] = u /\ params'[w] = p /\ loaded'[w] = loaded[w]
  BY <1>1, <1>3, Zenon DEF Holds, WorkersOK
<1>5. pc[w] \notin TxnLabels /\ pc[w] \notin LoadedLabels
  BY DEF TxnLabels, LoadedLabels
<1>6. loaded[w] = <<>>
  BY <1>1, <1>5, Zenon DEF MemoryOK, PlaceOK, EmptyOK
<1>7. /\ \A i \in ItemIds : txn_items'[w][i] = Nil
      /\ \A r \in ReviewIds : txn_reviews'[w][r] = Nil
  BY <1>1, <1>2, <1>5, NothingPending, Zenon
<1>8. PlaceOK(w)'
  <2>1. UserOK(w)' /\ VideoOK(w)' /\ CountOK(w)' /\ NamedOK(w)'
    BY <1>2, <1>4 DEF UserOK, VideoOK, CountOK, NamedOK
  <2>2. RenumberOK(w)' /\ EntryOK(w)' /\ EmptyOK(w)'
    BY <1>4, <1>6 DEF RenumberOK, EntryOK, EmptyOK
  <2> QED BY <2>1, <2>2, Zenon DEF PlaceOK
<1>9. pc'[w] \notin {"rate", "delete"} /\ loaded'[w] = <<>>
  BY <1>4, <1>6
<1>10. MemoryOK(w)'
  BY <1>7, <1>8, <1>9, BareMemory, Zenon
<1>11. /\ l \in Labels /\ u \in Users \cup {Nil}
       /\ found[w] \in Nat \cup {Nil} /\ loaded[w] \in Seq(Memory)
  BY <1>1, Types DEF Labels
<1> QED BY <1>2, <1>3, <1>10, <1>11, ReadStep, Zenon

LEMMA RequestIInv ==
  ASSUME IInv, NEW w \in Workers, Request(w)
  PROVE  IInv'
<1>1. ASSUME NEW u \in Users, NEW v \in Videos, create(w, u, v) PROVE IInv'
  <2> DEFINE p == Given(v, Nil, Nil, <<>>)
  <2>1. p \in Params /\ p.video = v
    BY NoTypes DEF Given, Params
  <2>2. /\ pc[w] = "idle" /\ pc' = [pc EXCEPT ![w] = "count"]
        /\ user' = [user EXCEPT ![w] = u] /\ params' = [params EXCEPT ![w] = p]
        /\ UNCHANGED <<tables, txn, found, loaded>>
    BY <1>1, Zenon DEF create
  <2> HIDE DEF p
  <2> QED BY <2>1, <2>2, RequestStep
<1>2. ASSUME NEW u \in Users, NEW i \in ItemIds, destroy(w, u, i) PROVE IInv'
  <2> DEFINE p == Given(Nil, i, Nil, <<>>)
  <2>1. p \in Params /\ p.id = i
    BY NoTypes DEF Given, Params
  <2>2. /\ pc[w] = "idle" /\ queue_items[i] # Nil /\ pc' = [pc EXCEPT ![w] = "include"]
        /\ user' = [user EXCEPT ![w] = u] /\ params' = [params EXCEPT ![w] = p]
        /\ UNCHANGED <<tables, txn, found, loaded>>
    BY <1>2, Zenon DEF destroy
  <2>3. i \in 1..item_seq
    BY <2>2, LiveId, Zenon DEF IInv
  <2> HIDE DEF p
  <2> QED BY <2>1, <2>2, <2>3, RequestStep
<1>3. ASSUME NEW u \in Users, NEW g \in Forms, update_queue(w, u, g) PROVE IInv'
  <2> DEFINE p == Given(Nil, Nil, Nil, g)
  <2>1. g \in Seq(Entry)
    BY SeqDef, ConstantsAssumption DEF Forms
  <2>2. p \in Params
    BY <2>1 DEF Given, Params
  <2>3. /\ pc[w] = "idle" /\ pc' = [pc EXCEPT ![w] = "form"]
        /\ user' = [user EXCEPT ![w] = u] /\ params' = [params EXCEPT ![w] = p]
        /\ UNCHANGED <<tables, txn, found, loaded>>
    BY <1>3, Zenon DEF update_queue
  <2> HIDE DEF p
  <2> QED BY <2>2, <2>3, RequestStep
<1>4. ASSUME NEW u \in Users, NEW v \in Videos, NEW n \in FormRatings, review_create(w, u, v, n)
      PROVE  IInv'
  <2> DEFINE p == Given(v, Nil, n, <<>>)
  <2>1. p \in Params /\ p.video = v
    BY NoTypes DEF Given, Params
  <2>2. /\ pc[w] = "idle" /\ pc' = [pc EXCEPT ![w] = "submit"]
        /\ user' = [user EXCEPT ![w] = u] /\ params' = [params EXCEPT ![w] = p]
        /\ UNCHANGED <<tables, txn, found, loaded>>
    BY <1>4, Zenon DEF review_create
  <2> HIDE DEF p
  <2> QED BY <2>1, <2>2, RequestStep
<1> QED BY <1>1, <1>2, <1>3, <1>4, Zenon DEF Request

-----------------------------------------------------------------------------
(* create *)

LEMMA CountIInv ==
  ASSUME IInv, NEW w \in Workers, count(w)
  PROVE  IInv'
<1> DEFINE n == Cardinality(OwnItems(user[w]))
<1>1. TablesOK /\ WorkersOK /\ FreshItems /\ MemoryOK(w)
  BY Zenon DEF IInv
<1>2. n \in 0..item_seq
  BY <1>1, OwnItemsCount, Zenon
<1>3. n \in Nat \cup {Nil}
  BY <1>1, <1>2, Numbers
<1>4. /\ pc[w] = "count" /\ found' = [found EXCEPT ![w] = n]
      /\ pc' = [pc EXCEPT ![w] = "insert"]
      /\ UNCHANGED <<tables, txn>> /\ user' = user /\ params' = params /\ loaded' = loaded
  BY Zenon DEF count
<1> HIDE DEF n
<1>5. item_seq' = item_seq /\ txn_items' = txn_items /\ txn_reviews' = txn_reviews
  BY <1>4 DEF tables, txn
<1>6. Holds(w, "insert", user[w], params[w], n, loaded[w])
  BY <1>1, <1>4, Same, Zenon DEF Holds
<1>7. /\ pc'[w] = "insert" /\ user'[w] = user[w] /\ params'[w] = params[w]
      /\ found'[w] = n /\ loaded'[w] = loaded[w]
  BY <1>1, <1>6, Zenon DEF Holds, WorkersOK
<1>8. pc[w] \notin TxnLabels /\ pc[w] \notin LoadedLabels
  BY <1>4 DEF TxnLabels, LoadedLabels
<1>9. loaded[w] = <<>> /\ user[w] \in Users /\ params[w].video \in Videos
  BY <1>1, <1>4, <1>8 DEF MemoryOK, PlaceOK, EmptyOK, UserOK, VideoOK
<1>10. /\ \A i \in ItemIds : txn_items'[w][i] = Nil
       /\ \A r \in ReviewIds : txn_reviews'[w][r] = Nil
  BY <1>1, <1>5, <1>8, NothingPending, Zenon
<1>11. PlaceOK(w)'
  <2>1. UserOK(w)' /\ VideoOK(w)' /\ CountOK(w)' /\ NamedOK(w)'
    BY <1>2, <1>5, <1>7, <1>9 DEF UserOK, VideoOK, CountOK, NamedOK
  <2>2. RenumberOK(w)' /\ EntryOK(w)' /\ EmptyOK(w)'
    BY <1>7, <1>9 DEF RenumberOK, EntryOK, EmptyOK
  <2> QED BY <2>1, <2>2, Zenon DEF PlaceOK
<1>12. pc'[w] \notin {"rate", "delete"} /\ loaded'[w] = <<>>
  BY <1>7, <1>9
<1>13. MemoryOK(w)'
  BY <1>10, <1>11, <1>12, BareMemory, Zenon
<1>14. "insert" \in Labels
  BY DEF Labels
<1> QED BY <1>1, <1>3, <1>4, <1>6, <1>13, <1>14, Types, ReadStep, Zenon

(* The new row, under an id that no one holds. *)
LEMMA InsertIInv ==
  ASSUME IInv, NEW w \in Workers, create_new_queue_item(w)
  PROVE  IInv'
<1> DEFINE row == [user |-> user[w], video |-> params[w].video, ranking |-> RankingAfter(found[w])]
           j == item_seq + 1
<1>1. /\ TablesOK /\ WritesOK /\ WorkersOK /\ FreshItems /\ FreshReviews /\ WrittenOnce
      /\ MemoryOK(w)
  BY Zenon DEF IInv
<1>2. /\ pc[w] = "insert" /\ EndRequest(w)
      /\ reviews' = reviews /\ review_seq' = review_seq /\ UNCHANGED txn
  BY Zenon DEF create_new_queue_item
<1>3. txn_items' = txn_items /\ txn_reviews' = txn_reviews
  BY <1>2 DEF txn
<1>4. pc[w] \notin TxnLabels
  BY <1>2 DEF TxnLabels
<1>5. CASE ~(item_seq < MaxItems)
  <2>1. item_seq' = item_seq /\ queue_items' = queue_items
    BY <1>5, Zenon DEF create_new_queue_item
  <2>2. UNCHANGED <<tables, txn>>
    BY <1>2, <2>1 DEF tables
  <2> QED BY <1>2, <1>4, <2>2, EndIInv, Zenon
<1>6. CASE item_seq < MaxItems
  <2>1. item_seq' = j /\ queue_items' = [queue_items EXCEPT ![j] = row]
    BY <1>6, Zenon DEF create_new_queue_item
  <2>2. /\ found[w] \in 0..item_seq /\ user[w] \in Users /\ params[w].video \in Videos
    BY <1>1, <1>2 DEF MemoryOK, PlaceOK, CountOK, UserOK, VideoOK
  <2>3. item_seq \in Nat /\ MaxItems \in Nat /\ MaxItems <= MaxRanking /\ MaxRanking \in Nat
    BY <1>1, Numbers, ConstantsAssumption
  <2>4. RankingAfter(found[w]) \in Rankings
    BY <1>6, <2>2, <2>3 DEF RankingAfter, Rankings
  <2>5. row \in QueueItem
    BY <2>2, <2>4 DEF QueueItem
  <2>6. j \in ItemIds /\ j \in 0..MaxItems /\ j \notin 1..item_seq /\ j > item_seq
    BY <1>6, <2>3 DEF ItemIds
  <2>7. /\ 0..item_seq \subseteq 0..j /\ 1..item_seq \subseteq 1..j
        /\ \A i \in ItemIds : i > j => i > item_seq /\ i # j
    BY <2>3 DEF ItemIds
  <2> HIDE DEF row, j
  <2>8. queue_items \in [ItemIds -> QueueItem \cup {Nil}]
    BY <1>1, Zenon DEF TablesOK
  <2>9. /\ queue_items' \in [ItemIds -> QueueItem \cup {Nil}]
        /\ \A i \in ItemIds : i # j => queue_items'[i] = queue_items[i]
    BY <2>1, <2>5, <2>8
  <2>10. TablesOK'
    BY <1>1, <1>2, <2>1, <2>6, <2>9, Zenon DEF TablesOK
  <2>11. FreshItems'
    <3> SUFFICES ASSUME NEW i \in ItemIds, i > item_seq' PROVE queue_items'[i] = Nil
      BY Zenon DEF FreshItems
    <3>1. i > item_seq /\ i # j
      BY <2>1, <2>7, Zenon
    <3> QED BY <1>1, <2>9, <3>1, Zenon DEF FreshItems
  <2>12. FreshReviews' /\ WrittenOnce'
    BY <1>1, <1>2, <1>3, Zenon DEF FreshReviews, WrittenOnce
  <2>13. Kept(w)
    <3>1. ASSUME NEW i \in 1..item_seq PROVE queue_items'[i] = queue_items[i]
      BY <1>1, <2>6, <2>9, HandedOut, Zenon
    <3>2. ASSUME NEW i \in ItemIds, queue_items[i] # Nil PROVE queue_items'[i] = queue_items[i]
      BY <1>1, <2>6, <2>9, <3>2, Zenon DEF FreshItems
    <3>3. 0..item_seq \subseteq 0..item_seq' /\ 1..item_seq \subseteq 1..item_seq'
      BY <2>1, <2>7, Zenon
    <3> QED BY <1>2, <3>1, <3>2, <3>3, Zenon DEF Kept
  <2>14. MemoryOK(w)'
    BY <1>1, <1>2, <1>3, <1>4, NothingPending, IdleMemory, Zenon
  <2>15. Holds(w, "idle", Nil, NoParams, Nil, <<>>)
    BY <1>2, EndHolds, Zenon
  <2>16. /\ txn_items[w] \in [ItemIds -> Rankings \cup {Nil}]
         /\ txn_reviews[w] \in [ReviewIds -> Review \cup {Nil}]
         /\ txn_items' = [txn_items EXCEPT ![w] = txn_items[w]]
         /\ txn_reviews' = [txn_reviews EXCEPT ![w] = txn_reviews[w]]
    BY <1>1, <1>3, SameWrites, Zenon
  <2> QED
    BY <2>10, <2>11, <2>12, <2>13, <2>14, <2>15, <2>16, IdleTypes, StepIInv, Zenon
<1> QED BY <1>5, <1>6, Zenon

-----------------------------------------------------------------------------
(* destroy *)

LEMMA IncludeIInv ==
  ASSUME IInv, NEW w \in Workers, include(w)
  PROVE  IInv'
<1> DEFINE l == IF params[w].id \in OwnItems(user[w]) THEN "delete" ELSE "load"
<1>1. WorkersOK /\ MemoryOK(w)
  BY Zenon DEF IInv
<1>2. /\ pc[w] = "include" /\ pc' = [pc EXCEPT ![w] = l]
      /\ UNCHANGED <<tables, txn>> /\ UNCHANGED memory
  BY Zenon DEF include
<1>3. /\ user' = user /\ params' = params /\ found' = found /\ loaded' = loaded
      /\ item_seq' = item_seq /\ queue_items' = queue_items
      /\ txn_items' = txn_items /\ txn_reviews' = txn_reviews
  BY <1>2 DEF memory, tables, txn
<1>4. l \in Labels /\ l \in {"delete", "load"}
  BY DEF Labels
<1>5. pc[w] \notin TxnLabels /\ pc[w] \notin LoadedLabels /\ l \notin LoadedLabels
  BY <1>2 DEF TxnLabels, LoadedLabels
<1>6. l = "delete" => queue_items[params[w].id].user = user[w]
  BY DEF OwnItems
<1> HIDE DEF l
<1>7. pc'[w] = l
  BY <1>1, <1>2, Zenon DEF WorkersOK
<1>8. loaded[w] = <<>> /\ user[w] \in Users /\ params[w].id \in 1..item_seq
  BY <1>1, <1>2, <1>5 DEF MemoryOK, PlaceOK, EmptyOK, UserOK, NamedOK
<1>9. PlaceOK(w)'
  <2>1. UserOK(w)' /\ VideoOK(w)' /\ CountOK(w)' /\ NamedOK(w)'
    BY <1>3, <1>4, <1>7, <1>8 DEF UserOK, VideoOK, CountOK, NamedOK
  <2>2. RenumberOK(w)' /\ EntryOK(w)' /\ EmptyOK(w)'
    BY <1>3, <1>4, <1>7, <1>8 DEF RenumberOK, EntryOK, EmptyOK
  <2> QED BY <2>1, <2>2, Zenon DEF PlaceOK
<1>10. HeldOK(w)' /\ RateOK(w)'
  <2>1. \A k \in DOMAIN loaded'[w] : OwnOrGone(loaded[w][k].id, user[w])'
    BY <1>3, <1>8
  <2>2. pc'[w] = "delete" => OwnOrGone(params[w].id, user[w])'
    BY <1>3, <1>6, <1>7, <1>8, Zenon DEF OwnOrGone
  <2>3. pc'[w] # "rate"
    BY <1>4, <1>7
  <2> QED BY <2>1, <2>2, <2>3, Zenon DEF HeldOK, RateOK
<1>11. PendingOK(w)' /\ WrittenOK(w)'
  BY <1>1, <1>3, <1>5, NothingPending, Zenon DEF PendingOK, WrittenOK
<1>12. MemoryOK(w)'
  BY <1>9, <1>10, <1>11, Zenon DEF MemoryOK
<1>13. Holds(w, l, user[w], params[w], found[w], loaded[w])
  BY <1>1, <1>2, <1>3, Same, Zenon DEF Holds
<1> QED BY <1>1, <1>2, <1>4, <1>12, <1>13, Types, ReadStep, Zenon

(* The lock keeps the row while another's ranking is pending on it. *)
LEMMA DeleteIInv ==
  ASSUME IInv, NEW w \in Workers, delete(w)
  PROVE  IInv'
<1> DEFINE d == params[w].id
<1>1. TablesOK /\ WorkersOK /\ MemoryOK(w)
  BY Zenon DEF IInv
<1>2. /\ pc[w] = "delete" /\ ~ItemLocked(w, d) /\ queue_items' = [queue_items EXCEPT ![d] = Nil]
      /\ pc' = [pc EXCEPT ![w] = "load"]
      /\ UNCHANGED <<reviews, item_seq, review_seq, txn>> /\ UNCHANGED memory
  BY Zenon DEF delete
<1>3. /\ user' = user /\ params' = params /\ found' = found /\ loaded' = loaded
      /\ item_seq' = item_seq /\ txn_items' = txn_items /\ txn_reviews' = txn_reviews
  BY <1>2 DEF memory, txn
<1>4. pc[w] \notin TxnLabels /\ pc[w] \notin LoadedLabels
  BY <1>2 DEF TxnLabels, LoadedLabels
<1>5. pc'[w] = "load"
  BY <1>1, <1>2, Zenon DEF WorkersOK
<1>6. loaded[w] = <<>> /\ user[w] \in Users
  BY <1>1, <1>2, <1>4 DEF MemoryOK, PlaceOK, EmptyOK, UserOK
<1>7. PlaceOK(w)'
  <2>1. UserOK(w)' /\ VideoOK(w)' /\ CountOK(w)' /\ NamedOK(w)'
    BY <1>3, <1>5, <1>6 DEF UserOK, VideoOK, CountOK, NamedOK
  <2>2. RenumberOK(w)' /\ EntryOK(w)' /\ EmptyOK(w)'
    BY <1>3, <1>5, <1>6 DEF RenumberOK, EntryOK, EmptyOK
  <2> QED BY <2>1, <2>2, Zenon DEF PlaceOK
<1>8. /\ \A i \in ItemIds : txn_items'[w][i] = Nil
      /\ \A r \in ReviewIds : txn_reviews'[w][r] = Nil
  BY <1>1, <1>3, <1>4, NothingPending, Zenon
<1>9. pc'[w] \notin {"rate", "delete"} /\ loaded'[w] = <<>>
  BY <1>3, <1>5, <1>6
<1>10. MemoryOK(w)'
  BY <1>7, <1>8, <1>9, BareMemory, Zenon
<1> HIDE DEF d
<1>11. queue_items \in [ItemIds -> QueueItem \cup {Nil}]
  BY <1>1, Zenon DEF TablesOK
<1>12. queue_items' \in [ItemIds -> QueueItem \cup {Nil}]
  BY <1>2, <1>11
<1>13. \A i \in ItemIds : queue_items'[i] = IF i = d THEN Nil ELSE queue_items[i]
  BY <1>2, <1>11, Zenon
<1>14. \A i \in ItemIds : queue_items'[i] # Nil =>
         queue_items[i] # Nil /\ queue_items'[i].user = queue_items[i].user
  BY <1>13, Zenon
<1>15. ASSUME NEW x \in Workers \ {w}, NEW i \in ItemIds, txn_items[x][i] # Nil
       PROVE  queue_items'[i] = queue_items[i]
  <2>1. i # d
    BY <1>2, <1>15, Zenon DEF ItemLocked
  <2> QED BY <1>13, <2>1, Zenon
<1>16. Holds(w, "load", user[w], params[w], found[w], loaded[w])
  BY <1>1, <1>2, <1>3, Same, Zenon DEF Holds
<1>17. "load" \in Labels
  BY DEF Labels
<1>18. /\ user[w] \in Users \cup {Nil} /\ params[w] \in Params
       /\ found[w] \in Nat \cup {Nil} /\ loaded[w] \in Seq(Memory)
  BY <1>1, Types, Zenon
<1>19. \A x \in Workers \ {w}, i \in ItemIds :
         txn_items[x][i] # Nil /\ queue_items[i] # Nil => queue_items'[i] # Nil
  BY <1>15, Zenon
<1> QED BY <1>2, <1>10, <1>12, <1>14, <1>16, <1>17, <1>18, <1>19, ItemsStep
=============================================================================
