------------------------- MODULE MyQueueNormalise ---------------------------
(***************************************************************************)
(* Proofs about MyQueue, part 3: normalise_queue_item_rankings keeps IInv. *)
(***************************************************************************)
EXTENDS MyQueueSteps

(* The rows a normalisation loads are the user's, all of them. *)
LEMMA ByRankingFacts ==
  ASSUME TablesOK, FreshItems, NEW u, NEW s \in ByRanking(OwnItems(u))
  PROVE  /\ DOMAIN s = 1..Cardinality(OwnItems(u))
         /\ Cardinality(OwnItems(u)) \in 0..item_seq
         /\ \A k \in DOMAIN s : s[k] \in OwnItems(u)
         /\ \A i \in OwnItems(u) : \E k \in DOMAIN s : s[k] = i
<1>1. /\ s \in [1..Cardinality(OwnItems(u)) -> OwnItems(u)]
      /\ \A i \in OwnItems(u) : \E k \in DOMAIN s : s[k] = i
  BY Zenon DEF ByRanking
<1> QED BY <1>1, OwnItemsCount, Zenon

(* One of them, as it is held in memory. *)
LEMMA LoadedFacts ==
  ASSUME TablesOK, FreshItems, NEW u, NEW i \in OwnItems(u)
  PROVE  /\ Loaded(i, queue_items[i].ranking) \in Memory
         /\ Loaded(i, queue_items[i].ranking).id = i
         /\ Loaded(i, queue_items[i].ranking).ranking = queue_items[i].ranking
         /\ OwnOrGone(i, u)
<1>1. i \in ItemIds /\ queue_items[i] # Nil /\ queue_items[i].user = u
  BY Zenon DEF OwnItems
<1>2. i \in 1..item_seq
  BY <1>1, LiveId, Zenon
<1>3. queue_items[i] \in QueueItem
  BY <1>1, Zenon DEF TablesOK
<1>4. Loaded(i, queue_items[i].ranking) \in Memory
  BY <1>1, <1>3 DEF Loaded, Memory, QueueItem
<1>5. /\ Loaded(i, queue_items[i].ranking).id = i
      /\ Loaded(i, queue_items[i].ranking).ranking = queue_items[i].ranking
  BY DEF Loaded
<1> QED BY <1>1, <1>2, <1>4, <1>5, Zenon DEF OwnOrGone

(* ... and the list of them. *)
LEMMA ListFacts ==
  ASSUME TablesOK, FreshItems, NEW u, OwnItems(u) # {}, NEW s \in ByRanking(OwnItems(u)),
         NEW list, list = [k \in DOMAIN s |-> Loaded(s[k], queue_items[s[k]].ranking)]
  PROVE  /\ list \in Seq(Memory) /\ DOMAIN list = DOMAIN s
         /\ Len(list) \in 0..item_seq /\ 1 \in 1..Len(list)
         /\ \A k \in DOMAIN list : OwnOrGone(list[k].id, u)
<1> DEFINE n == Cardinality(OwnItems(u))
<1>1. DOMAIN s = 1..n /\ n \in 0..item_seq /\ \A k \in DOMAIN s : s[k] \in OwnItems(u)
  BY ByRankingFacts, Zenon
<1>2. IsFiniteSet(OwnItems(u))
  BY OwnItemsCount, Zenon
<1>3. n # 0
  BY <1>2, FS_EmptySet
<1> HIDE DEF n
<1>4. item_seq \in Nat
  BY Numbers
<1>5. n \in Nat /\ 1 \in 1..n
  BY <1>1, <1>3, <1>4
<1>6. \A k \in DOMAIN s : list[k] \in Memory /\ OwnOrGone(list[k].id, u)
  <2> SUFFICES ASSUME NEW k \in DOMAIN s PROVE list[k] \in Memory /\ OwnOrGone(list[k].id, u)
    OBVIOUS
  <2>1. s[k] \in OwnItems(u) /\ list[k] = Loaded(s[k], queue_items[s[k]].ranking)
    BY <1>1, Zenon
  <2> QED BY <2>1, LoadedFacts, Zenon
<1>7. DOMAIN list = 1..n
  BY <1>1
<1>8. list \in [1..n -> Memory]
  BY <1>1, <1>6, <1>7
<1>9. list \in Seq(Memory)
  BY <1>5, <1>8, SeqDef
<1>10. Len(list) = n
  BY <1>5, <1>7, <1>9, LenProperties
<1> QED BY <1>1, <1>5, <1>6, <1>7, <1>9, <1>10, Zenon

LEMMA LoadIInv ==
  ASSUME IInv, NEW w \in Workers, load_queue_items(w)
  PROVE  IInv'
<1>1. TablesOK /\ WorkersOK /\ FreshItems /\ MemoryOK(w)
  BY Zenon DEF IInv
<1>2. pc[w] = "load" /\ UNCHANGED <<tables, txn>>
  BY Zenon DEF load_queue_items
<1>3. pc[w] \notin TxnLabels
  BY <1>2 DEF TxnLabels
<1>4. CASE OwnItems(user[w]) = {}
  <2>1. EndRequest(w)
    BY <1>4, Zenon DEF load_queue_items
  <2> QED BY <1>2, <1>3, <2>1, EndIInv, Zenon
<1>5. CASE OwnItems(user[w]) # {}
  <2>1. PICK s \in ByRanking(OwnItems(user[w])) :
          /\ loaded' = [loaded EXCEPT ![w] =
               [k \in DOMAIN s |-> Loaded(s[k], queue_items[s[k]].ranking)]]
          /\ found' = [found EXCEPT ![w] = 1]
          /\ params' = [params EXCEPT ![w] = NoParams]
          /\ pc' = [pc EXCEPT ![w] = "renumber"]
          /\ user' = user
    BY <1>5, Zenon DEF load_queue_items
  <2>a. PICK list : list = [k \in DOMAIN s |-> Loaded(s[k], queue_items[s[k]].ranking)]
    OBVIOUS
  <2>2. /\ list \in Seq(Memory)
        /\ Len(list) \in 0..item_seq /\ 1 \in 1..Len(list)
        /\ \A k \in DOMAIN list : OwnOrGone(list[k].id, user[w])
    BY <1>1, <1>5, <2>a, ListFacts
  <2>3. loaded' = [loaded EXCEPT ![w] = list]
    BY <2>1, <2>a, Zenon
  <2>4. Holds(w, "renumber", user[w], NoParams, 1, list)
    BY <1>1, <2>1, <2>3, Same, Zenon DEF Holds
  <2>5. /\ pc'[w] = "renumber" /\ user'[w] = user[w] /\ params'[w] = NoParams
        /\ found'[w] = 1 /\ loaded'[w] = list
    BY <1>1, <2>4, Zenon DEF Holds, WorkersOK
  <2>6. /\ item_seq' = item_seq /\ queue_items' = queue_items
        /\ txn_items' = txn_items /\ txn_reviews' = txn_reviews
    BY <1>2 DEF tables, txn
  <2>7. user[w] \in Users
    BY <1>1, <1>2 DEF MemoryOK, PlaceOK, UserOK
  <2>8. PlaceOK(w)'
    <3>1. UserOK(w)' /\ VideoOK(w)' /\ CountOK(w)' /\ NamedOK(w)'
      BY <2>5, <2>7 DEF UserOK, VideoOK, CountOK, NamedOK
    <3>2. RenumberOK(w)' /\ EntryOK(w)'
      BY <2>2, <2>5, <2>6 DEF RenumberOK, EntryOK
    <3>3. EmptyOK(w)'
      BY <2>5 DEF EmptyOK, LoadedLabels
    <3> QED BY <3>1, <3>2, <3>3, Zenon DEF PlaceOK
  <2>9. HeldOK(w)' /\ RateOK(w)'
    <3>1. \A k \in DOMAIN list : OwnOrGone(list[k].id, user[w])'
      BY <2>2, <2>5, <2>6, Zenon DEF OwnOrGone
    <3>2. pc'[w] # "delete" /\ pc'[w] # "rate"
      BY <2>5
    <3> QED BY <2>5, <3>1, <3>2, Zenon DEF HeldOK, RateOK, OwnOrGone
  <2>10. PendingOK(w)' /\ WrittenOK(w)'
    BY <1>1, <1>3, <2>6, NothingPending, Zenon DEF PendingOK, WrittenOK
  <2>11. MemoryOK(w)'
    BY <2>8, <2>9, <2>10, Zenon DEF MemoryOK
  <2>12. "renumber" \in Labels /\ 1 \in Nat \cup {Nil}
    BY DEF Labels
  <2>13. user[w] \in Users \cup {Nil}
    BY <2>7
  <2> QED BY <1>2, <2>2, <2>4, <2>11, <2>12, <2>13, NoTypes, ReadStep, Zenon
<1> QED BY <1>4, <1>5, Zenon

(* An UPDATE of a ranking keeps the types, the users and which ids have rows. *)
LEMMA WithRankingFacts ==
  ASSUME TablesOK, NEW i \in ItemIds, NEW n \in Rankings
  PROVE  /\ WithRanking(i, n) \in [ItemIds -> QueueItem \cup {Nil}]
         /\ \A j \in ItemIds : WithRanking(i, n)[j] = Nil <=> queue_items[j] = Nil
         /\ \A j \in ItemIds : queue_items[j] # Nil
              => /\ WithRanking(i, n)[j].user = queue_items[j].user
                 /\ WithRanking(i, n)[j].video = queue_items[j].video
                 /\ WithRanking(i, n)[j].ranking = IF j = i THEN n ELSE queue_items[j].ranking
         /\ \A j \in ItemIds : j # i => WithRanking(i, n)[j] = queue_items[j]
<1>0. queue_items \in [ItemIds -> QueueItem \cup {Nil}]
  BY Zenon DEF TablesOK
<1>1. CASE queue_items[i] = Nil
  <2>1. WithRanking(i, n) = queue_items
    BY <1>1, Zenon DEF WithRanking
  <2>2. \A j \in ItemIds : queue_items[j] # Nil => j # i
    BY <1>1, Zenon
  <2> QED BY <1>0, <2>1, <2>2, Zenon
<1>2. CASE queue_items[i] # Nil
  <2> DEFINE row == Ranked(queue_items[i], n)
  <2>1. queue_items[i] \in QueueItem
    BY <1>0, <1>2, Zenon
  <2>2. WithRanking(i, n) = [queue_items EXCEPT ![i] = row]
    BY <1>2, Zenon DEF WithRanking
  <2>3. /\ row \in QueueItem /\ row # Nil
        /\ row.user = queue_items[i].user /\ row.video = queue_items[i].video /\ row.ranking = n
    <3>1. row \in QueueItem
      BY <2>1 DEF QueueItem, Ranked
    <3>2. row.user = queue_items[i].user /\ row.video = queue_items[i].video /\ row.ranking = n
      BY DEF Ranked
    <3> QED BY <3>1, <3>2, NilAssumption, Zenon
  <2> HIDE DEF row
  <2>4. /\ WithRanking(i, n)[i] = row
        /\ \A j \in ItemIds : j # i => WithRanking(i, n)[j] = queue_items[j]
    BY <1>0, <2>2, Zenon
  <2>5. WithRanking(i, n) \in [ItemIds -> QueueItem \cup {Nil}]
    BY <1>0, <2>2, <2>3
  <2>6. \A j \in ItemIds : WithRanking(i, n)[j] = Nil <=> queue_items[j] = Nil
    BY <1>2, <2>3, <2>4
  <2>7. ASSUME NEW j \in ItemIds, queue_items[j] # Nil
        PROVE  /\ WithRanking(i, n)[j].user = queue_items[j].user
               /\ WithRanking(i, n)[j].video = queue_items[j].video
               /\ WithRanking(i, n)[j].ranking = IF j = i THEN n ELSE queue_items[j].ranking
    BY <2>3, <2>4
  <2> QED BY <2>4, <2>5, <2>6, <2>7, Zenon
<1> QED BY <1>1, <1>2, Zenon

(* Where a renumbering is. *)
LEMMA RenumberFacts ==
  ASSUME IInv, NEW w \in Workers, pc[w] = "renumber"
  PROVE  /\ found[w] \in 1..Len(loaded[w]) /\ found[w] \in Nat
         /\ Len(loaded[w]) \in 0..item_seq /\ Len(loaded[w]) \in Nat
         /\ DOMAIN loaded[w] = 1..Len(loaded[w]) /\ loaded[w] \in Seq(Memory)
         /\ loaded[w][found[w]].id \in ItemIds
         /\ found[w] \in 1..item_seq /\ found[w] \in Rankings
         /\ OwnOrGone(loaded[w][found[w]].id, user[w])
         /\ user[w] \in Users
<1>1. TablesOK /\ WorkersOK /\ MemoryOK(w)
  BY Zenon DEF IInv
<1>2. found[w] \in 1..Len(loaded[w]) /\ Len(loaded[w]) \in 0..item_seq
  BY <1>1, Zenon DEF MemoryOK, PlaceOK, RenumberOK
<1>3. loaded[w] \in Seq(Memory)
  BY <1>1, Types, Zenon
<1>4. Len(loaded[w]) \in Nat /\ DOMAIN loaded[w] = 1..Len(loaded[w])
  BY <1>3, LenProperties
<1>5. loaded[w][found[w]] \in Memory
  BY <1>2, <1>3, ElementOfSeq
<1>6. loaded[w][found[w]].id \in ItemIds
  BY <1>5 DEF Memory
<1>7. OwnOrGone(loaded[w][found[w]].id, user[w])
  BY <1>1, <1>2, <1>4, Zenon DEF MemoryOK, HeldOK
<1>8. /\ item_seq \in Nat /\ item_seq <= MaxItems /\ MaxItems \in Nat
      /\ MaxItems <= MaxRanking /\ MaxRanking \in Nat
  BY <1>1, Numbers, ConstantsAssumption
<1>9. found[w] \in Nat /\ found[w] \in 1..item_seq /\ found[w] \in Rankings
  BY <1>2, <1>4, <1>8 DEF Rankings
<1>10. user[w] \in Users
  BY <1>1 DEF MemoryOK, PlaceOK, UserOK
<1> QED BY <1>2, <1>3, <1>4, <1>6, <1>7, <1>9, <1>10, Zenon

(* What a renumbering does to the table. *)
LEMMA RenumberItems ==
  ASSUME IInv, NEW w \in Workers, renumber(w)
  PROVE  /\ queue_items' \in [ItemIds -> QueueItem \cup {Nil}]
         /\ \A j \in ItemIds : queue_items'[j] = Nil <=> queue_items[j] = Nil
         /\ \A j \in ItemIds : queue_items[j] # Nil =>
              /\ queue_items'[j].user = queue_items[j].user
              /\ queue_items'[j].video = queue_items[j].video
<1>1. TablesOK
  BY Zenon DEF IInv
<1>2. pc[w] = "renumber"
  BY Zenon DEF renumber
<1>3. loaded[w][found[w]].id \in ItemIds /\ found[w] \in Rankings
  BY <1>2, RenumberFacts, Zenon
<1>4. CASE queue_items' = queue_items
  BY <1>1, <1>4, Zenon DEF TablesOK
<1>5. CASE queue_items' = WithRanking(loaded[w][found[w]].id, found[w])
  <2> DEFINE t == WithRanking(loaded[w][found[w]].id, found[w])
  <2>1. /\ t \in [ItemIds -> QueueItem \cup {Nil}]
        /\ \A j \in ItemIds : t[j] = Nil <=> queue_items[j] = Nil
        /\ \A j \in ItemIds : queue_items[j] # Nil =>
             t[j].user = queue_items[j].user /\ t[j].video = queue_items[j].video
    BY <1>1, <1>3, WithRankingFacts
  <2> HIDE DEF t
  <2>2. queue_items' = t
    BY <1>5 DEF t
  <2> QED BY <2>1, <2>2
<1>6. queue_items' = queue_items \/ queue_items' = WithRanking(loaded[w][found[w]].id, found[w])
  BY Zenon DEF renumber
<1> QED BY <1>4, <1>5, <1>6, Zenon

LEMMA RenumberIInv ==
  ASSUME IInv, NEW w \in Workers, renumber(w)
  PROVE  IInv'
<1> DEFINE k == found[w]
<1>1. TablesOK /\ WorkersOK /\ MemoryOK(w)
  BY Zenon DEF IInv
<1>2. pc[w] = "renumber" /\ UNCHANGED <<reviews, item_seq, review_seq, txn>>
  BY Zenon DEF renumber
<1>3. item_seq' = item_seq /\ txn_items' = txn_items /\ txn_reviews' = txn_reviews
  BY <1>2 DEF txn
<1>4. pc[w] \notin TxnLabels
  BY <1>2 DEF TxnLabels
<1>5. /\ k \in 1..Len(loaded[w]) /\ k \in Nat /\ user[w] \in Users
      /\ Len(loaded[w]) \in 0..item_seq /\ Len(loaded[w]) \in Nat
  BY <1>2, RenumberFacts, Zenon
<1>6. /\ queue_items' \in [ItemIds -> QueueItem \cup {Nil}]
      /\ \A j \in ItemIds : queue_items'[j] = Nil <=> queue_items[j] = Nil
      /\ \A j \in ItemIds : queue_items[j] # Nil => queue_items'[j].user = queue_items[j].user
  BY RenumberItems, Zenon
<1>7. /\ \A i \in ItemIds : queue_items'[i] # Nil =>
           queue_items[i] # Nil /\ queue_items'[i].user = queue_items[i].user
      /\ \A x \in Workers \ {w}, i \in ItemIds :
           txn_items[x][i] # Nil /\ queue_items[i] # Nil => queue_items'[i] # Nil
  BY <1>6, Zenon
<1>8. CASE EndRequest(w)
  <2>1. MemoryOK(w)'
    BY <1>1, <1>3, <1>4, <1>8, NothingPending, IdleMemory, Zenon
  <2>2. Holds(w, "idle", Nil, NoParams, Nil, <<>>)
    BY <1>8, EndHolds, Zenon
  <2> QED BY <1>2, <1>6, <1>7, <2>1, <2>2, IdleTypes, ItemsStep
<1>9. CASE /\ k # Len(loaded[w]) /\ found' = [found EXCEPT ![w] = k + 1]
           /\ pc' = pc /\ user' = user /\ params' = params /\ loaded' = loaded
  <2>1. k + 1 \in 1..Len(loaded[w]) /\ k + 1 \in Nat
    BY <1>5, <1>9
  <2> DEFINE m == k + 1
  <2>2. m \in 1..Len(loaded[w]) /\ m \in Nat \cup {Nil} /\ found' = [found EXCEPT ![w] = m]
    BY <1>9, <2>1
  <2> HIDE DEF m
  <2>3. Holds(w, pc[w], user[w], params[w], m, loaded[w])
    BY <1>1, <1>9, <2>2, Same, Zenon DEF Holds
  <2>4. /\ pc'[w] = "renumber" /\ user'[w] = user[w] /\ found'[w] = m
        /\ loaded'[w] = loaded[w]
    BY <1>1, <1>2, <2>3, Zenon DEF Holds, WorkersOK
  <2>5. PlaceOK(w)'
    <3>1. UserOK(w)' /\ VideoOK(w)' /\ CountOK(w)' /\ NamedOK(w)'
      BY <1>5, <2>4 DEF UserOK, VideoOK, CountOK, NamedOK
    <3>2. RenumberOK(w)' /\ EntryOK(w)'
      BY <1>3, <1>5, <2>2, <2>4 DEF RenumberOK, EntryOK
    <3>3. EmptyOK(w)'
      BY <2>4 DEF EmptyOK, LoadedLabels
    <3> QED BY <3>1, <3>2, <3>3, Zenon DEF PlaceOK
  <2>6. HeldOK(w)' /\ RateOK(w)'
    <3>1. ASSUME NEW i \in 1..item_seq, queue_items'[i] # Nil
          PROVE  queue_items[i] # Nil /\ queue_items'[i].user = queue_items[i].user
      BY <1>1, <1>7, <3>1, HandedOut, Zenon
    <3>2. ASSUME NEW i, OwnOrGone(i, user[w]) PROVE OwnOrGone(i, user[w])'
      BY <1>3, <2>4, <3>1, <3>2, Zenon DEF OwnOrGone
    <3>3. \A j \in DOMAIN loaded[w] : OwnOrGone(loaded[w][j].id, user[w])
      BY <1>1, Zenon DEF MemoryOK, HeldOK
    <3>4. \A j \in DOMAIN loaded[w] : OwnOrGone(loaded[w][j].id, user[w])'
      <4> SUFFICES ASSUME NEW j \in DOMAIN loaded[w]
                   PROVE  OwnOrGone(loaded[w][j].id, user[w])'
        OBVIOUS
      <4>1. OwnOrGone(loaded[w][j].id, user[w])
        BY <3>3, Zenon
      <4>2. loaded'[w][j].id = loaded[w][j].id
        BY <2>4
      <4> QED BY <1>3, <2>4, <3>1, <4>1, <4>2, Zenon DEF OwnOrGone
    <3>5. pc'[w] # "delete" /\ pc'[w] # "rate"
      BY <2>4
    <3> QED BY <2>4, <3>4, <3>5, Zenon DEF HeldOK, RateOK, OwnOrGone
  <2>7. PendingOK(w)' /\ WrittenOK(w)'
    BY <1>1, <1>3, <1>4, NothingPending, Zenon DEF PendingOK, WrittenOK
  <2>8. MemoryOK(w)'
    BY <2>5, <2>6, <2>7, Zenon DEF MemoryOK
  <2>9. /\ pc[w] \in Labels /\ user[w] \in Users \cup {Nil} /\ params[w] \in Params
        /\ loaded[w] \in Seq(Memory)
    BY <1>1, Types, Zenon
  <2> QED BY <1>2, <1>6, <1>7, <2>2, <2>3, <2>8, <2>9, ItemsStep
<1> QED BY <1>8, <1>9, Zenon DEF renumber
=============================================================================
