------------------------- MODULE MyQueueInvariant ---------------------------
(***************************************************************************)
(* Proofs about MyQueue for any users, videos, workers and bounds, part 1: *)
(* the inductive invariant IInv, and what it takes for a step to keep it.  *)
(*                                                                         *)
(* TypeOK alone is not inductive: an insert uses the count read a statement *)
(* earlier, a renumbering the position and the items loaded earlier, a     *)
(* commit the rows written earlier; the other parts of IInv say what is    *)
(* known of each of them.                                                  *)
(***************************************************************************)
EXTENDS MyQueue, FiniteSetTheorems, SequenceTheorems, TLAPS

TablesOK ==
  /\ queue_items \in [ItemIds -> QueueItem \cup {Nil}]
  /\ reviews \in [ReviewIds -> Review \cup {Nil}]
  /\ item_seq \in 0..MaxItems
  /\ review_seq \in 0..MaxReviews

WritesOK ==
  /\ txn_items \in [Workers -> [ItemIds -> Rankings \cup {Nil}]]
  /\ txn_reviews \in [Workers -> [ReviewIds -> Review \cup {Nil}]]

WorkersOK ==
  /\ pc \in [Workers -> Labels]
  /\ user \in [Workers -> Users \cup {Nil}]
  /\ params \in [Workers -> Params]
  /\ found \in [Workers -> Nat \cup {Nil}]
  /\ loaded \in [Workers -> Seq(Memory)]

(* The sequences have not handed out the ids that have no row yet. *)
FreshItems == \A i \in ItemIds : i > item_seq => queue_items[i] = Nil
FreshReviews ==
  \A r \in ReviewIds : r > review_seq =>
    reviews[r] = Nil /\ \A x \in Workers : txn_reviews[x][r] = Nil

(* Two transactions never have the same review pending. *)
WrittenOnce ==
  \A r \in ReviewIds : \A x, y \in Workers :
    txn_reviews[x][r] # Nil /\ txn_reviews[y][r] # Nil => x = y

(* The labels at which a worker has items in memory. *)
LoadedLabels == {"renumber", "review", "rate", "save"}

(* What worker w knows at each statement. *)
UserOK(w) == pc[w] # "idle" => user[w] \in Users
VideoOK(w) == pc[w] \in {"count", "insert", "submit"} => params[w].video \in Videos
CountOK(w) == pc[w] = "insert" => found[w] \in 0..item_seq
NamedOK(w) == pc[w] \in {"include", "delete"} => params[w].id \in 1..item_seq
RenumberOK(w) ==
  pc[w] = "renumber" => found[w] \in 1..Len(loaded[w]) /\ Len(loaded[w]) \in 0..item_seq
EntryOK(w) ==
  pc[w] \in {"review", "rate", "save"} => Len(loaded[w]) = 1 /\ params[w].form # <<>>
EmptyOK(w) == pc[w] \notin LoadedLabels => loaded[w] = <<>>

PlaceOK(w) ==
  /\ UserOK(w) /\ VideoOK(w) /\ CountOK(w) /\ NamedOK(w)
  /\ RenumberOK(w) /\ EntryOK(w) /\ EmptyOK(w)

(* i was handed out, and is a row of u or gone for good. *)
OwnOrGone(i, u) == i \in 1..item_seq /\ (queue_items[i] # Nil => queue_items[i].user = u)

(* What w has loaded, or is about to delete, is its user's or is gone. *)
HeldOK(w) ==
  /\ \A k \in DOMAIN loaded[w] : OwnOrGone(loaded[w][k].id, user[w])
  /\ pc[w] = "delete" => OwnOrGone(params[w].id, user[w])

(* A review w has found is one its user wrote, and stays: reviews are never deleted. *)
RateOK(w) ==
  pc[w] = "rate" /\ found[w] # Nil =>
    /\ found[w] \in ReviewIds
    /\ SeenReview(w, found[w]) # Nil
    /\ SeenReview(w, found[w]).user = user[w]

(* Who wrote a review, and about what. *)
Subject(row) == <<row.user, row.video>>

(* What w has written and not committed is its user's. *)
PendingOK(w) ==
  \A i \in ItemIds : txn_items[w][i] # Nil =>
    pc[w] \in TxnLabels /\ queue_items[i] # Nil /\ queue_items[i].user = user[w]
WrittenOK(w) ==
  \A r \in ReviewIds : txn_reviews[w][r] # Nil =>
    /\ pc[w] \in TxnLabels
    /\ txn_reviews[w][r].user = user[w]
    /\ reviews[r] # Nil => Subject(txn_reviews[w][r]) = Subject(reviews[r])

MemoryOK(w) == PlaceOK(w) /\ HeldOK(w) /\ RateOK(w) /\ PendingOK(w) /\ WrittenOK(w)

IInv ==
  /\ TablesOK /\ WritesOK /\ WorkersOK
  /\ FreshItems /\ FreshReviews /\ WrittenOnce
  /\ \A w \in Workers : MemoryOK(w)

-----------------------------------------------------------------------------
(* The numbers of the tables. *)
LEMMA Numbers ==
  ASSUME TablesOK
  PROVE  /\ item_seq \in Nat /\ item_seq <= MaxItems
         /\ review_seq \in Nat /\ review_seq <= MaxReviews
         /\ MaxItems \in Nat /\ MaxReviews \in Nat
BY ConstantsAssumption DEF TablesOK

(* A row has an id that was handed out. *)
LEMMA LiveId ==
  ASSUME TablesOK, FreshItems, NEW i \in ItemIds, queue_items[i] # Nil
  PROVE  i \in 1..item_seq
<1>1. item_seq \in Nat /\ MaxItems \in Nat
  BY Numbers
<1>2. ~(i > item_seq)
  BY Zenon DEF FreshItems
<1> QED BY <1>1, <1>2 DEF ItemIds

(* An id that was handed out is an id. *)
LEMMA HandedOut ==
  ASSUME TablesOK, NEW i \in 1..item_seq
  PROVE  i \in ItemIds
BY Numbers DEF ItemIds

(* A user has no more items than the sequence has handed out ids. *)
LEMMA OwnItemsCount ==
  ASSUME TablesOK, FreshItems, NEW u
  PROVE  /\ IsFiniteSet(OwnItems(u))
         /\ Cardinality(OwnItems(u)) \in 0..item_seq
<1>1. OwnItems(u) \subseteq 1..item_seq
  BY LiveId, Zenon DEF OwnItems
<1>2. item_seq \in Nat
  BY Numbers
<1>3. IsFiniteSet(1..item_seq) /\ Cardinality(1..item_seq) = item_seq
  BY <1>2, FS_Interval
<1>4. IsFiniteSet(OwnItems(u)) /\ Cardinality(OwnItems(u)) <= item_seq
  BY <1>1, <1>3, FS_Subset
<1>5. Cardinality(OwnItems(u)) \in Nat
  BY <1>4, FS_CardinalityType
<1> QED BY <1>2, <1>4, <1>5

(* Rating a review changes neither who wrote it nor about what. *)
LEMMA RatedFacts ==
  ASSUME NEW row \in Review, NEW n \in FormRatings
  PROVE  /\ Rated(row, n) \in Review
         /\ Rated(row, n).user = row.user
         /\ Subject(Rated(row, n)) = Subject(row)
BY ConstantsAssumption DEF Rated, Review, Subject

-----------------------------------------------------------------------------
(* A step of w, and what it leaves w with. *)
Holds(w, l, u, p, f, s) ==
  /\ pc' = [pc EXCEPT ![w] = l]
  /\ user' = [user EXCEPT ![w] = u]
  /\ params' = [params EXCEPT ![w] = p]
  /\ found' = [found EXCEPT ![w] = f]
  /\ loaded' = [loaded EXCEPT ![w] = s]

LEMMA Moved ==
  ASSUME WorkersOK, NEW w \in Workers, NEW l, NEW u, NEW p, NEW f, NEW s,
         Holds(w, l, u, p, f, s)
  PROVE  /\ pc'[w] = l /\ user'[w] = u /\ params'[w] = p /\ found'[w] = f /\ loaded'[w] = s
         /\ \A x \in Workers : x # w =>
              /\ pc'[x] = pc[x] /\ user'[x] = user[x] /\ params'[x] = params[x]
              /\ found'[x] = found[x] /\ loaded'[x] = loaded[x]
BY Zenon DEF WorkersOK, Holds

(* Memory that stays the same is memory set to what it is. *)
LEMMA Same ==
  ASSUME WorkersOK, NEW w \in Workers
  PROVE  /\ pc' = pc => pc' = [pc EXCEPT ![w] = pc[w]]
         /\ user' = user => user' = [user EXCEPT ![w] = user[w]]
         /\ params' = params => params' = [params EXCEPT ![w] = params[w]]
         /\ found' = found => found' = [found EXCEPT ![w] = found[w]]
         /\ loaded' = loaded => loaded' = [loaded EXCEPT ![w] = loaded[w]]
<1>1. pc' = pc => pc' = [pc EXCEPT ![w] = pc[w]]
  BY DEF WorkersOK
<1>2. user' = user => user' = [user EXCEPT ![w] = user[w]]
  BY DEF WorkersOK
<1>3. params' = params => params' = [params EXCEPT ![w] = params[w]]
  BY DEF WorkersOK
<1>4. found' = found => found' = [found EXCEPT ![w] = found[w]]
  BY DEF WorkersOK
<1>5. loaded' = loaded => loaded' = [loaded EXCEPT ![w] = loaded[w]]
  BY DEF WorkersOK
<1> QED BY <1>1, <1>2, <1>3, <1>4, <1>5, Zenon

(* ... and what it is. *)
LEMMA Types ==
  ASSUME WorkersOK, NEW w \in Workers
  PROVE  /\ pc[w] \in Labels /\ user[w] \in Users \cup {Nil} /\ params[w] \in Params
         /\ found[w] \in Nat \cup {Nil} /\ loaded[w] \in Seq(Memory)
BY Zenon DEF WorkersOK

LEMMA NoTypes == NoParams \in Params /\ <<>> \in Seq(Memory) /\ <<>> \in Seq(Entry)
BY DEF NoParams, Given, Params

LEMMA EndHolds ==
  ASSUME NEW w \in Workers, EndRequest(w)
  PROVE  Holds(w, "idle", Nil, NoParams, Nil, <<>>)
BY Zenon DEF EndRequest, Holds

-----------------------------------------------------------------------------
(* What every step of w leaves the others: ids stay handed out, no row changes  *)
(* its user or appears under an id in use, a row with a pending ranking stays,  *)
(* a review stays its author's, and only w's own pending reviews are written.   *)
Kept(w) ==
  /\ 0..item_seq \subseteq 0..item_seq' /\ 1..item_seq \subseteq 1..item_seq'
  /\ \A i \in 1..item_seq : queue_items'[i] # Nil =>
       queue_items[i] # Nil /\ queue_items'[i].user = queue_items[i].user
  /\ \A x \in Workers \ {w}, i \in ItemIds :
       txn_items[x][i] # Nil /\ queue_items[i] # Nil =>
         queue_items'[i] # Nil /\ queue_items'[i].user = queue_items[i].user
  /\ \A r \in ReviewIds : reviews[r] # Nil =>
       /\ reviews'[r] # Nil /\ reviews'[r].user = reviews[r].user
       /\ Subject(reviews'[r]) = Subject(reviews[r])
  /\ \A x \in Workers \ {w}, r \in ReviewIds :
       txn_reviews[x][r] # Nil => reviews'[r] = reviews[r]

LEMMA SameKept ==
  ASSUME NEW w \in Workers, UNCHANGED <<queue_items, reviews, item_seq>>
  PROVE  Kept(w)
BY Zenon DEF Kept

(* What a worker relies on survives the steps of the others. *)
LEMMA OthersKeep ==
  ASSUME NEW w \in Workers, Kept(w), NEW x \in Workers, x # w, MemoryOK(x),
         pc'[x] = pc[x], user'[x] = user[x], params'[x] = params[x], found'[x] = found[x],
         loaded'[x] = loaded[x], txn_items'[x] = txn_items[x], txn_reviews'[x] = txn_reviews[x]
  PROVE  MemoryOK(x)'
<1>1. UserOK(x)' /\ VideoOK(x)' /\ EntryOK(x)' /\ EmptyOK(x)'
  BY Zenon DEF MemoryOK, PlaceOK, UserOK, VideoOK, EntryOK, EmptyOK
<1>2. CountOK(x)' /\ NamedOK(x)' /\ RenumberOK(x)'
  BY Zenon DEF MemoryOK, PlaceOK, CountOK, NamedOK, RenumberOK, Kept
<1>3. ASSUME NEW i, NEW u, OwnOrGone(i, u) PROVE OwnOrGone(i, u)'
  <2>1. i \in 1..item_seq /\ (queue_items[i] # Nil => queue_items[i].user = u)
    BY <1>3, Zenon DEF OwnOrGone
  <2>2. i \in 1..item_seq'
    BY <2>1, Zenon DEF Kept
  <2>3. queue_items'[i] # Nil => queue_items'[i].user = u
    BY <2>1, Zenon DEF Kept
  <2> QED BY <2>2, <2>3, Zenon DEF OwnOrGone
<1>4. HeldOK(x)'
  <2>1. \A k \in DOMAIN loaded[x] : OwnOrGone(loaded[x][k].id, user[x])'
    BY <1>3 DEF MemoryOK, HeldOK
  <2>2. pc[x] = "delete" => OwnOrGone(params[x].id, user[x])'
    BY <1>3 DEF MemoryOK, HeldOK
  <2> QED BY <2>1, <2>2, Zenon DEF HeldOK, OwnOrGone
<1>5. RateOK(x)'
  <2> SUFFICES ASSUME pc[x] = "rate", found[x] # Nil
               PROVE  /\ found[x] \in ReviewIds
                      /\ SeenReview(x, found[x])' # Nil
                      /\ SeenReview(x, found[x]).user' = user[x]
    BY Zenon DEF RateOK, SeenReview
  <2>1. /\ found[x] \in ReviewIds /\ SeenReview(x, found[x]) # Nil
        /\ SeenReview(x, found[x]).user = user[x]
    BY Zenon DEF MemoryOK, RateOK
  <2>2. CASE txn_reviews[x][found[x]] # Nil
    BY <2>1, <2>2, Zenon DEF SeenReview
  <2>3. CASE txn_reviews[x][found[x]] = Nil
    <3>1. reviews[found[x]] # Nil /\ reviews[found[x]].user = user[x]
      BY <2>1, <2>3, Zenon DEF SeenReview
    <3>2. reviews'[found[x]] # Nil /\ reviews'[found[x]].user = user[x]
      BY <2>1, <3>1, Zenon DEF Kept
    <3> QED BY <2>1, <2>3, <3>2, Zenon DEF SeenReview
  <2> QED BY <2>2, <2>3, Zenon
<1>6. PendingOK(x)'
  <2> SUFFICES ASSUME NEW i \in ItemIds, txn_items[x][i] # Nil
               PROVE  /\ pc[x] \in TxnLabels
                      /\ queue_items'[i] # Nil /\ queue_items'[i].user = user[x]
    BY Zenon DEF PendingOK
  <2>1. pc[x] \in TxnLabels /\ queue_items[i] # Nil /\ queue_items[i].user = user[x]
    BY Zenon DEF MemoryOK, PendingOK
  <2>2. queue_items'[i] # Nil /\ queue_items'[i].user = queue_items[i].user
    BY <2>1, Zenon DEF Kept
  <2> QED BY <2>1, <2>2, Zenon
<1>7. WrittenOK(x)'
  <2> SUFFICES ASSUME NEW r \in ReviewIds, txn_reviews[x][r] # Nil
               PROVE  /\ pc[x] \in TxnLabels
                      /\ txn_reviews[x][r].user = user[x]
                      /\ reviews'[r] # Nil => Subject(txn_reviews[x][r]) = Subject(reviews'[r])
    BY Zenon DEF WrittenOK, Subject
  <2>1. reviews'[r] = reviews[r]
    BY Zenon DEF Kept
  <2> QED BY <2>1, Zenon DEF MemoryOK, WrittenOK
<1>8. PlaceOK(x)'
  BY <1>1, <1>2, Zenon DEF PlaceOK
<1> QED BY <1>4, <1>5, <1>6, <1>7, <1>8, Zenon DEF MemoryOK

LEMMA StepIInv ==
  ASSUME IInv, NEW w \in Workers, NEW l \in Labels, NEW u \in Users \cup {Nil},
         NEW p \in Params, NEW f \in Nat \cup {Nil}, NEW s \in Seq(Memory),
         Holds(w, l, u, p, f, s),
         NEW ti \in [ItemIds -> Rankings \cup {Nil}],
         NEW tr \in [ReviewIds -> Review \cup {Nil}],
         txn_items' = [txn_items EXCEPT ![w] = ti],
         txn_reviews' = [txn_reviews EXCEPT ![w] = tr],
         TablesOK', FreshItems', FreshReviews', WrittenOnce', Kept(w), MemoryOK(w)'
  PROVE  IInv'
<1>1. WorkersOK /\ WritesOK /\ \A x \in Workers : MemoryOK(x)
  BY Zenon DEF IInv
<1>2. WritesOK'
  BY <1>1 DEF WritesOK
<1>3. WorkersOK'
  <2>1. pc' \in [Workers -> Labels] /\ user' \in [Workers -> Users \cup {Nil}]
    BY <1>1 DEF WorkersOK, Holds
  <2>2. params' \in [Workers -> Params] /\ found' \in [Workers -> Nat \cup {Nil}]
    BY <1>1 DEF WorkersOK, Holds
  <2>3. loaded' \in [Workers -> Seq(Memory)]
    BY <1>1 DEF WorkersOK, Holds
  <2> QED BY <2>1, <2>2, <2>3, Zenon DEF WorkersOK
<1>4. ASSUME NEW x \in Workers, x # w PROVE MemoryOK(x)'
  <2>1. txn_items'[x] = txn_items[x] /\ txn_reviews'[x] = txn_reviews[x]
    BY <1>1, <1>4, Zenon DEF WritesOK
  <2>2. /\ pc'[x] = pc[x] /\ user'[x] = user[x] /\ params'[x] = params[x]
        /\ found'[x] = found[x] /\ loaded'[x] = loaded[x]
    BY <1>1, <1>4, Moved, Zenon
  <2> QED BY <1>1, <1>4, <2>1, <2>2, OthersKeep, Zenon
<1>5. \A x \in Workers : MemoryOK(x)'
  BY <1>4, Zenon
<1> QED BY <1>2, <1>3, <1>5, Zenon DEF IInv

(* The pending writes of w stay. *)
LEMMA SameWrites ==
  ASSUME WritesOK, NEW w \in Workers
  PROVE  /\ txn_items[w] \in [ItemIds -> Rankings \cup {Nil}]
         /\ txn_reviews[w] \in [ReviewIds -> Review \cup {Nil}]
         /\ txn_items = [txn_items EXCEPT ![w] = txn_items[w]]
         /\ txn_reviews = [txn_reviews EXCEPT ![w] = txn_reviews[w]]
<1>1. txn_items[w] \in [ItemIds -> Rankings \cup {Nil}]
  BY Zenon DEF WritesOK
<1>2. txn_reviews[w] \in [ReviewIds -> Review \cup {Nil}]
  BY Zenon DEF WritesOK
<1>3. txn_items = [txn_items EXCEPT ![w] = txn_items[w]]
  BY DEF WritesOK
<1>4. txn_reviews = [txn_reviews EXCEPT ![w] = txn_reviews[w]]
  BY DEF WritesOK
<1> QED BY <1>1, <1>2, <1>3, <1>4, Zenon

(* A step that writes nothing. *)
LEMMA ReadStep ==
  ASSUME IInv, NEW w \in Workers, NEW l \in Labels, NEW u \in Users \cup {Nil},
         NEW p \in Params, NEW f \in Nat \cup {Nil}, NEW s \in Seq(Memory),
         Holds(w, l, u, p, f, s), UNCHANGED <<tables, txn>>, MemoryOK(w)'
  PROVE  IInv'
<1>1. /\ queue_items' = queue_items /\ reviews' = reviews /\ item_seq' = item_seq
      /\ review_seq' = review_seq /\ txn_items' = txn_items /\ txn_reviews' = txn_reviews
  BY DEF tables, txn
<1>2. WritesOK
  BY Zenon DEF IInv
<1>3. TablesOK' /\ FreshItems' /\ FreshReviews' /\ WrittenOnce'
  BY <1>1, Zenon DEF IInv, TablesOK, FreshItems, FreshReviews, WrittenOnce
<1>4. Kept(w)
  BY <1>1, SameKept, Zenon
<1>5. /\ txn_items[w] \in [ItemIds -> Rankings \cup {Nil}]
      /\ txn_reviews[w] \in [ReviewIds -> Review \cup {Nil}]
      /\ txn_items' = [txn_items EXCEPT ![w] = txn_items[w]]
      /\ txn_reviews' = [txn_reviews EXCEPT ![w] = txn_reviews[w]]
  BY <1>1, <1>2, SameWrites, Zenon
<1> QED BY <1>3, <1>4, <1>5, StepIInv

-----------------------------------------------------------------------------
(* Outside a transaction nothing is pending. *)
LEMMA NothingPending ==
  ASSUME NEW w \in Workers, MemoryOK(w), pc[w] \notin TxnLabels
  PROVE  /\ \A i \in ItemIds : txn_items[w][i] = Nil
         /\ \A r \in ReviewIds : txn_reviews[w][r] = Nil
BY Zenon DEF MemoryOK, PendingOK, WrittenOK

(* A worker that is idle again relies on nothing. *)
LEMMA IdleMemory ==
  ASSUME WorkersOK, NEW w \in Workers, EndRequest(w),
         \A i \in ItemIds : txn_items'[w][i] = Nil,
         \A r \in ReviewIds : txn_reviews'[w][r] = Nil
  PROVE  MemoryOK(w)'
<1>1. pc'[w] = "idle" /\ loaded'[w] = <<>>
  BY Zenon DEF WorkersOK, EndRequest
<1>2. PlaceOK(w)'
  BY <1>1 DEF PlaceOK, UserOK, VideoOK, CountOK, NamedOK, RenumberOK, EntryOK, EmptyOK,
              LoadedLabels
<1>3. HeldOK(w)' /\ RateOK(w)'
  BY <1>1 DEF HeldOK, RateOK
<1>4. PendingOK(w)' /\ WrittenOK(w)'
  BY Zenon DEF PendingOK, WrittenOK
<1> QED BY <1>2, <1>3, <1>4, Zenon DEF MemoryOK

(* The types of a worker that is idle again. *)
LEMMA IdleTypes ==
  "idle" \in Labels /\ Nil \in Users \cup {Nil} /\ NoParams \in Params
    /\ Nil \in Nat \cup {Nil} /\ <<>> \in Seq(Memory)
BY NoTypes DEF Labels

(* A request that ends outside a transaction and writes nothing. *)
LEMMA EndIInv ==
  ASSUME IInv, NEW w \in Workers, EndRequest(w), pc[w] \notin TxnLabels,
         UNCHANGED <<tables, txn>>
  PROVE  IInv'
<1>1. WorkersOK /\ MemoryOK(w)
  BY Zenon DEF IInv
<1>2. txn_items' = txn_items /\ txn_reviews' = txn_reviews
  BY DEF txn
<1>3. MemoryOK(w)'
  BY <1>1, <1>2, NothingPending, IdleMemory, Zenon
<1>4. Holds(w, "idle", Nil, NoParams, Nil, <<>>)
  BY EndHolds, Zenon
<1> QED BY <1>3, <1>4, IdleTypes, ReadStep, Zenon

(* Nothing pending is nothing pending twice. *)
LEMMA ClearedWrites ==
  ASSUME WritesOK, FreshReviews, WrittenOnce, NEW w \in Workers, ClearTxn(w),
         reviews' = reviews, review_seq' = review_seq
  PROVE  /\ \A i \in ItemIds : txn_items'[w][i] = Nil
         /\ \A r \in ReviewIds : txn_reviews'[w][r] = Nil
         /\ FreshReviews' /\ WrittenOnce'
<1>1. /\ txn_items'[w] = NoItemWrites /\ txn_reviews'[w] = NoReviewWrites
      /\ \A x \in Workers : x # w => txn_reviews'[x] = txn_reviews[x]
  BY Zenon DEF ClearTxn, WritesOK
<1>2. \A i \in ItemIds : txn_items'[w][i] = Nil
  BY <1>1, Zenon DEF NoItemWrites
<1>3. \A r \in ReviewIds : txn_reviews'[w][r] = Nil
  BY <1>1, Zenon DEF NoReviewWrites
<1>4. FreshReviews'
  BY <1>1, <1>3, Zenon DEF FreshReviews
<1>5. WrittenOnce'
  <2> SUFFICES ASSUME NEW r \in ReviewIds, NEW x \in Workers, NEW y \in Workers,
                      txn_reviews'[x][r] # Nil, txn_reviews'[y][r] # Nil
               PROVE  x = y
    BY Zenon DEF WrittenOnce
  <2>1. txn_reviews[x][r] # Nil /\ txn_reviews[y][r] # Nil
    BY <1>1, <1>3, Zenon
  <2> QED BY <2>1, Zenon DEF WrittenOnce
<1> QED BY <1>2, <1>3, <1>4, <1>5, Zenon

LEMMA NoWritesTypes ==
  /\ NoItemWrites \in [ItemIds -> Rankings \cup {Nil}]
  /\ NoReviewWrites \in [ReviewIds -> Review \cup {Nil}]
BY DEF NoItemWrites, NoReviewWrites

(* ROLLBACK. *)
LEMMA RollbackIInv ==
  ASSUME IInv, NEW w \in Workers, Rollback(w)
  PROVE  IInv'
<1>1. TablesOK /\ WritesOK /\ WorkersOK /\ FreshItems /\ FreshReviews /\ WrittenOnce
  BY Zenon DEF IInv
<1>2. EndRequest(w) /\ ClearTxn(w)
  BY Zenon DEF Rollback
<1>3. /\ queue_items' = queue_items /\ reviews' = reviews
      /\ item_seq' = item_seq /\ review_seq' = review_seq
  BY DEF Rollback, tables
<1>4. /\ \A i \in ItemIds : txn_items'[w][i] = Nil
      /\ \A r \in ReviewIds : txn_reviews'[w][r] = Nil
      /\ FreshReviews' /\ WrittenOnce'
  BY <1>1, <1>2, <1>3, ClearedWrites, Zenon
<1>5. TablesOK' /\ FreshItems'
  BY <1>1, <1>3, Zenon DEF TablesOK, FreshItems
<1>6. MemoryOK(w)'
  BY <1>1, <1>2, <1>4, IdleMemory, Zenon
<1>7. Holds(w, "idle", Nil, NoParams, Nil, <<>>)
  BY <1>2, EndHolds, Zenon
<1>8. Kept(w)
  BY <1>3, SameKept, Zenon
<1>9. /\ txn_items' = [txn_items EXCEPT ![w] = NoItemWrites]
      /\ txn_reviews' = [txn_reviews EXCEPT ![w] = NoReviewWrites]
  BY <1>2, Zenon DEF ClearTxn
<1> QED BY <1>4, <1>5, <1>6, <1>7, <1>8, <1>9, NoWritesTypes, IdleTypes, StepIInv, Zenon

(* A step that writes queue_items outside a transaction, without an insert. *)
LEMMA ItemsStep ==
  ASSUME IInv, NEW w \in Workers, NEW l \in Labels, NEW u \in Users \cup {Nil},
         NEW p \in Params, NEW f \in Nat \cup {Nil}, NEW s \in Seq(Memory),
         Holds(w, l, u, p, f, s),
         UNCHANGED <<reviews, item_seq, review_seq, txn>>,
         queue_items' \in [ItemIds -> QueueItem \cup {Nil}],
         \A i \in ItemIds : queue_items'[i] # Nil =>
           queue_items[i] # Nil /\ queue_items'[i].user = queue_items[i].user,
         \A x \in Workers \ {w}, i \in ItemIds :
           txn_items[x][i] # Nil /\ queue_items[i] # Nil => queue_items'[i] # Nil,
         MemoryOK(w)'
  PROVE  IInv'
<1>1. TablesOK /\ WritesOK /\ FreshItems /\ FreshReviews /\ WrittenOnce
  BY Zenon DEF IInv
<1>2. /\ reviews' = reviews /\ item_seq' = item_seq /\ review_seq' = review_seq
      /\ txn_items' = txn_items /\ txn_reviews' = txn_reviews
  BY DEF txn
<1>3. FreshReviews' /\ WrittenOnce'
  BY <1>1, <1>2, Zenon DEF FreshReviews, WrittenOnce
<1>4. TablesOK'
  BY <1>1, <1>2, Zenon DEF TablesOK
<1>5. FreshItems'
  <2> SUFFICES ASSUME NEW i \in ItemIds, i > item_seq PROVE queue_items'[i] = Nil
    BY <1>2, Zenon DEF FreshItems
  <2> QED BY <1>1, Zenon DEF FreshItems
<1>6. \A i \in 1..item_seq : i \in ItemIds
  BY <1>1, HandedOut, Zenon
<1>7. Kept(w)
  BY <1>2, <1>6, Zenon DEF Kept
<1>8. /\ txn_items[w] \in [ItemIds -> Rankings \cup {Nil}]
      /\ txn_reviews[w] \in [ReviewIds -> Review \cup {Nil}]
      /\ txn_items' = [txn_items EXCEPT ![w] = txn_items[w]]
      /\ txn_reviews' = [txn_reviews EXCEPT ![w] = txn_reviews[w]]
  BY <1>1, <1>2, SameWrites, Zenon
<1> QED BY <1>3, <1>4, <1>5, <1>7, <1>8, StepIInv

LEMMA InitIInv == Init => IInv
<1> SUFFICES ASSUME Init PROVE IInv
  OBVIOUS
<1>1. TablesOK
  BY ConstantsAssumption DEF Init, TablesOK
<1>2. WritesOK
  BY NoWritesTypes DEF Init, WritesOK
<1>3. WorkersOK
  BY IdleTypes DEF Init, WorkersOK
<1>4. FreshItems
  BY Zenon DEF Init, FreshItems
<1>5. ASSUME NEW w \in Workers
      PROVE  /\ \A i \in ItemIds : txn_items[w][i] = Nil
             /\ \A r \in ReviewIds : txn_reviews[w][r] = Nil
  BY Zenon DEF Init, NoItemWrites, NoReviewWrites
<1>6. FreshReviews /\ WrittenOnce
  BY <1>5, Zenon DEF Init, FreshReviews, WrittenOnce
<1>7. ASSUME NEW w \in Workers PROVE MemoryOK(w)
  <2>1. pc[w] = "idle" /\ loaded[w] = <<>>
    BY Zenon DEF Init
  <2>2. PlaceOK(w)
    BY <2>1 DEF PlaceOK, UserOK, VideoOK, CountOK, NamedOK, RenumberOK, EntryOK, EmptyOK,
                LoadedLabels
  <2>3. HeldOK(w) /\ RateOK(w)
    BY <2>1 DEF HeldOK, RateOK
  <2>4. PendingOK(w) /\ WrittenOK(w)
    BY <1>5, Zenon DEF PendingOK, WrittenOK
  <2> QED BY <2>2, <2>3, <2>4, Zenon DEF MemoryOK
<1> QED BY <1>1, <1>2, <1>3, <1>4, <1>6, <1>7, Zenon DEF IInv
=============================================================================
