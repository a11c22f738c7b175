---------------------------- MODULE MyQueueForm -----------------------------
(***************************************************************************)
(* Proofs about MyQueue, part 4: the statements of update_queue and of     *)
(* reviews#create keep IInv; hence IInv is an invariant.                   *)
(***************************************************************************)
EXTENDS MyQueueNormalise

(* The next row of the form, and the rest. *)
LEMMA EntryFacts ==
  ASSUME WorkersOK, NEW w \in Workers, params[w].form # <<>>
  PROVE  /\ Head(params[w].form).id \in ItemIds
         /\ Head(params[w].form).rating \in FormRatings
         /\ Given(Nil, Nil, Nil, Tail(params[w].form)) \in Params
<1>1. params[w] \in Params
  BY Types, Zenon
<1>2. params[w].form \in Seq(Entry)
  BY <1>1 DEF Params
<1>3. Head(params[w].form) \in Entry /\ Tail(params[w].form) \in Seq(Entry)
  BY <1>2, HeadTailProperties
<1>4. Given(Nil, Nil, Nil, Tail(params[w].form)) \in Params
  BY <1>3 DEF Given, Params
<1> QED BY <1>3, <1>4 DEF Entry

(* Where w is inside the transaction. *)
LEMMA FormPlace ==
  ASSUME NEW w \in Workers, user'[w] \in Users,
         \/ pc'[w] = "form" /\ loaded'[w] = <<>>
         \/ /\ pc'[w] \in {"review", "rate", "save"}
            /\ Len(loaded'[w]) = 1 /\ params'[w].form # <<>>
  PROVE  PlaceOK(w)' /\ pc'[w] \in TxnLabels /\ pc'[w] # "delete"
<1>1. UserOK(w)' /\ VideoOK(w)' /\ CountOK(w)' /\ NamedOK(w)'
  BY DEF UserOK, VideoOK, CountOK, NamedOK
<1>2. RenumberOK(w)' /\ EntryOK(w)' /\ EmptyOK(w)'
  BY DEF RenumberOK, EntryOK, EmptyOK, LoadedLabels
<1>3. pc'[w] \in TxnLabels /\ pc'[w] # "delete"
  BY DEF TxnLabels
<1> QED BY <1>1, <1>2, <1>3, Zenon DEF PlaceOK

(* What is pending stays its user's while w only reads. *)
LEMMA StillPending ==
  ASSUME NEW w \in Workers, MemoryOK(w), pc'[w] \in TxnLabels, user'[w] = user[w],
         txn_items' = txn_items, txn_reviews' = txn_reviews,
         queue_items' = queue_items, reviews' = reviews
  PROVE  PendingOK(w)' /\ WrittenOK(w)'
BY Zenon DEF MemoryOK, PendingOK, WrittenOK, Subject

(* The item in w's hands. *)
LEMMA HeldItem ==
  ASSUME WorkersOK, NEW w \in Workers, MemoryOK(w), pc[w] \in {"review", "rate", "save"}
  PROVE  /\ Len(loaded[w]) = 1 /\ params[w].form # <<>> /\ user[w] \in Users
         /\ loaded[w][1].id \in ItemIds /\ loaded[w][1].video \in Videos
         /\ loaded[w][1].ranking \in Rankings
         /\ OwnOrGone(loaded[w][1].id, user[w])
<1>1. Len(loaded[w]) = 1 /\ params[w].form # <<>>
  BY Zenon DEF MemoryOK, PlaceOK, EntryOK
<1>2. user[w] \in Users
  BY DEF MemoryOK, PlaceOK, UserOK
<1>3. loaded[w] \in Seq(Memory)
  BY Types, Zenon
<1>4. DOMAIN loaded[w] = 1..1
  BY <1>1, <1>3, LenProperties
<1>5. 1 \in 1..Len(loaded[w]) /\ 1 \in DOMAIN loaded[w]
  BY <1>1, <1>4
<1>6. loaded[w][1] \in Memory
  BY <1>3, <1>5, ElementOfSeq
<1>7. OwnOrGone(loaded[w][1].id, user[w])
  BY <1>5, Zenon DEF MemoryOK, HeldOK
<1> QED BY <1>1, <1>2, <1>6, <1>7 DEF Memory

LEMMA FindItemIInv ==
  ASSUME IInv, NEW w \in Workers, find_item(w)
  PROVE  IInv'
<1> DEFINE i == Head(params[w].form).id
           p == Given(Nil, Nil, Nil, Tail(params[w].form))
<1>1. TablesOK /\ WritesOK /\ WorkersOK /\ FreshItems /\ MemoryOK(w)
  BY Zenon DEF IInv
<1>2. pc[w] = "form" /\ params[w].form # <<>>
  BY Zenon DEF find_item
<1>3. i \in ItemIds /\ p \in Params
  BY <1>1, <1>2, EntryFacts, Zenon
<1>4. user[w] \in Users /\ pc[w] \notin LoadedLabels
  BY <1>1, <1>2 DEF MemoryOK, PlaceOK, UserOK, LoadedLabels
<1>5. loaded[w] = <<>>
  BY <1>1, <1>4, Zenon DEF MemoryOK, PlaceOK, EmptyOK
<1>6. pc[w] \in TxnLabels
  BY <1>2 DEF TxnLabels
<1>7. CASE Rollback(w)
  BY <1>7, RollbackIInv, Zenon
<1>8. CASE /\ params' = [params EXCEPT ![w] = p]
           /\ UNCHANGED <<tables, txn, pc, user, found, loaded>>
  <2> HIDE DEF p
  <2>1. /\ UNCHANGED <<tables, txn>> /\ pc' = pc /\ user' = user /\ found' = found
        /\ loaded' = loaded
    BY <1>8, Zenon
  <2>2. /\ queue_items' = queue_items /\ reviews' = reviews
        /\ txn_items' = txn_items /\ txn_reviews' = txn_reviews
    BY <2>1 DEF tables, txn
  <2>3. Holds(w, pc[w], user[w], p, found[w], loaded[w])
    BY <1>1, <1>8, <2>1, Same, Zenon DEF Holds
  <2>4. PlaceOK(w)'
    BY <1>2, <1>4, <1>5, <2>1, FormPlace
  <2>5. PendingOK(w)' /\ WrittenOK(w)'
    BY <1>1, <1>6, <2>1, <2>2, StillPending
  <2>6. HeldOK(w)' /\ RateOK(w)'
    BY <1>2, <1>5, <2>1 DEF HeldOK, RateOK
  <2>7. MemoryOK(w)'
    BY <2>4, <2>5, <2>6, Zenon DEF MemoryOK
  <2> QED BY <1>1, <1>3, <2>1, <2>3, <2>7, Types, ReadStep, Zenon
<1>9. CASE /\ queue_items[i] # Nil /\ queue_items[i].user = user[w]
           /\ loaded' = [loaded EXCEPT ![w] = <<Loaded(i, SeenRanking(w, i))>>]
           /\ pc' = [pc EXCEPT ![w] = "review"]
           /\ UNCHANGED <<tables, txn, user, params, found>>
  <2>a. PICK row : row = Loaded(i, SeenRanking(w, i))
    OBVIOUS
  <2>1. /\ UNCHANGED <<tables, txn>> /\ user' = user /\ found' = found /\ params' = params
    BY <1>9, Zenon
  <2>2. /\ queue_items' = queue_items /\ reviews' = reviews /\ item_seq' = item_seq
        /\ txn_items' = txn_items /\ txn_reviews' = txn_reviews
    BY <2>1 DEF tables, txn
  <2>3. row \in Memory /\ row.id = i
    <3>1. queue_items[i] \in QueueItem
      BY <1>1, <1>3, <1>9, Zenon DEF TablesOK
    <3>2. txn_items[w][i] \in Rankings \cup {Nil}
      BY <1>1, <1>3, Zenon DEF WritesOK
    <3>3. queue_items[i].ranking \in Rankings /\ queue_items[i].video \in Videos
      BY <3>1 DEF QueueItem
    <3>4. SeenRanking(w, i) \in Rankings
      BY <3>2, <3>3 DEF SeenRanking
    <3> QED BY <1>3, <2>a, <3>3, <3>4 DEF Loaded, Memory
  <2>4. i \in 1..item_seq
    BY <1>1, <1>3, <1>9, LiveId, Zenon
  <2>5. loaded' = [loaded EXCEPT ![w] = <<row>>]
    BY <1>9, <2>a, Zenon
  <2>6. <<row>> \in Seq(Memory) /\ Len(<<row>>) = 1 /\ DOMAIN <<row>> = {1} /\ <<row>>[1] = row
    BY <2>3
  <2>7. Holds(w, "review", user[w], params[w], found[w], <<row>>)
    BY <1>1, <1>9, <2>1, <2>5, Same, Zenon DEF Holds
  <2>8. pc'[w] = "review" /\ loaded'[w] = <<row>>
    BY <1>1, <2>7, Zenon DEF Holds, WorkersOK
  <2>9. PlaceOK(w)' /\ pc'[w] \in TxnLabels
    BY <1>2, <1>4, <2>1, <2>6, <2>8, FormPlace
  <2>10. PendingOK(w)' /\ WrittenOK(w)'
    BY <1>1, <2>1, <2>2, <2>9, StillPending
  <2>11. HeldOK(w)' /\ RateOK(w)'
    <3>1. \A k \in DOMAIN loaded'[w] : loaded'[w][k].id = i
      BY <2>3, <2>6, <2>8
    <3>2. /\ i \in 1..item_seq' /\ (queue_items'[i] # Nil => queue_items'[i].user = user'[w])
      BY <1>9, <2>1, <2>2, <2>4, Zenon
    <3>3. \A k \in DOMAIN loaded'[w] :
            /\ loaded'[w][k].id \in 1..item_seq'
            /\ queue_items'[loaded'[w][k].id] # Nil
                 => queue_items'[loaded'[w][k].id].user = user'[w]
      BY <3>1, <3>2, Zenon
    <3>4. pc'[w] # "delete" /\ pc'[w] # "rate"
      BY <2>8
    <3> QED BY <3>3, <3>4, Zenon DEF HeldOK, RateOK, OwnOrGone
  <2>12. MemoryOK(w)'
    BY <2>9, <2>10, <2>11, Zenon DEF MemoryOK
  <2>13. "review" \in Labels
    BY DEF Labels
  <2> QED BY <1>1, <2>1, <2>6, <2>7, <2>12, <2>13, Types, ReadStep, Zenon
<1> QED BY <1>7, <1>8, <1>9, Zenon DEF find_item

LEMMA FindReviewIInv ==
  ASSUME IInv, NEW w \in Workers, find_review(w)
  PROVE  IInv'
<1>1. WorkersOK /\ MemoryOK(w)
  BY Zenon DEF IInv
<1>2. /\ pc[w] = "review" /\ pc' = [pc EXCEPT ![w] = "rate"]
      /\ UNCHANGED <<tables, txn>> /\ user' = user /\ params' = params /\ loaded' = loaded
  BY Zenon DEF find_review
<1>3. /\ queue_items' = queue_items /\ reviews' = reviews /\ item_seq' = item_seq
      /\ txn_items' = txn_items /\ txn_reviews' = txn_reviews
  BY <1>2 DEF tables, txn
<1>4. pc[w] \in {"review", "rate", "save"}
  BY <1>2
<1>5. PICK f : /\ found' = [found EXCEPT ![w] = f]
               /\ f = Nil \/ /\ f \in ReviewIds /\ SeenReview(w, f) # Nil
                             /\ SeenReview(w, f).user = user[w]
  BY Zenon DEF find_review
<1>6. f \in Nat \cup {Nil}
  BY <1>5 DEF ReviewIds
<1>7. Holds(w, "rate", user[w], params[w], f, loaded[w])
  BY <1>1, <1>2, <1>5, Same, Zenon DEF Holds
<1>8. pc'[w] = "rate" /\ found'[w] = f
  BY <1>1, <1>7, Zenon DEF Holds, WorkersOK
<1>9. Len(loaded[w]) = 1 /\ params[w].form # <<>> /\ user[w] \in Users
  BY <1>1, <1>4, HeldItem, Zenon
<1>10. PlaceOK(w)' /\ pc'[w] \in TxnLabels /\ pc'[w] # "delete"
  BY <1>2, <1>8, <1>9, FormPlace
<1>11. PendingOK(w)' /\ WrittenOK(w)'
  BY <1>1, <1>2, <1>3, <1>10, StillPending
<1>12. HeldOK(w)'
  BY <1>1, <1>2, <1>3, <1>10, Zenon DEF MemoryOK, HeldOK, OwnOrGone
<1>13. RateOK(w)'
  BY <1>2, <1>3, <1>5, <1>8, Zenon DEF RateOK, SeenReview
<1>14. MemoryOK(w)'
  BY <1>10, <1>11, <1>12, <1>13, Zenon DEF MemoryOK
<1>15. "rate" \in Labels
  BY DEF Labels
<1> QED BY <1>1, <1>2, <1>6, <1>7, <1>14, <1>15, Types, ReadStep, Zenon

(* w writes row r of reviews inside its transaction; nobody else has. *)
LEMMA WriteReview ==
  ASSUME IInv, NEW w \in Workers, pc[w] = "rate", pc' = [pc EXCEPT ![w] = "save"],
         UNCHANGED <<queue_items, reviews, item_seq, txn_items, memory>>,
         NEW r \in ReviewIds, NEW row \in Review,
         txn_reviews' = [txn_reviews EXCEPT ![w][r] = row],
         row.user = user[w], reviews[r] # Nil => Subject(row) = Subject(reviews[r]),
         \A x \in Workers \ {w} : txn_reviews[x][r] = Nil,
         review_seq' \in 0..MaxReviews,
         \A q \in ReviewIds : q > review_seq' => q > review_seq /\ q # r
  PROVE  IInv'
<1> DEFINE tr == [txn_reviews[w] EXCEPT ![r] = row]
<1>1. /\ TablesOK /\ WritesOK /\ WorkersOK /\ FreshItems /\ FreshReviews /\ WrittenOnce
      /\ MemoryOK(w)
  BY Zenon DEF IInv
<1>2. /\ queue_items' = queue_items /\ reviews' = reviews /\ item_seq' = item_seq
      /\ txn_items' = txn_items
      /\ user' = user /\ params' = params /\ found' = found /\ loaded' = loaded
  BY DEF memory
<1>3. pc[w] \in {"review", "rate", "save"}
  OBVIOUS
<1>4. /\ Len(loaded[w]) = 1 /\ params[w].form # <<>> /\ user[w] \in Users
  BY <1>1, <1>3, HeldItem, Zenon
<1>5. pc'[w] = "save"
  BY <1>1, Zenon DEF WorkersOK
<1>6. PlaceOK(w)' /\ pc'[w] \in TxnLabels /\ pc'[w] # "delete"
  BY <1>2, <1>4, <1>5, FormPlace
<1>7. txn_reviews[w] \in [ReviewIds -> Review \cup {Nil}]
  BY <1>1, Zenon DEF WritesOK
<1>8. tr \in [ReviewIds -> Review \cup {Nil}]
  BY <1>7
<1>9. txn_reviews' = [txn_reviews EXCEPT ![w] = tr]
  BY <1>1 DEF WritesOK
<1>10. tr[r] = row /\ \A q \in ReviewIds : q # r => tr[q] = txn_reviews[w][q]
  BY <1>7, Zenon
<1> HIDE DEF tr
<1>11. txn_reviews'[w] = tr /\ \A x \in Workers : x # w => txn_reviews'[x] = txn_reviews[x]
  BY <1>1, <1>9, Zenon DEF WritesOK
<1>12. FreshReviews'
  <2> SUFFICES ASSUME NEW q \in ReviewIds, q > review_seq'
               PROVE  reviews'[q] = Nil /\ \A x \in Workers : txn_reviews'[x][q] = Nil
    BY Zenon DEF FreshReviews
  <2>1. q > review_seq /\ q # r
    OBVIOUS
  <2>2. reviews[q] = Nil /\ \A x \in Workers : txn_reviews[x][q] = Nil
    BY <1>1, <2>1, Zenon DEF FreshReviews
  <2>3. tr[q] = Nil
    BY <1>10, <2>1, <2>2, Zenon
  <2> QED BY <1>2, <1>11, <2>2, <2>3, Zenon
<1>13. WrittenOnce'
  <2> SUFFICES ASSUME NEW q \in ReviewIds, NEW x \in Workers, NEW y \in Workers,
                      txn_reviews'[x][q] # Nil, txn_reviews'[y][q] # Nil
               PROVE  x = y
    BY Zenon DEF WrittenOnce
  <2>1. CASE q = r
    <3>1. ASSUME NEW z \in Workers, txn_reviews'[z][r] # Nil PROVE z = w
      <4> SUFFICES ASSUME z # w PROVE FALSE
        OBVIOUS
      <4>1. txn_reviews'[z] = txn_reviews[z] /\ txn_reviews[z][r] = Nil
        BY <1>11, Zenon
      <4> QED BY <3>1, <4>1
    <3> QED BY <2>1, <3>1
  <2>2. CASE q # r
    <3>a. ASSUME NEW z \in Workers PROVE txn_reviews'[z][q] = txn_reviews[z][q]
      <4>1. CASE z = w
        BY <1>10, <1>11, <2>2, <4>1
      <4>2. CASE z # w
        BY <1>11, <4>2, Zenon
      <4> QED BY <4>1, <4>2, Zenon
    <3>1. txn_reviews[x][q] # Nil /\ txn_reviews[y][q] # Nil
      BY <3>a
    <3> QED BY <1>1, <3>1, Zenon DEF WrittenOnce
  <2> QED BY <2>1, <2>2, Zenon
<1>14. TablesOK' /\ FreshItems'
  BY <1>1, <1>2, Zenon DEF TablesOK, FreshItems
<1>15. Kept(w)
  BY <1>2, SameKept, Zenon
<1>16. PendingOK(w)'
  BY <1>1, <1>2, <1>6, Zenon DEF MemoryOK, PendingOK
<1>17. WrittenOK(w)'
  <2> SUFFICES ASSUME NEW q \in ReviewIds, tr[q] # Nil
               PROVE  /\ tr[q].user = user[w]
                      /\ reviews[q] # Nil => Subject(tr[q]) = Subject(reviews[q])
    BY <1>2, <1>6, <1>11, Zenon DEF WrittenOK, Subject
  <2>1. CASE q = r
    BY <1>10, <2>1, Zenon
  <2>2. CASE q # r
    <3>1. tr[q] = txn_reviews[w][q]
      BY <1>10, <2>2, Zenon
    <3> QED BY <1>1, <3>1, Zenon DEF MemoryOK, WrittenOK
  <2> QED BY <2>1, <2>2, Zenon
<1>18. HeldOK(w)'
  BY <1>1, <1>2, <1>6, Zenon DEF MemoryOK, HeldOK, OwnOrGone
<1>19. RateOK(w)'
  BY <1>5 DEF RateOK
<1>20. MemoryOK(w)'
  BY <1>6, <1>16, <1>17, <1>18, <1>19, Zenon DEF MemoryOK
<1>21. Holds(w, "save", user[w], params[w], found[w], loaded[w])
  BY <1>1, <1>2, Same, Zenon DEF Holds
<1>22. /\ txn_items[w] \in [ItemIds -> Rankings \cup {Nil}]
       /\ txn_items' = [txn_items EXCEPT ![w] = txn_items[w]]
  BY <1>1, <1>2, SameWrites, Zenon
<1>23. /\ "save" \in Labels /\ user[w] \in Users \cup {Nil} /\ params[w] \in Params
       /\ found[w] \in Nat \cup {Nil} /\ loaded[w] \in Seq(Memory)
  BY <1>1, Types DEF Labels
<1> QED
  BY <1>8, <1>9, <1>12, <1>13, <1>14, <1>15, <1>20, <1>21, <1>22, <1>23, StepIInv

(* The review w's transaction sees under an id. *)
LEMMA SeenFacts ==
  ASSUME TablesOK, WritesOK, FreshReviews, NEW w \in Workers, MemoryOK(w),
         NEW r \in ReviewIds, SeenReview(w, r) # Nil
  PROVE  /\ SeenReview(w, r) \in Review
         /\ reviews[r] # Nil => Subject(SeenReview(w, r)) = Subject(reviews[r])
         /\ ~(r > review_seq)
<1>1. txn_reviews[w][r] \in Review \cup {Nil} /\ reviews[r] \in Review \cup {Nil}
  BY Zenon DEF WritesOK, TablesOK
<1>2. SeenReview(w, r) = txn_reviews[w][r] \/ SeenReview(w, r) = reviews[r]
  BY Zenon DEF SeenReview
<1>3. SeenReview(w, r) \in Review
  BY <1>1, <1>2
<1>4. reviews[r] # Nil => Subject(SeenReview(w, r)) = Subject(reviews[r])
  BY Zenon DEF MemoryOK, WrittenOK, SeenReview
<1>5. ASSUME r > review_seq PROVE FALSE
  <2>1. reviews[r] = Nil /\ txn_reviews[w][r] = Nil
    BY <1>5, Zenon DEF FreshReviews
  <2> QED BY <1>2, <2>1, Zenon
<1> QED BY <1>3, <1>4, <1>5, Zenon

LEMMA RatingIInv ==
  ASSUME IInv, NEW w \in Workers, rating(w)
  PROVE  IInv'
<1> DEFINE n == Head(params[w].form).rating
           ToSave == /\ pc' = [pc EXCEPT ![w] = "save"]
                     /\ UNCHANGED <<queue_items, reviews, item_seq, txn_items, memory>>
<1>1. TablesOK /\ WritesOK /\ WorkersOK /\ FreshItems /\ FreshReviews /\ MemoryOK(w)
  BY Zenon DEF IInv
<1>2. pc[w] = "rate"
  BY Zenon DEF rating
<1>3. pc[w] \in {"review", "rate", "save"}
  BY <1>2
<1>4. /\ Len(loaded[w]) = 1 /\ params[w].form # <<>> /\ user[w] \in Users
      /\ loaded[w][1].video \in Videos
  BY <1>1, <1>3, HeldItem, Zenon
<1>5. n \in FormRatings
  BY <1>1, <1>4, EntryFacts, Zenon
<1>6. review_seq \in Nat /\ review_seq <= MaxReviews /\ MaxReviews \in Nat
  BY <1>1, Numbers, Zenon
<1>7. CASE Rollback(w)
  BY <1>7, RollbackIInv, Zenon
<1>8. CASE /\ found[w] # Nil /\ ~ReviewLocked(w, found[w])
           /\ txn_reviews' = [txn_reviews EXCEPT ![w][found[w]] =
                                Rated(SeenReview(w, found[w]), n)]
           /\ ToSave /\ review_seq' = review_seq
  <2>1. PICK r : r = found[w]
    OBVIOUS
  <2>2. r \in ReviewIds /\ SeenReview(w, r) # Nil /\ SeenReview(w, r).user = user[w]
    BY <1>1, <1>2, <1>8, <2>1, Zenon DEF MemoryOK, RateOK
  <2>3. /\ SeenReview(w, r) \in Review /\ ~(r > review_seq)
        /\ reviews[r] # Nil => Subject(SeenReview(w, r)) = Subject(reviews[r])
    BY <1>1, <2>2, SeenFacts, Zenon
  <2>4. PICK row : row = Rated(SeenReview(w, r), n)
    OBVIOUS
  <2>5. row \in Review /\ row.user = user[w] /\ Subject(row) = Subject(SeenReview(w, r))
    BY <1>5, <2>2, <2>3, <2>4, RatedFacts
  <2>6. reviews[r] # Nil => Subject(row) = Subject(reviews[r])
    BY <2>3, <2>5, Zenon
  <2>7. txn_reviews' = [txn_reviews EXCEPT ![w][r] = row]
    BY <1>8, <2>1, <2>4, Zenon
  <2>8. \A x \in Workers \ {w} : txn_reviews[x][r] = Nil
    BY <1>8, <2>1, Zenon DEF ReviewLocked
  <2>9. review_seq' \in 0..MaxReviews
    BY <1>6, <1>8
  <2>10. \A q \in ReviewIds : q > review_seq' => q > review_seq /\ q # r
    BY <1>8, <2>3, Zenon
  <2>11. /\ pc' = [pc EXCEPT ![w] = "save"]
         /\ UNCHANGED <<queue_items, reviews, item_seq, txn_items, memory>>
    BY <1>8, Zenon
  <2> HIDE DEF n, ToSave
  <2> QED BY <1>2, <2>2, <2>5, <2>6, <2>7, <2>8, <2>9, <2>10, <2>11, WriteReview
<1>9. CASE /\ ValidRating(n) /\ review_seq < MaxReviews /\ review_seq' = review_seq + 1
           /\ txn_reviews' = [txn_reviews EXCEPT ![w][review_seq + 1] =
                [user |-> user[w], video |-> loaded[w][1].video, rating |-> n]]
           /\ ToSave
  <2>1. PICK r : r = review_seq + 1
    OBVIOUS
  <2>2. PICK row : row = [user |-> user[w], video |-> loaded[w][1].video, rating |-> n]
    OBVIOUS
  <2>3. r \in ReviewIds /\ r > review_seq
    BY <1>6, <1>9, <2>1 DEF ReviewIds
  <2>4. n \in Ratings
    BY <1>9 DEF ValidRating, Ratings
  <2>5. row \in Review /\ row.user = user[w]
    BY <1>4, <2>2, <2>4 DEF Review
  <2>6. reviews[r] = Nil /\ \A x \in Workers : txn_reviews[x][r] = Nil
    BY <1>1, <2>3, Zenon DEF FreshReviews
  <2>7. reviews[r] # Nil => Subject(row) = Subject(reviews[r])
    BY <2>6, Zenon
  <2>8. txn_reviews' = [txn_reviews EXCEPT ![w][r] = row]
    BY <1>9, <2>1, <2>2, Zenon
  <2>9. review_seq' \in 0..MaxReviews
    BY <1>6, <1>9
  <2>10. \A q \in ReviewIds : q > review_seq' => q > review_seq /\ q # r
    BY <1>6, <1>9, <2>1 DEF ReviewIds
  <2>11. /\ pc' = [pc EXCEPT ![w] = "save"]
         /\ UNCHANGED <<queue_items, reviews, item_seq, txn_items, memory>>
    BY <1>9, Zenon
  <2>12. \A x \in Workers \ {w} : txn_reviews[x][r] = Nil
    BY <2>6, Zenon
  <2> HIDE DEF n, ToSave
  <2> QED BY <1>2, <2>3, <2>5, <2>7, <2>8, <2>9, <2>10, <2>11, <2>12, WriteReview
<1>10. CASE ToSave /\ txn_reviews' = txn_reviews /\ review_seq' = review_seq
  <2>1. /\ queue_items' = queue_items /\ reviews' = reviews /\ item_seq' = item_seq
        /\ txn_items' = txn_items /\ txn_reviews' = txn_reviews
        /\ user' = user /\ params' = params /\ found' = found /\ loaded' = loaded
        /\ pc' = [pc EXCEPT ![w] = "save"]
    BY <1>10 DEF memory
  <2>2. UNCHANGED <<tables, txn>>
    BY <1>10, <2>1 DEF tables, txn
  <2>3. pc'[w] = "save"
    BY <1>1, <2>1, Zenon DEF WorkersOK
  <2>4. PlaceOK(w)' /\ pc'[w] \in TxnLabels /\ pc'[w] # "delete"
    BY <1>4, <2>1, <2>3, FormPlace
  <2>5. PendingOK(w)' /\ WrittenOK(w)'
    BY <1>1, <2>1, <2>4, StillPending
  <2>6. HeldOK(w)'
    BY <1>1, <2>1, <2>4, Zenon DEF MemoryOK, HeldOK, OwnOrGone
  <2>7. RateOK(w)'
    BY <2>3 DEF RateOK
  <2>8. MemoryOK(w)'
    BY <2>4, <2>5, <2>6, <2>7, Zenon DEF MemoryOK
  <2>9. Holds(w, "save", user[w], params[w], found[w], loaded[w])
    BY <1>1, <2>1, Same, Zenon DEF Holds
  <2>10. "save" \in Labels
    BY DEF Labels
  <2> QED BY <1>1, <2>2, <2>8, <2>9, <2>10, Types, ReadStep, Zenon
<1> QED BY <1>7, <1>8, <1>9, <1>10, Zenon DEF rating

(* Tables that stay the same keep what is known of them. *)
LEMMA SameTables ==
  ASSUME TablesOK, FreshItems, FreshReviews, WrittenOnce,
         queue_items' = queue_items, reviews' = reviews, item_seq' = item_seq,
         review_seq' = review_seq, txn_reviews' = txn_reviews
  PROVE  TablesOK' /\ FreshItems' /\ FreshReviews' /\ WrittenOnce'
<1>1. TablesOK' /\ FreshItems'
  BY Zenon DEF TablesOK, FreshItems
<1>2. FreshReviews' /\ WrittenOnce'
  BY Zenon DEF FreshReviews, WrittenOnce
<1> QED BY <1>1, <1>2, Zenon

(* The row of the form is done with; ti is what w has now written to queue_items. *)
LEMMA NextEntryIInv ==
  ASSUME IInv, NEW w \in Workers, pc[w] = "save",
         pc' = [pc EXCEPT ![w] = "form"], user' = user,
         params' = [params EXCEPT ![w] = Given(Nil, Nil, Nil, Tail(params[w].form))],
         found' = [found EXCEPT ![w] = Nil], loaded' = [loaded EXCEPT ![w] = <<>>],
         UNCHANGED <<tables, txn_reviews>>,
         NEW ti \in [ItemIds -> Rankings \cup {Nil}],
         txn_items' = [txn_items EXCEPT ![w] = ti],
         \A j \in ItemIds : ti[j] # Nil =>
           \/ txn_items[w][j] # Nil
           \/ queue_items[j] # Nil /\ queue_items[j].user = user[w]
  PROVE  IInv'
<1>1. /\ TablesOK /\ WritesOK /\ WorkersOK /\ FreshItems /\ FreshReviews /\ WrittenOnce
      /\ MemoryOK(w)
  BY Zenon DEF IInv
<1>2. /\ queue_items' = queue_items /\ reviews' = reviews /\ item_seq' = item_seq
      /\ review_seq' = review_seq /\ txn_reviews' = txn_reviews
  BY DEF tables
<1>3. PICK p : p = Given(Nil, Nil, Nil, Tail(params[w].form))
  OBVIOUS
<1>4. user[w] \in Users /\ params[w].form # <<>>
  <2>1. pc[w] \in {"review", "rate", "save"}
    OBVIOUS
  <2> QED BY <1>1, <2>1, HeldItem, Zenon
<1>5. p \in Params
  BY <1>1, <1>3, <1>4, EntryFacts
<1>6. Holds(w, "form", user[w], p, Nil, <<>>)
  BY <1>1, <1>3, Same, Zenon DEF Holds
<1>7. pc'[w] = "form" /\ loaded'[w] = <<>> /\ user'[w] = user[w]
  BY <1>1, <1>6, Zenon DEF Holds, WorkersOK
<1>8. PlaceOK(w)' /\ pc'[w] \in TxnLabels /\ pc'[w] # "delete"
  BY <1>4, <1>7, FormPlace
<1>9. HeldOK(w)' /\ RateOK(w)'
  BY <1>7 DEF HeldOK, RateOK
<1>10. txn_items'[w] = ti
  BY <1>1, Zenon DEF WritesOK
<1>11. PendingOK(w)'
  <2> SUFFICES ASSUME NEW j \in ItemIds, ti[j] # Nil
               PROVE  queue_items[j] # Nil /\ queue_items[j].user = user[w]
    BY <1>2, <1>7, <1>8, <1>10, Zenon DEF PendingOK
  <2> QED BY <1>1, Zenon DEF MemoryOK, PendingOK
<1>12. WrittenOK(w)'
  BY <1>1, <1>2, <1>7, <1>8, Zenon DEF MemoryOK, WrittenOK, Subject
<1>13. MemoryOK(w)'
  BY <1>8, <1>9, <1>11, <1>12, Zenon DEF MemoryOK
<1>14. TablesOK' /\ FreshItems' /\ FreshReviews' /\ WrittenOnce'
  BY <1>1, <1>2, SameTables, Zenon
<1>15. Kept(w)
  BY <1>2, SameKept, Zenon
<1>16. /\ txn_reviews[w] \in [ReviewIds -> Review \cup {Nil}]
       /\ txn_reviews' = [txn_reviews EXCEPT ![w] = txn_reviews[w]]
  BY <1>1, <1>2, SameWrites, Zenon
<1>17. "form" \in Labels /\ user[w] \in Users \cup {Nil} /\ Nil \in Nat \cup {Nil}
  BY <1>4 DEF Labels
<1> QED BY <1>5, <1>6, <1>13, <1>14, <1>15, <1>16, <1>17, NoTypes, StepIInv

LEMMA UpdateAttributesIInv ==
  ASSUME IInv, NEW w \in Workers, update_attributes(w)
  PROVE  IInv'
<1> DEFINE i == loaded[w][1].id
           n == Head(params[w].form).ranking
           NextEntry ==
             /\ params' = [params EXCEPT ![w] = Given(Nil, Nil, Nil, Tail(params[w].form))]
             /\ found' = [found EXCEPT ![w] = Nil]
             /\ loaded' = [loaded EXCEPT ![w] = <<>>]
             /\ pc' = [pc EXCEPT ![w] = "form"]
             /\ UNCHANGED <<tables, txn_reviews, user>>
<1>1. WritesOK /\ WorkersOK /\ MemoryOK(w)
  BY Zenon DEF IInv
<1>2. pc[w] = "save"
  BY Zenon DEF update_attributes
<1>3. i \in ItemIds /\ OwnOrGone(i, user[w])
  <2>1. pc[w] \in {"review", "rate", "save"}
    BY <1>2
  <2> QED BY <1>1, <2>1, HeldItem, Zenon
<1>4. txn_items[w] \in [ItemIds -> Rankings \cup {Nil}]
  BY <1>1, Zenon DEF WritesOK
<1>5. CASE Rollback(w)
  BY <1>5, RollbackIInv, Zenon
<1>6. CASE NextEntry /\ txn_items' = txn_items
  <2>1. txn_items' = [txn_items EXCEPT ![w] = txn_items[w]]
    BY <1>1, <1>6, SameWrites, Zenon
  <2>2. \A j \in ItemIds : txn_items[w][j] # Nil =>
          \/ txn_items[w][j] # Nil
          \/ queue_items[j] # Nil /\ queue_items[j].user = user[w]
    OBVIOUS
  <2> QED BY <1>2, <1>4, <1>6, <2>1, <2>2, NextEntryIInv
<1>7. CASE /\ ValidRanking(n) /\ FitsRanking(n)
           /\ txn_items' = [txn_items EXCEPT ![w][i] = IF queue_items[i] = Nil THEN Nil ELSE n]
           /\ NextEntry
  <2>1. PICK m : m = IF queue_items[i] = Nil THEN Nil ELSE n
    OBVIOUS
  <2>2. m \in Rankings \cup {Nil} /\ (m # Nil => queue_items[i] # Nil)
    BY <1>7, <2>1 DEF FitsRanking
  <2>3. PICK ti : ti = [txn_items[w] EXCEPT ![i] = m]
    OBVIOUS
  <2>4. ti \in [ItemIds -> Rankings \cup {Nil}]
    BY <1>3, <1>4, <2>2, <2>3
  <2>5. txn_items' = [txn_items EXCEPT ![w][i] = m]
    BY <1>7, <2>1, Zenon
  <2>6. txn_items' = [txn_items EXCEPT ![w] = ti]
    BY <2>3, <2>5
  <2>7. ti[i] = m /\ \A j \in ItemIds : j # i => ti[j] = txn_items[w][j]
    BY <1>3, <1>4, <2>3, Zenon
  <2>8. ASSUME NEW j \in ItemIds, ti[j] # Nil
        PROVE  \/ txn_items[w][j] # Nil
               \/ queue_items[j] # Nil /\ queue_items[j].user = user[w]
    <3>1. CASE j # i
      BY <2>7, <2>8, <3>1, Zenon
    <3>2. CASE j = i
      <4>1. queue_items[i] # Nil
        BY <2>2, <2>7, <2>8, <3>2
      <4> QED BY <1>3, <3>2, <4>1, Zenon DEF OwnOrGone
    <3> QED BY <3>1, <3>2, Zenon
  <2>9. \A j \in ItemIds : ti[j] # Nil =>
          \/ txn_items[w][j] # Nil
          \/ queue_items[j] # Nil /\ queue_items[j].user = user[w]
    BY <2>8, Zenon
  <2>10. NextEntry
    BY <1>7, Zenon
  <2> HIDE DEF i, n
  <2> QED BY <1>2, <2>4, <2>6, <2>9, <2>10, NextEntryIInv
<1> QED BY <1>5, <1>6, <1>7, Zenon DEF update_attributes

-----------------------------------------------------------------------------
(* What a COMMIT does to the rows of queue_items. *)
LEMMA CommitItems ==
  ASSUME TablesOK, WritesOK, NEW w \in Workers, MemoryOK(w), commit(w)
  PROVE  /\ queue_items' \in [ItemIds -> QueueItem \cup {Nil}]
         /\ \A i \in ItemIds : queue_items[i] = Nil => queue_items'[i] = Nil
         /\ \A i \in ItemIds : queue_items[i] # Nil =>
              /\ queue_items'[i] # Nil
              /\ queue_items'[i].user = queue_items[i].user
              /\ queue_items'[i].video = queue_items[i].video
         /\ \A i \in ItemIds : queue_items'[i] # queue_items[i] => queue_items[i].user = user[w]
<1>1. queue_items' = [i \in ItemIds |-> IF txn_items[w][i] = Nil THEN queue_items[i]
                                        ELSE Ranked(queue_items[i], txn_items[w][i])]
  BY Zenon DEF commit
<1>2. ASSUME NEW i \in ItemIds, txn_items[w][i] = Nil PROVE queue_items'[i] = queue_items[i]
  BY <1>1, <1>2, Zenon
<1>3. ASSUME NEW i \in ItemIds, txn_items[w][i] # Nil
      PROVE  /\ queue_items[i] # Nil /\ queue_items[i].user = user[w]
             /\ queue_items'[i] \in QueueItem /\ queue_items'[i] # Nil
             /\ queue_items'[i].user = queue_items[i].user
             /\ queue_items'[i].video = queue_items[i].video
  <2>1. queue_items'[i] = Ranked(queue_items[i], txn_items[w][i])
    BY <1>1, <1>3, Zenon
  <2>2. queue_items[i] # Nil /\ queue_items[i].user = user[w]
    BY <1>3, Zenon DEF MemoryOK, PendingOK
  <2>3. queue_items[i] \in QueueItem
    BY <2>2, Zenon DEF TablesOK
  <2>4. txn_items[w][i] \in Rankings \cup {Nil}
    BY Zenon DEF WritesOK
  <2>5. queue_items'[i] \in QueueItem
    BY <1>3, <2>1, <2>3, <2>4 DEF Ranked, QueueItem
  <2>6. /\ queue_items'[i].user = queue_items[i].user
        /\ queue_items'[i].video = queue_items[i].video
    BY <2>1 DEF Ranked
  <2>7. queue_items'[i] # Nil
    BY <2>5, NilAssumption
  <2> QED BY <2>2, <2>5, <2>6, <2>7, Zenon
<1>4. ASSUME NEW i \in ItemIds PROVE queue_items'[i] \in QueueItem \cup {Nil}
  <2>1. queue_items[i] \in QueueItem \cup {Nil}
    BY Zenon DEF TablesOK
  <2> QED BY <1>2, <1>3, <2>1
<1>5. queue_items' \in [ItemIds -> QueueItem \cup {Nil}]
  BY <1>1, <1>4
<1>6. \A i \in ItemIds : queue_items[i] = Nil => queue_items'[i] = Nil
  BY <1>2, <1>3, Zenon
<1>7. \A i \in ItemIds : queue_items[i] # Nil =>
        /\ queue_items'[i] # Nil
        /\ queue_items'[i].user = queue_items[i].user
        /\ queue_items'[i].video = queue_items[i].video
  BY <1>2, <1>3
<1>8. \A i \in ItemIds : queue_items'[i] # queue_items[i] => queue_items[i].user = user[w]
  BY <1>2, <1>3, Zenon
<1> QED BY <1>5, <1>6, <1>7, <1>8, Zenon

(* ... and to the rows of reviews. *)
LEMMA CommitReviews ==
  ASSUME TablesOK, WritesOK, NEW w \in Workers, MemoryOK(w), commit(w)
  PROVE  /\ reviews' \in [ReviewIds -> Review \cup {Nil}]
         /\ \A r \in ReviewIds : txn_reviews[w][r] = Nil => reviews'[r] = reviews[r]
         /\ \A r \in ReviewIds : txn_reviews[w][r] # Nil =>
              reviews'[r] = txn_reviews[w][r] /\ reviews'[r].user = user[w]
         /\ \A r \in ReviewIds : reviews[r] # Nil =>
              /\ reviews'[r] # Nil
              /\ Subject(reviews'[r]) = Subject(reviews[r])
<1>1. reviews' = [r \in ReviewIds |-> SeenReview(w, r)]
  BY Zenon DEF commit
<1>2. ASSUME NEW r \in ReviewIds, txn_reviews[w][r] = Nil PROVE reviews'[r] = reviews[r]
  BY <1>1, <1>2, Zenon DEF SeenReview
<1>3. ASSUME NEW r \in ReviewIds, txn_reviews[w][r] # Nil
      PROVE  /\ reviews'[r] = txn_reviews[w][r] /\ reviews'[r].user = user[w]
             /\ reviews[r] # Nil => Subject(reviews'[r]) = Subject(reviews[r])
  <2>1. reviews'[r] = txn_reviews[w][r]
    BY <1>1, <1>3, Zenon DEF SeenReview
  <2>2. /\ txn_reviews[w][r].user = user[w]
        /\ reviews[r] # Nil => Subject(txn_reviews[w][r]) = Subject(reviews[r])
    BY <1>3, Zenon DEF MemoryOK, WrittenOK
  <2> QED BY <2>1, <2>2
<1>4. ASSUME NEW r \in ReviewIds PROVE reviews'[r] \in Review \cup {Nil}
  <2>1. reviews[r] \in Review \cup {Nil} /\ txn_reviews[w][r] \in Review \cup {Nil}
    BY Zenon DEF TablesOK, WritesOK
  <2> QED BY <1>2, <1>3, <2>1
<1>5. reviews' \in [ReviewIds -> Review \cup {Nil}]
  BY <1>1, <1>4
<1>6. ASSUME NEW r \in ReviewIds, reviews[r] # Nil
      PROVE  reviews'[r] # Nil /\ Subject(reviews'[r]) = Subject(reviews[r])
  <2>1. CASE txn_reviews[w][r] = Nil
    <3>1. reviews'[r] = reviews[r]
      BY <1>2, <2>1, Zenon
    <3> QED BY <1>6, <3>1
  <2>2. CASE txn_reviews[w][r] # Nil
    BY <1>3, <1>6, <2>2
  <2> QED BY <2>1, <2>2, Zenon
<1> QED BY <1>2, <1>3, <1>5, <1>6, Zenon

(* A review about the same subject has the same author. *)
LEMMA SubjectFacts ==
  ASSUME NEW a, NEW b, Subject(a) = Subject(b)
  PROVE  a.user = b.user /\ a.video = b.video
BY DEF Subject

(* The form is used up. *)
LEMMA CommitIInv ==
  ASSUME IInv, NEW w \in Workers, commit(w)
  PROVE  IInv'
<1>1. /\ TablesOK /\ WritesOK /\ WorkersOK /\ FreshItems /\ FreshReviews /\ WrittenOnce
      /\ MemoryOK(w)
  BY Zenon DEF IInv
<1>2. /\ pc[w] = "form" /\ ClearTxn(w) /\ pc' = [pc EXCEPT ![w] = "load"]
      /\ item_seq' = item_seq /\ review_seq' = review_seq /\ UNCHANGED memory
  BY Zenon DEF commit
<1>3. user' = user /\ params' = params /\ found' = found /\ loaded' = loaded
  BY <1>2 DEF memory
<1>4. /\ queue_items' \in [ItemIds -> QueueItem \cup {Nil}]
      /\ \A i \in ItemIds : queue_items[i] = Nil => queue_items'[i] = Nil
      /\ \A i \in ItemIds : queue_items[i] # Nil =>
           queue_items'[i] # Nil /\ queue_items'[i].user = queue_items[i].user
  BY <1>1, CommitItems, Zenon
<1>5. /\ reviews' \in [ReviewIds -> Review \cup {Nil}]
      /\ \A r \in ReviewIds : txn_reviews[w][r] = Nil => reviews'[r] = reviews[r]
      /\ \A r \in ReviewIds : reviews[r] # Nil =>
           reviews'[r] # Nil /\ Subject(reviews'[r]) = Subject(reviews[r])
  BY <1>1, CommitReviews, Zenon
<1>6. /\ txn_items'[w] = NoItemWrites /\ txn_reviews'[w] = NoReviewWrites
      /\ \A x \in Workers : x # w => txn_reviews'[x] = txn_reviews[x]
  BY <1>1, <1>2, Zenon DEF ClearTxn, WritesOK
<1>7. /\ \A i \in ItemIds : txn_items'[w][i] = Nil
      /\ \A r \in ReviewIds : txn_reviews'[w][r] = Nil
  BY <1>6, Zenon DEF NoItemWrites, NoReviewWrites
<1>8. TablesOK'
  BY <1>1, <1>2, <1>4, <1>5, Zenon DEF TablesOK
<1>9. FreshItems'
  BY <1>1, <1>2, <1>4, Zenon DEF FreshItems
<1>10. FreshReviews'
  <2> SUFFICES ASSUME NEW r \in ReviewIds, r > review_seq
               PROVE  reviews'[r] = Nil /\ \A x \in Workers : txn_reviews'[x][r] = Nil
    BY <1>2, Zenon DEF FreshReviews
  <2>1. reviews[r] = Nil /\ \A x \in Workers : txn_reviews[x][r] = Nil
    BY <1>1, Zenon DEF FreshReviews
  <2>2. reviews'[r] = Nil
    BY <1>5, <2>1, Zenon
  <2> QED BY <1>6, <1>7, <2>1, <2>2, Zenon
<1>11. WrittenOnce'
  <2> SUFFICES ASSUME NEW r \in ReviewIds, NEW x \in Workers, NEW y \in Workers,
                      txn_reviews'[x][r] # Nil, txn_reviews'[y][r] # Nil
               PROVE  x = y
    BY Zenon DEF WrittenOnce
  <2>1. txn_reviews[x][r] # Nil /\ txn_reviews[y][r] # Nil
    BY <1>6, <1>7, Zenon
  <2> QED BY <1>1, <2>1, Zenon DEF WrittenOnce
<1>12. Kept(w)
  <2>1. 0..item_seq \subseteq 0..item_seq' /\ 1..item_seq \subseteq 1..item_seq'
    BY <1>2, Zenon
  <2>2. ASSUME NEW i \in 1..item_seq, queue_items'[i] # Nil
        PROVE  queue_items[i] # Nil /\ queue_items'[i].user = queue_items[i].user
    BY <1>1, <1>4, <2>2, HandedOut, Zenon
  <2>3. ASSUME NEW r \in ReviewIds, reviews[r] # Nil
        PROVE  /\ reviews'[r] # Nil /\ reviews'[r].user = reviews[r].user
               /\ Subject(reviews'[r]) = Subject(reviews[r])
    <3>1. reviews'[r] # Nil /\ Subject(reviews'[r]) = Subject(reviews[r])
      BY <1>5, <2>3, Zenon
    <3> QED BY <3>1, SubjectFacts
  <2>4. ASSUME NEW x \in Workers \ {w}, NEW r \in ReviewIds, txn_reviews[x][r] # Nil
        PROVE  reviews'[r] = reviews[r]
    <3>1. x \in Workers /\ x # w
      OBVIOUS
    <3>2. txn_reviews[w][r] = Nil
      BY <1>1, <2>4, <3>1, Zenon DEF WrittenOnce
    <3> QED BY <1>5, <3>2, Zenon
  <2> QED BY <1>4, <2>1, <2>2, <2>3, <2>4, Zenon DEF Kept
<1>13. pc'[w] = "load"
  BY <1>1, <1>2, Zenon DEF WorkersOK
<1>14. pc[w] \notin LoadedLabels /\ user[w] \in Users
  BY <1>1, <1>2 DEF LoadedLabels, MemoryOK, PlaceOK, UserOK
<1>15. loaded[w] = <<>>
  BY <1>1, <1>14, Zenon DEF MemoryOK, PlaceOK, EmptyOK
<1>16. PlaceOK(w)'
  <2>1. UserOK(w)' /\ VideoOK(w)' /\ CountOK(w)' /\ NamedOK(w)'
    BY <1>3, <1>13, <1>14 DEF UserOK, VideoOK, CountOK, NamedOK
  <2>2. RenumberOK(w)' /\ EntryOK(w)' /\ EmptyOK(w)'
    BY <1>3, <1>13, <1>15 DEF RenumberOK, EntryOK, EmptyOK
  <2> QED BY <2>1, <2>2, Zenon DEF PlaceOK
<1>17. pc'[w] \notin {"rate", "delete"} /\ loaded'[w] = <<>>
  BY <1>3, <1>13, <1>15
<1>18. MemoryOK(w)'
  BY <1>7, <1>16, <1>17, BareMemory, Zenon
<1>19. Holds(w, "load", user[w], params[w], found[w], loaded[w])
  BY <1>1, <1>2, <1>3, Same, Zenon DEF Holds
<1>20. /\ txn_items' = [txn_items EXCEPT ![w] = NoItemWrites]
       /\ txn_reviews' = [txn_reviews EXCEPT ![w] = NoReviewWrites]
  BY <1>2, Zenon DEF ClearTxn
<1>21. /\ "load" \in Labels /\ user[w] \in Users \cup {Nil} /\ params[w] \in Params
       /\ found[w] \in Nat \cup {Nil} /\ loaded[w] \in Seq(Memory)
  BY <1>1, Types DEF Labels
<1> QED BY <1>8, <1>9, <1>10, <1>11, <1>12, <1>18, <1>19, <1>20, <1>21, NoWritesTypes, StepIInv

-----------------------------------------------------------------------------
(* reviews#create *)

LEMMA ReviewSaveIInv ==
  ASSUME IInv, NEW w \in Workers, review_save(w)
  PROVE  IInv'
<1>1. /\ TablesOK /\ WritesOK /\ WorkersOK /\ FreshItems /\ FreshReviews /\ WrittenOnce
      /\ MemoryOK(w)
  BY Zenon DEF IInv
<1>2. /\ pc[w] = "submit" /\ EndRequest(w)
      /\ queue_items' = queue_items /\ item_seq' = item_seq /\ UNCHANGED txn
  BY Zenon DEF review_save
<1>3. txn_items' = txn_items /\ txn_reviews' = txn_reviews
  BY <1>2 DEF txn
<1>4. pc[w] \notin TxnLabels
  BY <1>2 DEF TxnLabels
<1>5. CASE review_seq' = review_seq /\ reviews' = reviews
  <2>1. UNCHANGED <<tables, txn>>
    BY <1>2, <1>5 DEF tables
  <2> QED BY <1>2, <1>4, <2>1, EndIInv, Zenon
<1>6. CASE /\ ValidRating(params[w].rating) /\ review_seq < MaxReviews
           /\ review_seq' = review_seq + 1
           /\ reviews' = [reviews EXCEPT ![review_seq + 1] =
                [user |-> user[w], video |-> params[w].video, rating |-> params[w].rating]]
  <2>1. PICK r : r = review_seq + 1
    OBVIOUS
  <2>2. PICK row : row = [user |-> user[w], video |-> params[w].video, rating |-> params[w].rating]
    OBVIOUS
  <2>3. reviews' = [reviews EXCEPT ![r] = row] /\ review_seq' = r
    BY <1>6, <2>1, <2>2, Zenon
  <2>4. review_seq \in Nat /\ review_seq <= MaxReviews /\ MaxReviews \in Nat
    BY <1>1, Numbers, Zenon
  <2>5. r \in ReviewIds /\ r > review_seq /\ r \in 0..MaxReviews
    BY <1>6, <2>1, <2>4 DEF ReviewIds
  <2>6. \A q \in ReviewIds : q > r => q > review_seq /\ q # r
    BY <2>1, <2>4 DEF ReviewIds
  <2>7. user[w] \in Users /\ params[w].video \in Videos
    BY <1>1, <1>2 DEF MemoryOK, PlaceOK, UserOK, VideoOK
  <2>8. row \in Review
    BY <1>6, <2>2, <2>7 DEF Review, ValidRating, Ratings
  <2>9. reviews \in [ReviewIds -> Review \cup {Nil}]
    BY <1>1, Zenon DEF TablesOK
  <2>10. /\ reviews' \in [ReviewIds -> Review \cup {Nil}]
         /\ \A q \in ReviewIds : q # r => reviews'[q] = reviews[q]
    BY <2>3, <2>8, <2>9
  <2>11. reviews[r] = Nil /\ \A x \in Workers : txn_reviews[x][r] = Nil
    BY <1>1, <2>5, Zenon DEF FreshReviews
  <2>12. TablesOK'
    BY <1>1, <1>2, <2>3, <2>5, <2>10, Zenon DEF TablesOK
  <2>13. FreshReviews'
    <3> SUFFICES ASSUME NEW q \in ReviewIds, q > r
                 PROVE  reviews'[q] = Nil /\ \A x \in Workers : txn_reviews[x][q] = Nil
      BY <1>3, <2>3, Zenon DEF FreshReviews
    <3>1. q > review_seq /\ q # r
      BY <2>6, Zenon
    <3> QED BY <1>1, <2>10, <3>1, Zenon DEF FreshReviews
  <2>14. FreshItems' /\ WrittenOnce'
    BY <1>1, <1>2, <1>3, Zenon DEF FreshItems, WrittenOnce
  <2>15. Kept(w)
    <3>1. ASSUME NEW q \in ReviewIds, reviews[q] # Nil PROVE reviews'[q] = reviews[q]
      BY <2>10, <2>11, <3>1, Zenon
    <3>2. ASSUME NEW x \in Workers \ {w}, NEW q \in ReviewIds, txn_reviews[x][q] # Nil
          PROVE  reviews'[q] = reviews[q]
      <4>1. q # r
        BY <2>11, <3>2, Zenon
      <4> QED BY <2>10, <4>1, Zenon
    <3> QED BY <1>2, <3>1, <3>2, Zenon DEF Kept
  <2>16. MemoryOK(w)'
    BY <1>1, <1>2, <1>3, <1>4, NothingPending, IdleMemory, Zenon
  <2>17. Holds(w, "idle", Nil, NoParams, Nil, <<>>)
    BY <1>2, EndHolds, Zenon
  <2>18. /\ txn_items[w] \in [ItemIds -> Rankings \cup {Nil}]
         /\ txn_reviews[w] \in [ReviewIds -> Review \cup {Nil}]
         /\ txn_items' = [txn_items EXCEPT ![w] = txn_items[w]]
         /\ txn_reviews' = [txn_reviews EXCEPT ![w] = txn_reviews[w]]
    BY <1>1, <1>3, SameWrites, Zenon
  <2> QED
    BY <2>12, <2>13, <2>14, <2>15, <2>16, <2>17, <2>18, IdleTypes, StepIInv, Zenon
<1> QED BY <1>5, <1>6, Zenon DEF review_save

-----------------------------------------------------------------------------
LEMMA NextIInv ==
  ASSUME IInv, [Next]_vars
  PROVE  IInv'
<1>1. ASSUME NEW w \in Workers, Request(w) PROVE IInv'
  BY <1>1, RequestIInv, Zenon
<1>2. ASSUME NEW w \in Workers, Step(w) PROVE IInv'
  <2>1. CASE count(w) \/ create_new_queue_item(w) \/ include(w) \/ delete(w)
    BY <2>1, CountIInv, InsertIInv, IncludeIInv, DeleteIInv, Zenon
  <2>2. CASE load_queue_items(w) \/ renumber(w)
    BY <2>2, LoadIInv, RenumberIInv, Zenon
  <2>3. CASE find_item(w) \/ find_review(w) \/ rating(w)
    BY <2>3, FindItemIInv, FindReviewIInv, RatingIInv, Zenon
  <2>4. CASE update_attributes(w) \/ commit(w) \/ review_save(w)
    BY <2>4, UpdateAttributesIInv, CommitIInv, ReviewSaveIInv, Zenon
  <2> QED BY <1>2, <2>1, <2>2, <2>3, <2>4, Zenon DEF Step
<1>3. ASSUME NEW w \in Workers, deadlock_detected(w) \/ unicorn_timeout(w) PROVE IInv'
  <2>1. Rollback(w)
    BY <1>3, Zenon DEF deadlock_detected, unicorn_timeout
  <2> QED BY <2>1, RollbackIInv, Zenon
<1>4. CASE UNCHANGED vars
  <2>1. /\ UNCHANGED <<tables, txn>> /\ pc' = pc /\ user' = user /\ params' = params
        /\ found' = found /\ loaded' = loaded
    BY <1>4 DEF vars, memory
  <2>2. /\ queue_items' = queue_items /\ reviews' = reviews /\ item_seq' = item_seq
        /\ review_seq' = review_seq /\ txn_items' = txn_items /\ txn_reviews' = txn_reviews
    BY <2>1 DEF tables, txn
  <2>3. TablesOK' /\ WritesOK' /\ WorkersOK'
    BY <2>1, <2>2, Zenon DEF IInv, TablesOK, WritesOK, WorkersOK
  <2>4. FreshItems' /\ FreshReviews' /\ WrittenOnce'
    BY <2>2, Zenon DEF IInv, FreshItems, FreshReviews, WrittenOnce
  <2>5. ASSUME NEW w \in Workers PROVE MemoryOK(w)'
    <3>1. PlaceOK(w)'
      BY <2>1, <2>2, Zenon DEF IInv, MemoryOK, PlaceOK, UserOK, VideoOK, CountOK, NamedOK,
                               RenumberOK, EntryOK, EmptyOK
    <3>2. HeldOK(w)'
      BY <2>1, <2>2, Zenon DEF IInv, MemoryOK, HeldOK, OwnOrGone
    <3>3. RateOK(w)'
      BY <2>1, <2>2, Zenon DEF IInv, MemoryOK, RateOK, SeenReview
    <3>4. PendingOK(w)'
      BY <2>1, <2>2, Zenon DEF IInv, MemoryOK, PendingOK
    <3>5. WrittenOK(w)'
      BY <2>1, <2>2, Zenon DEF IInv, MemoryOK, WrittenOK, Subject
    <3> QED BY <3>1, <3>2, <3>3, <3>4, <3>5, Zenon DEF MemoryOK
  <2> QED BY <2>3, <2>4, <2>5, Zenon DEF IInv
<1> QED BY <1>1, <1>2, <1>3, <1>4, Zenon DEF Next

LEMMA Invariance == Spec => []IInv
BY InitIInv, NextIInv, PTL DEF Spec
=============================================================================
