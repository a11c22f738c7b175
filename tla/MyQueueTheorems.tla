-------------------------- MODULE MyQueueTheorems ---------------------------
(***************************************************************************)
(* Proofs about MyQueue, part 5: what the invariant says of the tables, of *)
(* the steps that change a queue or a review, and of the rankings users    *)
(* type.                                                                   *)
(***************************************************************************)
EXTENDS MyQueueForm

(* The tables hold rows of their columns' types, and a worker's memory what the *)
(* handlers put there: create never computes a ranking that overflows, and a    *)
(* form that names a ranking out of range is rolled back.                        *)
THEOREM TypeCorrect == Spec => []TypeOK
<1>1. ASSUME IInv PROVE TypeOK
  <2>1. TablesOK /\ WritesOK /\ WorkersOK
    BY <1>1, Zenon DEF IInv
  <2> QED BY <2>1, Zenon DEF TypeOK, TablesOK, WritesOK, WorkersOK
<1> QED BY <1>1, Invariance, PTL

(* A ranking pending in update_queue's transaction belongs to a row that still  *)
(* exists and that the worker's user owns.                                       *)
THEOREM PendingLive == Spec => []PendingItemsLive
<1>1. ASSUME IInv PROVE PendingItemsLive
  <2>1. ASSUME NEW w \in Workers PROVE PendingOK(w)
    BY <1>1, Zenon DEF IInv, MemoryOK
  <2> QED BY <2>1, Zenon DEF PendingOK, PendingItemsLive
<1> QED BY <1>1, Invariance, PTL

-----------------------------------------------------------------------------
(* A step of w. *)
Moves(w) == Request(w) \/ Step(w) \/ deadlock_detected(w) \/ unicorn_timeout(w)

(* What the statements write: four of them queue_items, two of them reviews. *)
LEMMA Writers ==
  ASSUME NEW w \in Workers, Moves(w)
  PROVE  /\ \/ queue_items' = queue_items /\ item_seq' = item_seq
            \/ create_new_queue_item(w) \/ delete(w) \/ renumber(w) \/ commit(w)
         /\ reviews' = reviews \/ commit(w) \/ review_save(w)
<1> DEFINE Quiet == queue_items' = queue_items /\ item_seq' = item_seq /\ reviews' = reviews
<1>1. ASSUME UNCHANGED tables PROVE Quiet
  BY <1>1 DEF tables
<1>2. ASSUME Request(w) PROVE UNCHANGED tables
  BY <1>2, Zenon DEF Request, create, destroy, update_queue, review_create
<1>3. ASSUME Rollback(w) PROVE UNCHANGED tables
  BY <1>3, Zenon DEF Rollback
<1>4. ASSUME count(w) \/ include(w) \/ load_queue_items(w) \/ find_review(w)
      PROVE  UNCHANGED tables
  BY <1>4, Zenon DEF count, include, load_queue_items, find_review
<1>5. ASSUME find_item(w) PROVE UNCHANGED tables
  BY <1>3, <1>5, Zenon DEF find_item
<1>6. ASSUME rating(w) PROVE Quiet
  <2>1. Rollback(w) \/ Quiet
    BY <1>6, Zenon DEF rating
  <2> QED BY <1>1, <1>3, <2>1, Zenon
<1>7. ASSUME update_attributes(w) PROVE UNCHANGED tables
  BY <1>3, <1>7, Zenon DEF update_attributes
<1>8. ASSUME deadlock_detected(w) \/ unicorn_timeout(w) PROVE UNCHANGED tables
  BY <1>3, <1>8, Zenon DEF deadlock_detected, unicorn_timeout
<1>9. ASSUME create_new_queue_item(w) \/ delete(w) \/ renumber(w) PROVE reviews' = reviews
  BY <1>9, Zenon DEF create_new_queue_item, delete, renumber
<1>10. ASSUME review_save(w) PROVE queue_items' = queue_items /\ item_seq' = item_seq
  BY <1>10, Zenon DEF review_save
<1> HIDE DEF Quiet
<1>11. \/ Quiet \/ create_new_queue_item(w) \/ delete(w) \/ renumber(w)
       \/ commit(w) \/ review_save(w)
  BY <1>1, <1>2, <1>4, <1>5, <1>6, <1>7, <1>8, Zenon DEF Moves, Step
<1> QED BY <1>9, <1>10, <1>11, Zenon DEF Quiet

(* A step that changes something is a step of some worker. *)
LEMMA SomeoneMoves ==
  ASSUME [Next]_vars, queue_items' # queue_items \/ reviews' # reviews
  PROVE  \E w \in Workers : Moves(w)
<1>1. ~UNCHANGED vars
  BY DEF vars, tables
<1> QED BY <1>1, Zenon DEF Next, Moves

(* A renumbering that changes a row: the row it is at, which gets its position. *)
LEMMA RenumberRow ==
  ASSUME IInv, NEW w \in Workers, renumber(w), NEW i \in ItemIds,
         queue_items'[i] # queue_items[i]
  PROVE  /\ queue_items[i] # Nil /\ queue_items[i].user = user[w]
         /\ i = loaded[w][found[w]].id /\ queue_items'[i].ranking = found[w]
         /\ found[w] \in 1..item_seq
         /\ <<pc'[w], found'[w]>> # <<pc[w], found[w]>>
<1>0. TablesOK /\ WorkersOK
  BY Zenon DEF IInv
<1>1. pc[w] = "renumber"
  BY Zenon DEF renumber
<1>2. PICK j, k : j = loaded[w][found[w]].id /\ k = found[w]
  OBVIOUS
<1>3. /\ j \in ItemIds /\ k \in Rankings /\ k \in 1..item_seq /\ k \in Nat
      /\ OwnOrGone(j, user[w])
  BY <1>1, <1>2, RenumberFacts, Zenon
<1>4. queue_items' # queue_items
  BY Zenon
<1>5. queue_items' = WithRanking(j, k)
  BY <1>2, <1>4, Zenon DEF renumber
<1>6. i = j
  <2>1. j # i => WithRanking(j, k)[i] = queue_items[i]
    BY <1>0, <1>3, WithRankingFacts, Zenon
  <2> QED BY <1>5, <2>1
<1>7. queue_items[i] # Nil
  <2>1. queue_items[j] = Nil => WithRanking(j, k) = queue_items
    BY Zenon DEF WithRanking
  <2> QED BY <1>4, <1>5, <1>6, <2>1
<1>8. queue_items'[i].ranking = k
  <2>1. WithRanking(j, k)[j].ranking = k
    BY <1>0, <1>3, <1>6, <1>7, WithRankingFacts
  <2> QED BY <1>5, <1>6, <2>1
<1>9. queue_items[i].user = user[w]
  BY <1>3, <1>6, <1>7, Zenon DEF OwnOrGone
<1>10. <<pc'[w], found'[w]>> # <<pc[w], found[w]>>
  <2>1. CASE EndRequest(w)
    <3>1. pc'[w] = "idle"
      BY <1>0, <2>1, Zenon DEF EndRequest, WorkersOK
    <3> QED BY <1>1, <3>1
  <2>2. CASE found' = [found EXCEPT ![w] = k + 1]
    <3>1. found'[w] = k + 1
      BY <1>0, <2>2, Zenon DEF WorkersOK
    <3>2. k + 1 # k
      BY <1>3
    <3> QED BY <1>2, <3>1, <3>2
  <2> QED BY <1>2, <2>1, <2>2, Zenon DEF renumber
<1> QED BY <1>2, <1>3, <1>6, <1>7, <1>8, <1>9, <1>10, Zenon

(* An insert that changes a row: a new one, of w's user. *)
LEMMA InsertRow ==
  ASSUME IInv, NEW w \in Workers, create_new_queue_item(w), NEW i \in ItemIds,
         queue_items'[i] # queue_items[i]
  PROVE  /\ queue_items[i] = Nil /\ i \notin 1..item_seq
         /\ queue_items'[i].user = user[w] /\ queue_items'[i].ranking \in 1..item_seq'
         /\ pc'[w] # pc[w]
<1>1. TablesOK /\ WorkersOK /\ FreshItems /\ MemoryOK(w)
  BY Zenon DEF IInv
<1>2. PICK row : row = [user |-> user[w], video |-> params[w].video,
                        ranking |-> RankingAfter(found[w])]
  OBVIOUS
<1>3. PICK j : j = item_seq + 1
  OBVIOUS
<1>4. queue_items' # queue_items
  BY Zenon
<1>5. pc[w] = "insert" /\ queue_items' = [queue_items EXCEPT ![j] = row] /\ item_seq' = j
  BY <1>2, <1>3, <1>4, Zenon DEF create_new_queue_item
<1>6. \A q \in ItemIds : q # j => queue_items'[q] = queue_items[q]
  BY <1>1, <1>5, Zenon DEF TablesOK
<1>7. i = j
  BY <1>6, Zenon
<1>8. queue_items'[i] = row
  BY <1>1, <1>5, <1>7, Zenon DEF TablesOK
<1>9. item_seq \in Nat
  BY <1>1, Numbers, Zenon
<1>10. i > item_seq /\ i \notin 1..item_seq
  BY <1>3, <1>7, <1>9
<1>11. queue_items[i] = Nil
  BY <1>1, <1>10, Zenon DEF FreshItems
<1>12. found[w] \in 0..item_seq
  BY <1>1, <1>5, Zenon DEF MemoryOK, PlaceOK, CountOK
<1>13. row.user = user[w] /\ row.ranking = found[w] + 1
  BY <1>2 DEF RankingAfter
<1>14. row.ranking \in 1..item_seq'
  BY <1>3, <1>5, <1>9, <1>12, <1>13
<1>15. pc'[w] = "idle"
  BY <1>1, Zenon DEF create_new_queue_item, EndRequest, WorkersOK
<1> QED BY <1>5, <1>8, <1>10, <1>11, <1>13, <1>14, <1>15

(* A delete that changes a row. *)
LEMMA DeleteRow ==
  ASSUME IInv, NEW w \in Workers, delete(w), NEW i \in ItemIds,
         queue_items'[i] # queue_items[i]
  PROVE  /\ queue_items[i] # Nil /\ queue_items'[i] = Nil /\ queue_items[i].user = user[w]
         /\ pc'[w] # pc[w]
<1>1. TablesOK /\ WorkersOK /\ MemoryOK(w)
  BY Zenon DEF IInv
<1>2. /\ pc[w] = "delete" /\ pc' = [pc EXCEPT ![w] = "load"]
      /\ queue_items' = [queue_items EXCEPT ![params[w].id] = Nil]
  BY Zenon DEF delete
<1>3. queue_items'[i] = IF i = params[w].id THEN Nil ELSE queue_items[i]
  BY <1>1, <1>2, Zenon DEF TablesOK
<1>4. i = params[w].id /\ queue_items'[i] = Nil /\ queue_items[i] # Nil
  BY <1>3, Zenon
<1>5. OwnOrGone(i, user[w])
  BY <1>1, <1>2, <1>4, Zenon DEF MemoryOK, HeldOK
<1>6. pc'[w] = "load"
  BY <1>1, <1>2, Zenon DEF WorkersOK
<1>7. queue_items[i].user = user[w]
  BY <1>4, <1>5, Zenon DEF OwnOrGone
<1> QED BY <1>2, <1>4, <1>6, <1>7

(* Every change of a row of queue_items: w made it, for its own user. *)
LEMMA RowChange ==
  ASSUME IInv, [Next]_vars, NEW i \in ItemIds, queue_items'[i] # queue_items[i]
  PROVE  \E w \in Workers :
           /\ <<pc'[w], found'[w]>> # <<pc[w], found[w]>>
           /\ queue_items[i] # Nil => queue_items[i].user = user[w]
           /\ queue_items'[i] # Nil => queue_items'[i].user = user[w]
           /\ queue_items[i] # Nil /\ queue_items'[i] # Nil
                => queue_items'[i].video = queue_items[i].video
           /\ queue_items[i] = Nil => i \notin 1..item_seq
<1>0. queue_items' # queue_items
  BY Zenon
<1>1. PICK w \in Workers : Moves(w)
  BY <1>0, SomeoneMoves, Zenon
<1>2. create_new_queue_item(w) \/ delete(w) \/ renumber(w) \/ commit(w)
  BY <1>0, <1>1, Writers, Zenon
<1>3. ASSUME pc'[w] # pc[w] PROVE <<pc'[w], found'[w]>> # <<pc[w], found[w]>>
  BY <1>3
<1>4. CASE create_new_queue_item(w)
  <2>1. /\ queue_items[i] = Nil /\ i \notin 1..item_seq /\ queue_items'[i].user = user[w]
        /\ pc'[w] # pc[w]
    BY <1>4, InsertRow, Zenon
  <2> QED BY <1>3, <2>1, Zenon
<1>5. CASE delete(w)
  <2>1. /\ queue_items[i] # Nil /\ queue_items'[i] = Nil /\ queue_items[i].user = user[w]
        /\ pc'[w] # pc[w]
    BY <1>5, DeleteRow, Zenon
  <2> QED BY <1>3, <2>1, Zenon
<1>6. CASE renumber(w)
  <2>1. /\ queue_items[i] # Nil /\ queue_items[i].user = user[w]
        /\ <<pc'[w], found'[w]>> # <<pc[w], found[w]>>
    BY <1>6, RenumberRow, Zenon
  <2>2. /\ queue_items'[i].user = queue_items[i].user
        /\ queue_items'[i].video = queue_items[i].video
    BY <1>6, <2>1, RenumberItems, Zenon
  <2>3. queue_items'[i].user = user[w]
    BY <2>1, <2>2
  <2> QED BY <2>1, <2>2, <2>3, Zenon
<1>7. CASE commit(w)
  <2>1. TablesOK /\ WritesOK /\ WorkersOK /\ MemoryOK(w)
    BY Zenon DEF IInv
  <2>2. queue_items[i] # Nil
    BY <1>7, <2>1, CommitItems, Zenon
  <2>3. /\ queue_items'[i].user = queue_items[i].user
        /\ queue_items'[i].video = queue_items[i].video
        /\ queue_items[i].user = user[w]
    BY <1>7, <2>1, <2>2, CommitItems, Zenon
  <2>4. pc[w] = "form" /\ pc'[w] = "load"
    BY <1>7, <2>1, Zenon DEF commit, WorkersOK
  <2>5. pc'[w] # pc[w]
    BY <2>4
  <2>6. queue_items'[i].user = user[w]
    BY <2>3
  <2> QED BY <1>3, <2>2, <2>3, <2>5, <2>6, Zenon
<1> QED BY <1>2, <1>4, <1>5, <1>6, <1>7, Zenon

(* A row of queue_items is only inserted, renumbered or deleted by a request of *)
(* its user, and keeps its user and its video.                                   *)
THEOREM OwnerOnly == Spec => OnlyOwnerTouches
<1> DEFINE A == \A i \in ItemIds :
                  queue_items'[i] # queue_items[i] =>
                    \E w \in Workers :
                      /\ <<pc'[w], found'[w]>> # <<pc[w], found[w]>>
                      /\ \A row \in {queue_items[i], queue_items'[i]} \ {Nil} :
                           row.user = user[w]
                      /\ queue_items[i] # Nil /\ queue_items'[i] # Nil
                           => queue_items'[i].video = queue_items[i].video
<1>1. ASSUME IInv, [Next]_vars PROVE A
  <2> SUFFICES ASSUME NEW i \in ItemIds, queue_items'[i] # queue_items[i]
               PROVE  \E w \in Workers :
                        /\ <<pc'[w], found'[w]>> # <<pc[w], found[w]>>
                        /\ \A row \in {queue_items[i], queue_items'[i]} \ {Nil} :
                             row.user = user[w]
                        /\ queue_items[i] # Nil /\ queue_items'[i] # Nil
                             => queue_items'[i].video = queue_items[i].video
    OBVIOUS
  <2>1. PICK w \in Workers :
          /\ <<pc'[w], found'[w]>> # <<pc[w], found[w]>>
          /\ queue_items[i] # Nil => queue_items[i].user = user[w]
          /\ queue_items'[i] # Nil => queue_items'[i].user = user[w]
          /\ queue_items[i] # Nil /\ queue_items'[i] # Nil
               => queue_items'[i].video = queue_items[i].video
    BY <1>1, RowChange, Zenon
  <2>2. \A row \in {queue_items[i], queue_items'[i]} \ {Nil} : row.user = user[w]
    BY <2>1
  <2> QED BY <2>1, <2>2, Zenon
<1> QED
  BY <1>1, Invariance, PTL DEF Spec, OnlyOwnerTouches

(* An id whose item was removed never has a row again, whatever statements were *)
(* under way when it was removed.                                                *)
THEOREM NoResurrection == Spec => RemovedStaysRemoved
<1> DEFINE A == \A i \in 1..item_seq : queue_items[i] = Nil => queue_items'[i] = Nil
<1>1. ASSUME IInv, [Next]_vars PROVE A
  <2> SUFFICES ASSUME NEW i \in 1..item_seq, queue_items[i] = Nil, queue_items'[i] # Nil
               PROVE  FALSE
    OBVIOUS
  <2>1. i \in ItemIds
    BY <1>1, HandedOut, Zenon DEF IInv
  <2>2. queue_items'[i] # queue_items[i]
    OBVIOUS
  <2> QED BY <1>1, <2>1, <2>2, RowChange, Zenon
<1> QED
  BY <1>1, Invariance, PTL DEF Spec, RemovedStaysRemoved

-----------------------------------------------------------------------------
(* Every change of a row of reviews: w made it, for its own user. *)
LEMMA ReviewChange ==
  ASSUME IInv, [Next]_vars, NEW r \in ReviewIds, reviews'[r] # reviews[r]
  PROVE  \E w \in Workers :
           /\ pc'[w] # pc[w]
           /\ reviews'[r] # Nil /\ reviews'[r].user = user[w]
           /\ reviews[r] # Nil => /\ reviews[r].user = user[w]
                                 /\ reviews'[r].video = reviews[r].video
<1>0. reviews' # reviews
  BY Zenon
<1>1. PICK w \in Workers : Moves(w)
  BY <1>0, SomeoneMoves, Zenon
<1>2. commit(w) \/ review_save(w)
  BY <1>0, <1>1, Writers, Zenon
<1>3. TablesOK /\ WritesOK /\ WorkersOK /\ FreshReviews /\ MemoryOK(w)
  BY Zenon DEF IInv
<1>4. CASE commit(w)
  <2>1. txn_reviews[w][r] # Nil
    BY <1>3, <1>4, CommitReviews, Zenon
  <2>2. reviews'[r] = txn_reviews[w][r] /\ reviews'[r].user = user[w]
    BY <1>3, <1>4, <2>1, CommitReviews, Zenon
  <2>3. reviews[r] # Nil => Subject(reviews'[r]) = Subject(reviews[r])
    BY <1>3, <1>4, CommitReviews, Zenon
  <2>4. ASSUME reviews[r] # Nil
        PROVE  reviews[r].user = user[w] /\ reviews'[r].video = reviews[r].video
    <3>1. reviews'[r].user = reviews[r].user /\ reviews'[r].video = reviews[r].video
      BY <2>3, <2>4, SubjectFacts
    <3> QED BY <2>2, <3>1
  <2>5. pc[w] = "form" /\ pc'[w] = "load"
    BY <1>3, <1>4, Zenon DEF commit, WorkersOK
  <2>6. pc'[w] # pc[w] /\ reviews'[r] # Nil
    BY <2>1, <2>2, <2>5
  <2> QED BY <2>2, <2>4, <2>6, Zenon
<1>5. CASE review_save(w)
  <2>1. PICK q, row : /\ q = review_seq + 1
                      /\ row = [user |-> user[w], video |-> params[w].video,
                                rating |-> params[w].rating]
    OBVIOUS
  <2>2. /\ pc[w] = "submit" /\ EndRequest(w) /\ reviews' = [reviews EXCEPT ![q] = row]
        /\ ValidRating(params[w].rating)
    BY <1>0, <1>5, <2>1, Zenon DEF review_save
  <2>3. \A s \in ReviewIds : reviews'[s] = IF s = q THEN row ELSE reviews[s]
    BY <1>3, <2>2, Zenon DEF TablesOK
  <2>4. r = q /\ reviews'[r] = row
    BY <2>3, Zenon
  <2>5. review_seq \in Nat
    BY <1>3, Numbers, Zenon
  <2>6. r > review_seq
    BY <2>1, <2>4, <2>5
  <2>7. reviews[r] = Nil
    BY <1>3, <2>6, Zenon DEF FreshReviews
  <2>8. pc'[w] = "idle"
    BY <1>3, <2>2, Zenon DEF EndRequest, WorkersOK
  <2>9. pc'[w] # pc[w]
    BY <2>2, <2>8
  <2>10. reviews'[r].user = user[w]
    BY <2>1, <2>4
  <2>11. reviews'[r] # Nil
    BY <2>4, <2>7
  <2> QED BY <2>7, <2>9, <2>10, <2>11, Zenon
<1> QED BY <1>2, <1>4, <1>5, Zenon

(* A review is written only by a request of its author, is never removed and    *)
(* keeps its author and its video, although rating= looks the review up a        *)
(* statement before it writes it and commits it several statements later.        *)
THEOREM AuthorsOnly == Spec => OnlyAuthorReviews
<1> DEFINE A == \A r \in ReviewIds :
                  reviews'[r] # reviews[r] =>
                    \E w \in Workers :
                      /\ pc'[w] # pc[w]
                      /\ reviews'[r] # Nil /\ reviews'[r].user = user[w]
                      /\ reviews[r] # Nil => /\ reviews[r].user = user[w]
                                            /\ reviews'[r].video = reviews[r].video
<1>1. ASSUME IInv, [Next]_vars PROVE A
  BY <1>1, ReviewChange, Zenon
<1> QED
  BY <1>1, Invariance, PTL DEF Spec, OnlyAuthorReviews

-----------------------------------------------------------------------------
(* StrayRankingsRepaired.  It is inductive relative to IInv: a commit, which    *)
(* alone writes rankings from outside, goes on to "load"; a load takes all of   *)
(* the user's items into memory, with positions within 1..item_seq; a           *)
(* renumbering that passes an item has written its position.                    *)

(* x's memory is as it was. *)
Stays(x) ==
  pc'[x] = pc[x] /\ user'[x] = user[x] /\ found'[x] = found[x] /\ loaded'[x] = loaded[x]

(* A worker's step leaves the memory of the others alone. *)
LEMMA OthersStay ==
  ASSUME WorkersOK, NEW w \in Workers, NEW x \in Workers, x # w, Moves(w)
  PROVE  Stays(x)
<1>1. ASSUME EndRequest(w) PROVE Stays(x)
  BY <1>1, Zenon DEF EndRequest, WorkersOK, Stays
<1>2. ASSUME Rollback(w) PROVE Stays(x)
  BY <1>1, <1>2, Zenon DEF Rollback
<1>3. ASSUME UNCHANGED memory, NEW l, pc' = [pc EXCEPT ![w] = l] PROVE Stays(x)
  <2>1. user' = user /\ found' = found /\ loaded' = loaded
    BY <1>3 DEF memory
  <2> QED BY <1>3, <2>1, Zenon DEF WorkersOK, Stays
<1>4. ASSUME Request(w) PROVE Stays(x)
  <2>1. PICK l, u : /\ pc' = [pc EXCEPT ![w] = l] /\ user' = [user EXCEPT ![w] = u]
                    /\ found' = found /\ loaded' = loaded
    BY <1>4, Zenon DEF Request, create, destroy, update_queue, review_create
  <2> QED BY <2>1, Zenon DEF WorkersOK, Stays
<1>5. ASSUME count(w) PROVE Stays(x)
  BY <1>5, Zenon DEF count, WorkersOK, Stays
<1>6. ASSUME create_new_queue_item(w) \/ review_save(w) PROVE Stays(x)
  BY <1>1, <1>6, Zenon DEF create_new_queue_item, review_save
<1>7. ASSUME include(w) PROVE Stays(x)
  BY <1>3, <1>7, Zenon DEF include
<1>8. ASSUME delete(w) \/ commit(w) PROVE Stays(x)
  <2>1. UNCHANGED memory /\ pc' = [pc EXCEPT ![w] = "load"]
    BY <1>8, Zenon DEF delete, commit
  <2> QED BY <1>3, <2>1, Zenon
<1>9. ASSUME load_queue_items(w) PROVE Stays(x)
  <2>1. \/ EndRequest(w)
        \/ \E f : /\ loaded' = [loaded EXCEPT ![w] = f] /\ found' = [found EXCEPT ![w] = 1]
                  /\ pc' = [pc EXCEPT ![w] = "renumber"] /\ user' = user
    BY <1>9, Zenon DEF load_queue_items
  <2> QED BY <1>1, <2>1, Zenon DEF WorkersOK, Stays
<1>10. ASSUME renumber(w) PROVE Stays(x)
  <2>1. \/ EndRequest(w)
        \/ \E f : /\ found' = [found EXCEPT ![w] = f]
                  /\ pc' = pc /\ user' = user /\ loaded' = loaded
    BY <1>10, Zenon DEF renumber
  <2> QED BY <1>1, <2>1, Zenon DEF WorkersOK, Stays
<1>11. ASSUME find_item(w) PROVE Stays(x)
  <2>1. \/ Rollback(w)
        \/ pc' = pc /\ user' = user /\ found' = found /\ loaded' = loaded
        \/ \E f : /\ loaded' = [loaded EXCEPT ![w] = f]
                  /\ pc' = [pc EXCEPT ![w] = "review"] /\ user' = user /\ found' = found
    BY <1>11, Zenon DEF find_item
  <2> QED BY <1>2, <2>1, Zenon DEF WorkersOK, Stays
<1>12. ASSUME find_review(w) PROVE Stays(x)
  <2>1. \E f : /\ found' = [found EXCEPT ![w] = f] /\ pc' = [pc EXCEPT ![w] = "rate"]
               /\ user' = user /\ loaded' = loaded
    BY <1>12, Zenon DEF find_review
  <2> QED BY <2>1, Zenon DEF WorkersOK, Stays
<1>13. ASSUME rating(w) PROVE Stays(x)
  <2>1. CASE Rollback(w)
    BY <1>2, <2>1, Zenon
  <2>2. CASE /\ pc' = [pc EXCEPT ![w] = "save"]
             /\ UNCHANGED <<queue_items, reviews, item_seq, txn_items, memory>>
    <3>1. UNCHANGED memory
      BY <2>2, Zenon
    <3> QED BY <1>3, <2>2, <3>1, Zenon
  <2> QED BY <1>13, <2>1, <2>2, Zenon DEF rating
<1>14. ASSUME update_attributes(w) PROVE Stays(x)
  <2>1. \/ Rollback(w)
        \/ /\ found' = [found EXCEPT ![w] = Nil] /\ loaded' = [loaded EXCEPT ![w] = <<>>]
           /\ pc' = [pc EXCEPT ![w] = "form"] /\ user' = user
    BY <1>14, Zenon DEF update_attributes
  <2> QED BY <1>2, <2>1, Zenon DEF WorkersOK, Stays
<1>15. ASSUME deadlock_detected(w) \/ unicorn_timeout(w) PROVE Stays(x)
  BY <1>2, <1>15, Zenon DEF deadlock_detected, unicorn_timeout
<1> QED BY <1>4, <1>5, <1>6, <1>7, <1>8, <1>9, <1>10, <1>11, <1>12, <1>13, <1>14, <1>15, Zenon
        DEF Moves, Step

(* Without kills, a worker that is normalising can only go on normalising. *)
LEMMA NormaliserSteps ==
  ASSUME ~Timeouts, NEW w \in Workers, pc[w] \in {"load", "renumber"}, Moves(w)
  PROVE  load_queue_items(w) \/ renumber(w)
<1>0. /\ pc[w] # "idle" /\ pc[w] # "rate" /\ pc[w] # "save" /\ pc[w] # "count"
      /\ pc[w] # "insert" /\ pc[w] # "include" /\ pc[w] # "delete" /\ pc[w] # "form"
      /\ pc[w] # "review" /\ pc[w] # "submit"
  OBVIOUS
<1>1. ~Request(w)
  BY <1>0, Zenon DEF Request, create, destroy, update_queue, review_create
<1>2. ~deadlock_detected(w) /\ ~unicorn_timeout(w)
  <2>1. \A y : ~WaitsFor(w, y)
    BY <1>0, Zenon DEF WaitsFor
  <2> QED BY <2>1, Zenon DEF deadlock_detected, unicorn_timeout
<1>3. ~count(w) /\ ~create_new_queue_item(w) /\ ~include(w) /\ ~delete(w)
  BY <1>0, Zenon DEF count, create_new_queue_item, include, delete
<1>4. ~find_item(w) /\ ~find_review(w) /\ ~commit(w) /\ ~review_save(w)
  BY <1>0, Zenon DEF find_item, find_review, commit, review_save
<1>5. ~rating(w) /\ ~update_attributes(w)
  BY <1>0, Zenon DEF rating, update_attributes
<1> QED BY <1>1, <1>2, <1>3, <1>4, <1>5, Zenon DEF Moves, Step

(* A load takes hold of every stray item of its user. *)
LEMMA LoadKeeps ==
  ASSUME IInv, NEW w \in Workers, NEW i \in ItemIds, load_queue_items(w),
         queue_items[i] # Nil, queue_items' = queue_items, item_seq' = item_seq,
         queue_items[i].ranking \notin 1..item_seq, user[w] = queue_items[i].user
  PROVE  WillRenumber(w, i)'
<1>1. TablesOK /\ WorkersOK /\ FreshItems
  BY Zenon DEF IInv
<1>2. i \in OwnItems(user[w])
  BY Zenon DEF OwnItems
<1>3. OwnItems(user[w]) # {}
  BY <1>2, Zenon
<1>4. PICK s \in ByRanking(OwnItems(user[w])) :
        /\ loaded' = [loaded EXCEPT ![w] =
             [k \in DOMAIN s |-> Loaded(s[k], queue_items[s[k]].ranking)]]
        /\ found' = [found EXCEPT ![w] = 1]
        /\ pc' = [pc EXCEPT ![w] = "renumber"]
        /\ user' = user
  BY <1>3, Zenon DEF load_queue_items
<1>5. PICK list : list = [k \in DOMAIN s |-> Loaded(s[k], queue_items[s[k]].ranking)]
  OBVIOUS
<1>6. loaded'[w] = list /\ found'[w] = 1 /\ pc'[w] = "renumber" /\ user'[w] = user[w]
  BY <1>1, <1>4, <1>5, Zenon DEF WorkersOK
<1>7. PICK k \in DOMAIN s : s[k] = i
  BY <1>1, <1>2, ByRankingFacts, Zenon
<1>8. list[k] = Loaded(i, queue_items[i].ranking)
  BY <1>5, <1>7, Zenon
<1>9. list[k].id = i /\ list[k].ranking = queue_items[i].ranking
  BY <1>8 DEF Loaded
<1>10. list \in Seq(Memory) /\ DOMAIN list = DOMAIN s /\ Len(list) \in 0..item_seq
  BY <1>1, <1>3, <1>5, ListFacts, Zenon
<1>11. k \in 1..Len(list) /\ item_seq \in Nat
  BY <1>1, <1>7, <1>10, LenProperties, Numbers
<1>12. k \in 1..item_seq
  BY <1>10, <1>11
<1>13. list[k].ranking # k
  BY <1>9, <1>12
<1>14. k \in found'[w]..Len(loaded'[w])
  BY <1>6, <1>11
<1> QED BY <1>6, <1>9, <1>13, <1>14 DEF WillRenumber

(* A renumbering keeps hold of every stray item it has not reached. *)
LEMMA RenumberKeeps ==
  ASSUME IInv, NEW w \in Workers, NEW i \in ItemIds, renumber(w),
         queue_items[i] # Nil, queue_items'[i] = queue_items[i],
         queue_items[i].ranking \notin 1..item_seq, WillRenumber(w, i)
  PROVE  WillRenumber(w, i)'
<1>1. TablesOK /\ WorkersOK
  BY Zenon DEF IInv
<1>2. pc[w] = "renumber"
  BY Zenon DEF renumber
<1>3. user[w] = queue_items[i].user
  BY Zenon DEF WillRenumber
<1>4. PICK k \in found[w]..Len(loaded[w]) : loaded[w][k].id = i /\ loaded[w][k].ranking # k
  BY <1>2 DEF WillRenumber
<1>5. /\ found[w] \in 1..Len(loaded[w]) /\ found[w] \in Nat /\ Len(loaded[w]) \in Nat
      /\ found[w] \in 1..item_seq /\ found[w] \in Rankings
  BY <1>2, RenumberFacts, Zenon
<1>6. ASSUME k = found[w] PROVE FALSE
  <2>1. queue_items' = WithRanking(i, k)
    BY <1>4, <1>6, Zenon DEF renumber
  <2>2. WithRanking(i, k)[i].ranking = k
    BY <1>1, <1>5, <1>6, WithRankingFacts
  <2> QED BY <1>5, <1>6, <2>1, <2>2
<1>7. found[w] # Len(loaded[w]) /\ k \in (found[w] + 1)..Len(loaded[w])
  BY <1>4, <1>5, <1>6
<1>8. /\ found' = [found EXCEPT ![w] = found[w] + 1]
      /\ pc' = pc /\ user' = user /\ loaded' = loaded
  BY <1>7, Zenon DEF renumber
<1>9. found'[w] = found[w] + 1
  BY <1>1, <1>8, Zenon DEF WorkersOK
<1>10. k \in found'[w]..Len(loaded'[w]) /\ loaded'[w][k].id = i /\ loaded'[w][k].ranking # k
  BY <1>4, <1>7, <1>8, <1>9
<1> QED BY <1>2, <1>3, <1>8, <1>10, Zenon DEF WillRenumber

(* A ranking that a step writes is within range, unless a commit wrote it. *)
LEMMA StrayWritten ==
  ASSUME IInv, NEW w \in Workers, Moves(w), NEW i \in ItemIds,
         queue_items'[i] # queue_items[i], queue_items'[i] # Nil,
         queue_items'[i].ranking \notin 1..item_seq'
  PROVE  WillRenumber(w, i)'
<1>0. queue_items' # queue_items
  BY Zenon
<1>1. create_new_queue_item(w) \/ delete(w) \/ renumber(w) \/ commit(w)
  BY <1>0, Writers, Zenon
<1>2. ~create_new_queue_item(w)
  BY InsertRow, Zenon
<1>3. ~delete(w)
  BY DeleteRow, Zenon
<1>4. ASSUME renumber(w) PROVE FALSE
  <2>1. item_seq' = item_seq
    BY <1>4, Zenon DEF renumber
  <2>2. queue_items'[i].ranking = found[w] /\ found[w] \in 1..item_seq
    BY <1>4, RenumberRow, Zenon
  <2> QED BY <2>1, <2>2
<1>5. ASSUME commit(w) PROVE WillRenumber(w, i)'
  <2>1. TablesOK /\ WritesOK /\ WorkersOK /\ MemoryOK(w)
    BY Zenon DEF IInv
  <2>2. pc' = [pc EXCEPT ![w] = "load"] /\ UNCHANGED memory
    BY <1>5, Zenon DEF commit
  <2>3. pc'[w] = "load"
    BY <2>1, <2>2, Zenon DEF WorkersOK
  <2>4. user' = user
    BY <2>2 DEF memory
  <2>5. queue_items[i] # Nil /\ queue_items[i].user = user[w]
    BY <1>5, <2>1, CommitItems, Zenon
  <2>6. queue_items'[i].user = queue_items[i].user
    BY <1>5, <2>1, <2>5, CommitItems, Zenon
  <2>7. user'[w] = queue_items'[i].user
    BY <2>4, <2>5, <2>6
  <2> QED BY <2>3, <2>7, Zenon DEF WillRenumber
<1> QED BY <1>1, <1>2, <1>3, <1>4, <1>5, Zenon

(* The sequence only goes up. *)
LEMMA SequenceGrows ==
  ASSUME IInv, NEW w \in Workers, Moves(w)
  PROVE  1..item_seq \subseteq 1..item_seq'
<1>1. item_seq \in Nat
  BY Numbers, Zenon DEF IInv
<1>2. item_seq' = item_seq \/ item_seq' = item_seq + 1
  <2>1. ASSUME delete(w) \/ renumber(w) \/ commit(w) PROVE item_seq' = item_seq
    BY <2>1, Zenon DEF delete, renumber, commit
  <2>2. ASSUME create_new_queue_item(w) PROVE item_seq' = item_seq \/ item_seq' = item_seq + 1
    BY <2>2, Zenon DEF create_new_queue_item
  <2> QED BY <2>1, <2>2, Writers, Zenon
<1> QED BY <1>1, <1>2

(* A stray ranking that stays keeps its renumberer. *)
LEMMA StrayKept ==
  ASSUME IInv, ~Timeouts, NEW w \in Workers, Moves(w), NEW i \in ItemIds,
         queue_items'[i] = queue_items[i], queue_items[i] # Nil,
         queue_items[i].ranking \notin 1..item_seq,
         NEW x \in Workers, WillRenumber(x, i)
  PROVE  WillRenumber(x, i)'
<1>1. CASE x # w
  <2>1. WorkersOK
    BY Zenon DEF IInv
  <2>2. Stays(x)
    BY <1>1, <2>1, OthersStay, Zenon
  <2> QED BY <2>2, Zenon DEF WillRenumber, Stays
<1>2. CASE x = w
  <2>1. WillRenumber(w, i)
    BY <1>2, Zenon
  <2>2. pc[w] \in {"load", "renumber"} /\ user[w] = queue_items[i].user
    BY <2>1 DEF WillRenumber
  <2>3. CASE load_queue_items(w)
    <3>1. UNCHANGED tables
      BY <2>3, Zenon DEF load_queue_items
    <3>2. queue_items' = queue_items /\ item_seq' = item_seq
      BY <3>1 DEF tables
    <3> QED BY <1>2, <2>2, <2>3, <3>2, LoadKeeps, Zenon
  <2>4. CASE renumber(w)
    BY <1>2, <2>1, <2>4, RenumberKeeps, Zenon
  <2> QED BY <2>2, <2>3, <2>4, NormaliserSteps, Zenon
<1> QED BY <1>1, <1>2, Zenon

LEMMA StrayStep ==
  ASSUME IInv, StrayRankingsRepaired, [Next]_vars, ~Timeouts
  PROVE  StrayRankingsRepaired'
<1>1. CASE UNCHANGED vars
  <2>1. /\ queue_items' = queue_items /\ item_seq' = item_seq /\ pc' = pc /\ user' = user
        /\ found' = found /\ loaded' = loaded
    BY <1>1 DEF vars, tables, memory
  <2> QED BY <2>1, Zenon DEF StrayRankingsRepaired, WillRenumber
<1>2. ASSUME NEW w \in Workers, Moves(w) PROVE StrayRankingsRepaired'
  <2> SUFFICES ASSUME NEW i \in ItemIds, queue_items'[i] # Nil,
                      queue_items'[i].ranking \notin 1..item_seq'
               PROVE  \E x \in Workers : WillRenumber(x, i)'
    BY Zenon DEF StrayRankingsRepaired, WillRenumber
  <2>1. CASE queue_items'[i] = queue_items[i]
    <3>1. 1..item_seq \subseteq 1..item_seq'
      BY <1>2, SequenceGrows, Zenon
    <3>2. queue_items[i] # Nil /\ queue_items[i].ranking \notin 1..item_seq
      BY <2>1, <3>1
    <3>3. PICK x \in Workers : WillRenumber(x, i)
      BY <3>2, Zenon DEF StrayRankingsRepaired
    <3> QED BY <1>2, <2>1, <3>2, <3>3, StrayKept, Zenon
  <2>2. CASE queue_items'[i] # queue_items[i]
    BY <1>2, <2>2, StrayWritten, Zenon
  <2> QED BY <2>1, <2>2, Zenon
<1> QED BY <1>1, <1>2, Zenon DEF Next, Moves

(* Without kills, a ranking outside 1..(items ever queued) is always one that a *)
(* request in progress will renumber, for any number of workers and forms: when *)
(* no request is in progress, every ranking is in that range.                    *)
THEOREM StrayRepaired ==
  ASSUME ~Timeouts
  PROVE  Spec => []StrayRankingsRepaired
<1>1. Init => StrayRankingsRepaired
  BY Zenon DEF Init, StrayRankingsRepaired
<1>2. IInv /\ StrayRankingsRepaired /\ [Next]_vars => StrayRankingsRepaired'
  BY StrayStep
<1> QED
  BY <1>1, <1>2, Invariance, PTL DEF Spec
=============================================================================
