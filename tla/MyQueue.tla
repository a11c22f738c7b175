------------------------------ MODULE MyQueue ------------------------------
(***************************************************************************)
(* The queue and the reviews of MyFLiX: QueueItemsController,              *)
(* ReviewsController, the models QueueItem and Review, and                 *)
(* User#normalise_queue_item_rankings.                                     *)
(*                                                                         *)
(* Unicorn runs several worker processes over one PostgreSQL database, and *)
(* the handlers are not serialised: the unit of interleaving is the SQL    *)
(* statement.  Each action below is one statement of a handler together    *)
(* with the Ruby that runs up to the next one.  A request that reads and   *)
(* returns without writing (a refused create, a 404, every GET) is a       *)
(* stuttering step and has no action.                                      *)
(***************************************************************************)
EXTENDS Integers, Sequences, FiniteSets

CONSTANTS
  Users,        \* rows of users; every request below is made by one of them
  Videos,       \* rows of videos
  Workers,      \* unicorn worker processes
  MaxItems,     \* largest id that fits queue_items.id
  MaxReviews,   \* largest id that fits reviews.id
  MaxRanking,   \* largest value of the integer column queue_items.ranking
  MaxForm,      \* bound: rows of one submitted queue form
  FormRankings, \* rankings a form row may carry; Nil is text that is no integer
  FormRatings,  \* ratings a form may carry; Nil is the blank option
  Timeouts,     \* does unicorn kill workers that exceed its timeout?
  Nil           \* NULL, no row, no value

ItemIds == 1..MaxItems
ReviewIds == 1..MaxReviews

(* What fits a 4-byte integer column, scaled down. *)
Rankings == (-MaxRanking - 1)..MaxRanking

(* Nil is a rating that was cleared: whatever the column holds outside 1..5. *)
Ratings == (1..5) \cup {Nil}

QueueItem == [user : Users, video : Videos, ranking : Rankings]
Review == [user : Users, video : Videos, rating : Ratings]

(* One row of the form of my_queue. *)
Entry == [id : ItemIds, ranking : FormRankings, rating : FormRatings]

(* A submitted form: the page prints every queue item once. *)
Forms == { f \in UNION { [1..n -> Entry] : n \in 1..MaxForm } :
             \A j, k \in DOMAIN f : f[j].id = f[k].id => j = k }

ASSUME ConstantsAssumption ==
  /\ MaxItems \in Nat /\ MaxReviews \in Nat /\ MaxForm \in Nat
  /\ MaxRanking \in Nat /\ MaxItems <= MaxRanking
  /\ FormRankings \subseteq Int \cup {Nil}
  /\ FormRatings \subseteq Ratings
  /\ Timeouts \in BOOLEAN

ASSUME NilAssumption ==
  /\ Nil \notin Int
  /\ Nil \notin Users
  /\ Nil \notin QueueItem
  /\ Nil \notin Review

VARIABLES
  queue_items,  \* committed table: id -> row or Nil
  reviews,      \* committed table: id -> row or Nil
  item_seq,     \* last id handed out by the sequence of queue_items
  review_seq,   \* last id handed out by the sequence of reviews
  txn_items,    \* worker -> id -> ranking it has written and not committed
  txn_reviews,  \* worker -> id -> review row it has written and not committed
  pc,           \* worker -> the statement it executes next
  user,         \* worker -> current_user
  params,       \* worker -> the request's parameters, the form rows still to be used
  found,        \* worker -> a count, a review id or a position it holds
  loaded        \* worker -> the queue items it has in memory

tables == <<queue_items, reviews, item_seq, review_seq>>
txn == <<txn_items, txn_reviews>>
memory == <<user, params, found, loaded>>
vars == <<tables, txn, pc, memory>>

Labels == { "idle", "count", "insert", "include", "delete", "load", "renumber",
            "form", "review", "rate", "save", "submit" }

(* The parameters of a request; each request uses some of the fields. *)
Given(v, i, n, f) == [video |-> v, id |-> i, rating |-> n, form |-> f]
NoParams == Given(Nil, Nil, Nil, <<>>)

(* The labels of a worker inside the transaction of update_queue_items. *)
TxnLabels == {"form", "review", "rate", "save"}

NoItemWrites == [i \in ItemIds |-> Nil]
NoReviewWrites == [r \in ReviewIds |-> Nil]

Init ==
  /\ queue_items = [i \in ItemIds |-> Nil]
  /\ reviews = [r \in ReviewIds |-> Nil]
  /\ item_seq = 0
  /\ review_seq = 0
  /\ txn_items = [w \in Workers |-> NoItemWrites]
  /\ txn_reviews = [w \in Workers |-> NoReviewWrites]
  /\ pc = [w \in Workers |-> "idle"]
  /\ user = [w \in Workers |-> Nil]
  /\ params = [w \in Workers |-> NoParams]
  /\ found = [w \in Workers |-> Nil]
  /\ loaded = [w \in Workers |-> <<>>]

-----------------------------------------------------------------------------
(* The database. *)

(* user.queue_items: the committed rows of one user. *)
OwnItems(u) == {i \in ItemIds : queue_items[i] # Nil /\ queue_items[i].user = u}

(* Faulty ByRanking: the association has lost its ORDER BY. *)
ByRanking_unordered(S) ==
  {s \in [1..Cardinality(S) -> S] : \A i \in S : \E k \in DOMAIN s : s[k] = i}

(* ORDER BY ranking ASC: rows that tie come in any order. *)
ByRanking(S) ==
  { s \in [1..Cardinality(S) -> S] :
      /\ \A i \in S : \E k \in DOMAIN s : s[k] = i
      /\ \A j, k \in DOMAIN s :
           j < k => queue_items[s[j]].ranking <= queue_items[s[k]].ranking }

(* A transaction sees its own writes and what others have committed. *)
SeenReview(w, r) == IF txn_reviews[w][r] # Nil THEN txn_reviews[w][r] ELSE reviews[r]
SeenRanking(w, i) ==
  IF txn_items[w][i] # Nil THEN txn_items[w][i] ELSE queue_items[i].ranking

(* validates_numericality_of :rating *)
ValidRating(n) == n \in 1..5

(* Faulty Reviewed: a review whose rating was cleared does not count. *)
Reviewed_rated(u, v) ==
  \E r \in ReviewIds : /\ reviews[r] # Nil
                       /\ reviews[r].user = u /\ reviews[r].video = v
                       /\ reviews[r].rating # Nil

(* @video.reviews.map(&:user).include?(current_user) *)
Reviewed(u, v) ==
  \E r \in ReviewIds : reviews[r] # Nil /\ reviews[r].user = u /\ reviews[r].video = v

(* A row another transaction has written is locked until that one ends. *)
ItemLocked(w, i) == \E x \in Workers \ {w} : txn_items[x][i] # Nil
ReviewLocked(w, r) == \E x \in Workers \ {w} : txn_reviews[x][r] # Nil

(* Faulty VideoQueued: only the head of the queue is looked at. *)
VideoQueued_head(u, v) ==
  \E i \in OwnItems(u) : queue_items[i].video = v /\ queue_items[i].ranking = 1

(* video_already_in_users_queue *)
VideoQueued(u, v) == \E i \in OwnItems(u) : queue_items[i].video = v

(* Faulty RankingAfter: the + 1 is missing. *)
RankingAfter_count(n) == n

(* The ranking of a new item, from current_user.queue_items.count. *)
RankingAfter(n) == n + 1

(* A queue item as Active Record holds it in memory. *)
Loaded(i, n) == [id |-> i, video |-> queue_items[i].video, ranking |-> n]

(* The row with a new ranking, and with a new rating. *)
Ranked(row, n) == [user |-> row.user, video |-> row.video, ranking |-> n]
Rated(row, n) == [user |-> row.user, video |-> row.video, rating |-> n]

(* validates_presence_of and validates_numericality_of :ranking *)
ValidRanking(n) == n # Nil

(* The width of the column. *)
FitsRanking(n) == n \in Rankings

(* Faulty WithRanking: the index is written without the + 1. *)
WithRanking_index(i, n) ==
  IF queue_items[i] = Nil THEN queue_items ELSE [queue_items EXCEPT ![i] = Ranked(@, n - 1)]

(* Faulty WithRanking: an item that is gone is inserted again. *)
WithRanking_upsert(i, n) ==
  [queue_items EXCEPT ![i] =
     IF @ = Nil THEN [user |-> CHOOSE u \in Users : TRUE,
                      video |-> CHOOSE v \in Videos : TRUE, ranking |-> n]
     ELSE Ranked(@, n)]

(* UPDATE queue_items SET ranking = n WHERE id = i: no row, no effect. *)
WithRanking(i, n) ==
  IF queue_items[i] = Nil THEN queue_items ELSE [queue_items EXCEPT ![i] = Ranked(@, n)]

(* The response is sent: the worker forgets the request. *)
EndRequest(w) ==
  /\ pc' = [pc EXCEPT ![w] = "idle"]
  /\ user' = [user EXCEPT ![w] = Nil]
  /\ params' = [params EXCEPT ![w] = NoParams]
  /\ found' = [found EXCEPT ![w] = Nil]
  /\ loaded' = [loaded EXCEPT ![w] = <<>>]

(* The transaction ends, either way: its writes are no longer pending. *)
ClearTxn(w) ==
  /\ txn_items' = [txn_items EXCEPT ![w] = NoItemWrites]
  /\ txn_reviews' = [txn_reviews EXCEPT ![w] = NoReviewWrites]

(* An exception leaves the transaction block: ROLLBACK, and the request ends. *)
Rollback(w) == EndRequest(w) /\ ClearTxn(w) /\ UNCHANGED tables

-----------------------------------------------------------------------------
(* QueueItemsController#create *)

(* The video exists and the user's queue lacks it. *)
create(w, u, v) ==
  /\ pc[w] = "idle"
  /\ ~VideoQueued(u, v)
  /\ pc' = [pc EXCEPT ![w] = "count"]
  /\ user' = [user EXCEPT ![w] = u]
  /\ params' = [params EXCEPT ![w] = Given(v, Nil, Nil, <<>>)]
  /\ UNCHANGED <<tables, txn, found, loaded>>

(* current_user.queue_items.count *)
count(w) ==
  /\ pc[w] = "count"
  /\ found' = [found EXCEPT ![w] = Cardinality(OwnItems(user[w]))]
  /\ pc' = [pc EXCEPT ![w] = "insert"]
  /\ UNCHANGED <<tables, txn, user, params, loaded>>

(* INSERT with ranking count + 1; an id that no longer fits is an error page. *)
create_new_queue_item(w) ==
  /\ pc[w] = "insert"
  /\ IF item_seq < MaxItems
       THEN /\ item_seq' = item_seq + 1
            /\ queue_items' = [queue_items EXCEPT ![item_seq + 1] =
                 [user |-> user[w], video |-> params[w].video, ranking |-> RankingAfter(found[w])]]
       ELSE UNCHANGED <<item_seq, queue_items>>
  /\ EndRequest(w)
  /\ UNCHANGED <<reviews, review_seq, txn>>

-----------------------------------------------------------------------------
(* QueueItemsController#destroy *)

(* QueueItem.find(params[:id]) *)
destroy(w, u, i) ==
  /\ pc[w] = "idle"
  /\ queue_items[i] # Nil
  /\ pc' = [pc EXCEPT ![w] = "include"]
  /\ user' = [user EXCEPT ![w] = u]
  /\ params' = [params EXCEPT ![w] = Given(Nil, i, Nil, <<>>)]
  /\ UNCHANGED <<tables, txn, found, loaded>>

(* Faulty include: the item is destroyed whoever it belongs to. *)
include_anyone(w) ==
  /\ pc[w] = "include"
  /\ pc' = [pc EXCEPT ![w] = "delete"]
  /\ UNCHANGED <<tables, txn, memory>>

(* current_user.queue_items.include?(queue_item) *)
include(w) ==
  /\ pc[w] = "include"
  /\ pc' = [pc EXCEPT ![w] = IF params[w].id \in OwnItems(user[w]) THEN "delete" ELSE "load"]
  /\ UNCHANGED <<tables, txn, memory>>

(* queue_item.destroy: DELETE by id, after waiting for the row's lock. *)
delete(w) ==
  /\ pc[w] = "delete"
  /\ ~ItemLocked(w, params[w].id)
  /\ queue_items' = [queue_items EXCEPT ![params[w].id] = Nil]
  /\ pc' = [pc EXCEPT ![w] = "load"]
  /\ UNCHANGED <<reviews, item_seq, review_seq, txn, memory>>

-----------------------------------------------------------------------------
(* User#normalise_queue_item_rankings, the last thing destroy and            *)
(* update_queue do.                                                          *)

(* The association is loaded in ranking order. *)
load_queue_items(w) ==
  /\ pc[w] = "load"
  /\ IF OwnItems(user[w]) = {}
       THEN EndRequest(w)
       ELSE \E s \in ByRanking(OwnItems(user[w])) :
              /\ loaded' = [loaded EXCEPT ![w] =
                   [k \in DOMAIN s |-> Loaded(s[k], queue_items[s[k]].ranking)]]
              /\ found' = [found EXCEPT ![w] = 1]
              /\ params' = [params EXCEPT ![w] = NoParams]
              /\ pc' = [pc EXCEPT ![w] = "renumber"]
              /\ UNCHANGED user
  /\ UNCHANGED <<tables, txn>>

(* update_attributes(ranking: index + 1), a transaction of its own.  Active    *)
(* Record sends no UPDATE when the value it loaded is already the one assigned. *)
renumber(w) ==
  LET k == found[w]
      item == loaded[w][k]
  IN
  /\ pc[w] = "renumber"
  /\ \/ /\ item.ranking = k
        /\ UNCHANGED queue_items
     \/ /\ item.ranking # k
        /\ ~ItemLocked(w, item.id)
        /\ queue_items' = WithRanking(item.id, k)
  /\ IF k = Len(loaded[w])
       THEN EndRequest(w)
       ELSE /\ found' = [found EXCEPT ![w] = k + 1]
            /\ UNCHANGED <<pc, user, params, loaded>>
  /\ UNCHANGED <<reviews, item_seq, review_seq, txn>>

-----------------------------------------------------------------------------
(* QueueItemsController#update_queue *)

(* BEGIN.  A form may be older than the table: its rows may be gone by now. *)
update_queue(w, u, f) ==
  /\ pc[w] = "idle"
  /\ \A k \in DOMAIN f : f[k].id <= item_seq
  /\ pc' = [pc EXCEPT ![w] = "form"]
  /\ user' = [user EXCEPT ![w] = u]
  /\ params' = [params EXCEPT ![w] = Given(Nil, Nil, Nil, f)]
  /\ UNCHANGED <<tables, txn, found, loaded>>

(* Faulty find_item: a row of the form is saved whoever it belongs to. *)
find_item_anyone(w) ==
  /\ pc[w] = "form"
  /\ params[w].form # <<>>
  /\ LET i == Head(params[w].form).id IN
       \/ /\ queue_items[i] = Nil
          /\ Rollback(w)
       \/ /\ queue_items[i] # Nil
          /\ loaded' = [loaded EXCEPT ![w] = <<Loaded(i, SeenRanking(w, i))>>]
          /\ pc' = [pc EXCEPT ![w] = "review"]
          /\ UNCHANGED <<tables, txn, user, params, found>>

(* QueueItem.find of the next row of the form. *)
find_item(w) ==
  /\ pc[w] = "form"
  /\ params[w].form # <<>>
  /\ LET i == Head(params[w].form).id IN
       \/ /\ queue_items[i] = Nil               \* RecordNotFound
          /\ Rollback(w)
       \/ /\ queue_items[i] # Nil
          /\ queue_items[i].user # user[w]      \* not the current user's: skipped
          /\ params' = [params EXCEPT ![w] = Given(Nil, Nil, Nil, Tail(@.form))]
          /\ UNCHANGED <<tables, txn, pc, user, found, loaded>>
       \/ /\ queue_items[i] # Nil
          /\ queue_items[i].user = user[w]
          /\ loaded' = [loaded EXCEPT ![w] = <<Loaded(i, SeenRanking(w, i))>>]
          /\ pc' = [pc EXCEPT ![w] = "review"]
          /\ UNCHANGED <<tables, txn, user, params, found>>

(* Faulty find_review: Review.where(video_id: ..).first, whoever wrote it. *)
find_review_anyone(w) ==
  LET found_by_video == { r \in ReviewIds : /\ SeenReview(w, r) # Nil
                                            /\ SeenReview(w, r).video = loaded[w][1].video }
  IN
  /\ pc[w] = "review"
  /\ \/ found_by_video = {} /\ found' = [found EXCEPT ![w] = Nil]
     \/ \E r \in found_by_video : /\ \A s \in found_by_video : r <= s
                                  /\ found' = [found EXCEPT ![w] = r]
  /\ pc' = [pc EXCEPT ![w] = "rate"]
  /\ UNCHANGED <<tables, txn, user, params, loaded>>

(* QueueItem#rating=: Review.where(user_id: .., video_id: ..).first *)
find_review(w) ==
  LET mine == { r \in ReviewIds : /\ SeenReview(w, r) # Nil
                                  /\ SeenReview(w, r).user = user[w]
                                  /\ SeenReview(w, r).video = loaded[w][1].video }
  IN
  /\ pc[w] = "review"
  /\ \/ mine = {} /\ found' = [found EXCEPT ![w] = Nil]
     \/ \E r \in mine : /\ \A s \in mine : r <= s
                        /\ found' = [found EXCEPT ![w] = r]
  /\ pc' = [pc EXCEPT ![w] = "rate"]
  /\ UNCHANGED <<tables, txn, user, params, loaded>>

(* QueueItem#rating=: update_column skips the validations of Review and is    *)
(* always sent; Review.create saves nothing, quietly, when they fail.         *)
rating(w) ==
  LET n == Head(params[w].form).rating
      ToSave == /\ pc' = [pc EXCEPT ![w] = "save"]
                /\ UNCHANGED <<queue_items, reviews, item_seq, txn_items, memory>>
  IN
  /\ pc[w] = "rate"
  /\ \/ /\ found[w] # Nil
        /\ ~ReviewLocked(w, found[w])
        /\ txn_reviews' = [txn_reviews EXCEPT ![w][found[w]] =
                             Rated(SeenReview(w, found[w]), n)]
        /\ ToSave
        /\ UNCHANGED review_seq
     \/ /\ found[w] = Nil
        /\ ValidRating(n)
        /\ review_seq < MaxReviews
        /\ review_seq' = review_seq + 1
        /\ txn_reviews' = [txn_reviews EXCEPT ![w][review_seq + 1] =
                             [user |-> user[w], video |-> loaded[w][1].video, rating |-> n]]
        /\ ToSave
     \/ /\ found[w] = Nil
        /\ ~ValidRating(n)
        /\ ToSave
        /\ UNCHANGED <<txn_reviews, review_seq>>
     \/ /\ found[w] = Nil
        /\ ValidRating(n)
        /\ review_seq = MaxReviews              \* the id does not fit
        /\ Rollback(w)

(* update_attributes!: RecordInvalid for what is no integer, a database error   *)
(* for one that does not fit the column, no UPDATE for the value it loaded, no  *)
(* row updated when the item is gone.                                           *)
update_attributes(w) ==
  LET i == loaded[w][1].id
      n == Head(params[w].form).ranking
      NextEntry == /\ params' = [params EXCEPT ![w] = Given(Nil, Nil, Nil, Tail(@.form))]
                   /\ found' = [found EXCEPT ![w] = Nil]
                   /\ loaded' = [loaded EXCEPT ![w] = <<>>]
                   /\ pc' = [pc EXCEPT ![w] = "form"]
                   /\ UNCHANGED <<tables, txn_reviews, user>>
  IN
  /\ pc[w] = "save"
  /\ \/ /\ ~(ValidRanking(n) /\ FitsRanking(n))
        /\ Rollback(w)
     \/ /\ n = loaded[w][1].ranking
        /\ NextEntry
        /\ UNCHANGED txn_items
     \/ /\ ValidRanking(n) /\ FitsRanking(n)
        /\ n # loaded[w][1].ranking
        /\ ~ItemLocked(w, i)
        /\ txn_items' = [txn_items EXCEPT ![w][i] = IF queue_items[i] = Nil THEN Nil ELSE n]
        /\ NextEntry

(* The form is used up: COMMIT, then normalise_queue_item_rankings. *)
commit(w) ==
  /\ pc[w] = "form"
  /\ params[w].form = <<>>
  /\ queue_items' = [i \in ItemIds |->
       IF txn_items[w][i] = Nil THEN queue_items[i]
       ELSE Ranked(queue_items[i], txn_items[w][i])]
  /\ reviews' = [r \in ReviewIds |-> SeenReview(w, r)]
  /\ ClearTxn(w)
  /\ pc' = [pc EXCEPT ![w] = "load"]
  /\ UNCHANGED <<item_seq, review_seq, memory>>

-----------------------------------------------------------------------------
(* ReviewsController#create *)

(* @video.reviews.map(&:user) lacks current_user. *)
review_create(w, u, v, n) ==
  /\ pc[w] = "idle"
  /\ ~Reviewed(u, v)
  /\ pc' = [pc EXCEPT ![w] = "submit"]
  /\ user' = [user EXCEPT ![w] = u]
  /\ params' = [params EXCEPT ![w] = Given(v, Nil, n, <<>>)]
  /\ UNCHANGED <<tables, txn, found, loaded>>

(* @review.save: an INSERT when the rating is valid. *)
review_save(w) ==
  /\ pc[w] = "submit"
  /\ IF ValidRating(params[w].rating) /\ review_seq < MaxReviews
       THEN /\ review_seq' = review_seq + 1
            /\ reviews' = [reviews EXCEPT ![review_seq + 1] =
                 [user |-> user[w], video |-> params[w].video, rating |-> params[w].rating]]
       ELSE UNCHANGED <<review_seq, reviews>>
  /\ EndRequest(w)
  /\ UNCHANGED <<queue_items, item_seq, txn>>

-----------------------------------------------------------------------------
(* Unicorn and PostgreSQL *)

(* w cannot go on before x's transaction ends. *)
WaitsFor(w, x) ==
  /\ w # x
  /\ \/ /\ pc[w] = "rate"
        /\ found[w] # Nil
        /\ txn_reviews[x][found[w]] # Nil
     \/ /\ pc[w] = "save"
        /\ ValidRanking(Head(params[w].form).ranking)
        /\ FitsRanking(Head(params[w].form).ranking)
        /\ Head(params[w].form).ranking # loaded[w][1].ranking
        /\ txn_items[x][loaded[w][1].id] # Nil

(* Faulty deadlock_detected: nobody breaks the circle. *)
deadlock_detected_never(w) == FALSE

(* PostgreSQL aborts one transaction of a circle of waiting ones. *)
deadlock_detected(w) ==
  /\ \E S \in SUBSET Workers :
       /\ w \in S
       /\ \A x \in S : (\E y \in S : WaitsFor(x, y)) /\ (\E y \in S : WaitsFor(y, x))
  /\ Rollback(w)

(* The master kills a worker that has been busy for 15 seconds and forks a     *)
(* new one; PostgreSQL rolls the lost connection's transaction back.           *)
unicorn_timeout(w) ==
  /\ Timeouts
  /\ pc[w] # "idle"
  /\ Rollback(w)

(* A request reaches an idle worker. *)
Request(w) ==
  \E u \in Users :
    \/ \E v \in Videos : create(w, u, v)
    \/ \E i \in ItemIds : destroy(w, u, i)
    \/ \E f \in Forms : update_queue(w, u, f)
    \/ \E v \in Videos, n \in FormRatings : review_create(w, u, v, n)

(* A busy worker executes its next statement. *)
Step(w) ==
  \/ count(w) \/ create_new_queue_item(w)
  \/ include(w) \/ delete(w)
  \/ load_queue_items(w) \/ renumber(w)
  \/ find_item(w) \/ find_review(w) \/ rating(w) \/ update_attributes(w) \/ commit(w)
  \/ review_save(w)

Next ==
  \E w \in Workers : Request(w) \/ Step(w) \/ deadlock_detected(w) \/ unicorn_timeout(w)

Spec == Init /\ [][Next]_vars

(* A busy worker goes on.  Strong fairness, because a statement that waits for  *)
(* a row lock is granted it in queue order; users owe no further request and    *)
(* unicorn no kill.                                                             *)
Fairness == \A w \in Workers : SF_vars(Step(w)) /\ WF_vars(deadlock_detected(w))

FairSpec == Spec /\ Fairness

-----------------------------------------------------------------------------
(* Properties *)

Memory == [id : ItemIds, video : Videos, ranking : Rankings]
Params == [video : Videos \cup {Nil}, id : ItemIds \cup {Nil},
           rating : FormRatings \cup {Nil}, form : Seq(Entry)]

(* The types of the tables, of the pending writes and of a worker's memory. *)
TypeOK ==
  /\ queue_items \in [ItemIds -> QueueItem \cup {Nil}]
  /\ reviews \in [ReviewIds -> Review \cup {Nil}]
  /\ item_seq \in 0..MaxItems
  /\ review_seq \in 0..MaxReviews
  /\ txn_items \in [Workers -> [ItemIds -> Rankings \cup {Nil}]]
  /\ txn_reviews \in [Workers -> [ReviewIds -> Review \cup {Nil}]]
  /\ pc \in [Workers -> Labels]
  /\ user \in [Workers -> Users \cup {Nil}]
  /\ params \in [Workers -> Params]
  /\ found \in [Workers -> Nat \cup {Nil}]
  /\ loaded \in [Workers -> Seq(Memory)]

(* u's items are ranked 1, 2, ..., n with no gap and no tie. *)
Normalised(u) ==
  {queue_items[i].ranking : i \in OwnItems(u)} = 1..Cardinality(OwnItems(u))

(* With no request in progress every queue is ranked 1..n: create appends, and *)
(* destroy and update_queue leave through normalise_queue_item_rankings.       *)
QueueNormalised ==
  (\A w \in Workers : pc[w] = "idle") => \A u \in Users : Normalised(u)

(* video_already_in_users_queue keeps a video from being queued twice. *)
NoDuplicateVideo ==
  \A u \in Users : \A i, j \in OwnItems(u) :
    queue_items[i].video = queue_items[j].video => i = j

(* A user has at most one review of a video, whether reviews#create or the     *)
(* rating menu of the queue page wrote it.                                     *)
ReviewedOnce ==
  \A r, s \in ReviewIds :
    /\ reviews[r] # Nil
    /\ reviews[s] # Nil
    /\ reviews[r].user = reviews[s].user
    /\ reviews[r].video = reviews[s].video
    => r = s

(* A run of normalise_queue_item_rankings that nobody disturbs leaves 1..n in   *)
(* the order it loaded, whatever gaps and ties a killed request left behind.    *)
NormaliseHeals ==
  [][ \A w \in Workers :
        renumber(w) /\ pc'[w] = "idle"
          => /\ Normalised(user[w])'
             /\ \A k \in DOMAIN loaded[w] : queue_items'[loaded[w][k].id].ranking = k
             /\ \A j, k \in DOMAIN loaded[w] :
                  j < k => loaded[w][j].ranking <= loaded[w][k].ranking ]_vars

(* w is about to load item i for renumbering, or has it loaded and will still  *)
(* send an UPDATE for it.                                                      *)
WillRenumber(w, i) ==
  /\ user[w] = queue_items[i].user
  /\ \/ pc[w] = "load"
     \/ /\ pc[w] = "renumber"
        /\ \E k \in found[w]..Len(loaded[w]) :
             loaded[w][k].id = i /\ loaded[w][k].ranking # k

(* Whatever number a user types and however the workers interleave, an item    *)
(* ranked outside 1..(number of items ever queued) is one that a request in     *)
(* progress is going to renumber; so no such ranking outlives the requests.     *)
StrayRankingsRepaired ==
  \A i \in ItemIds :
    queue_items[i] # Nil /\ queue_items[i].ranking \notin 1..item_seq
      => \E w \in Workers : WillRenumber(w, i)

(* A pending ranking belongs to a row that still exists and that the worker's   *)
(* user owns: destroy waits for the lock and the form skips the items of others. *)
PendingItemsLive ==
  \A w \in Workers, i \in ItemIds :
    txn_items[w][i] # Nil
      => /\ pc[w] \in TxnLabels
         /\ queue_items[i] # Nil
         /\ queue_items[i].user = user[w]

(* An id, once its item was removed, never has a row again: the UPDATEs of a    *)
(* normalisation or a form that loaded the item earlier find no row.            *)
RemovedStaysRemoved ==
  [][ \A i \in 1..item_seq : queue_items[i] = Nil => queue_items'[i] = Nil ]_vars

(* A row of queue_items is inserted, renumbered or deleted only by a request    *)
(* of the user it belongs to, and never changes its user or its video.          *)
OnlyOwnerTouches ==
  [][ \A i \in ItemIds :
        queue_items'[i] # queue_items[i] =>
          \E w \in Workers :
            /\ <<pc'[w], found'[w]>> # <<pc[w], found[w]>>
            /\ \A row \in {queue_items[i], queue_items'[i]} \ {Nil} :
                 row.user = user[w]
            /\ queue_items[i] # Nil /\ queue_items'[i] # Nil
                 => queue_items'[i].video = queue_items[i].video ]_vars

(* A review is written only by a request of its author, is never removed, and  *)
(* keeps its author and its video: rating= rates the review it has looked up    *)
(* for the owner of the queue item, and the COMMIT of a form undoes no other's.  *)
OnlyAuthorReviews ==
  [][ \A r \in ReviewIds :
        reviews'[r] # reviews[r] =>
          \E w \in Workers :
            /\ pc'[w] # pc[w]
            /\ reviews'[r] # Nil /\ reviews'[r].user = user[w]
            /\ reviews[r] # Nil => /\ reviews[r].user = user[w]
                                  /\ reviews'[r].video = reviews[r].video ]_vars

(* Every request ends: lock waits are granted, or PostgreSQL breaks the circle  *)
(* two forms listing the same items in different orders can wait in.            *)
RequestsFinish == \A w \in Workers : pc[w] # "idle" ~> pc[w] = "idle"
=============================================================================
