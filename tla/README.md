# MyFLiX in TLA+

MyFLiX is a Rails 4.1 application: members pay once, queue and rate videos,
review them, follow and invite each other. Unicorn runs three worker processes
(`config/unicorn.rb:2`) over one PostgreSQL database; a request that runs longer
than 15 seconds is killed with its worker (`:3`); Sidekiq delivers delayed mail.
No table has a unique index (`db/schema.rb`), and only one handler opens a
transaction (`update_queue_items`), so most guarantees rest on a check in one
SQL statement and a write in another. That is what these modules are about.

## The parts of the system

| Part | State | Operations | What is hard |
|---|---|---|---|
| Queue (`queue_items_controller.rb`, `queue_item.rb`) | rows of `queue_items` (user, video, ranking) | create, destroy, update_queue | check-then-insert; typed rankings; a form older than the table; one transaction, row locks, deadlocks |
| Normalisation (`user.rb:16`) | the same rows | renumber 1..n, the last thing destroy and update_queue do | works on rows loaded earlier, one transaction per row; may be killed halfway |
| Reviews (`reviews_controller.rb`, `queue_item.rb:16`, `review.rb`) | rows of `reviews` (user, video, rating) | reviews#create; `rating=` from the queue form | two writers, one check-then-insert, one without validation |
| Signup (`user_signup.rb`, `stripe_wrapper.rb`, `users_controller.rb`) | users, charges at Stripe | sign_up | charge before save; uniqueness by SELECT; mail sent inside the request |
| Relationships (`relationships_controller.rb`, `user.rb:22`) | follower/leader pairs | create, destroy | check-then-insert |
| Password reset (`forgot_passwords_controller.rb`, `password_resets_controller.rb`, `tokenable.rb`) | `users.token` | request a mail, reset | tokens in delayed mail; two resets with one token |
| Invitations (`invitations_controller.rb`) | rows of `invitations` | create; used by signup, never consumed | saved, then mailed |
| Mail jobs (`app_mailer.rb`, Sidekiq) | queued jobs | deliver, retry | late, twice or never |
| Sessions and access (`sessions_controller.rb`, `application_controller.rb`) | the session cookie | log in, log out, filters | |
| Catalogue (`video.rb`, `category.rb`, admin) | videos, categories | search, recent, admin create | search semantics |
| Unicorn (`unicorn.rb`) | workers | kill at the timeout | between any two statements |

The parts meet in the tables: the queue form writes reviews, signup reads
invitations and writes relationships, invitations and password reset queue mail.

Correctness of the core, in words: a member's queue is ranked 1..n, holds no
video twice and changes only by their own requests; a video has one review per
member; a request that fails leaves nothing half done; every request ends.

## Modules

| Module | What it is |
|---|---|
| `MyQueue` | queue, normalisation and reviews, for any number of workers |
| `MCMyQueue` | `MyQueue` for TLC, with the symmetry sets |
| `MyQueueInvariant` | the inductive invariant, and what it takes for a step to keep it |
| `MyQueueSteps`, `MyQueueNormalise`, `MyQueueForm` | every statement keeps it: of create and destroy, of the normalisation, of the queue form and the review form |
| `MyQueueTheorems` | the theorems about what changes a queue or a review |
| `Members` | signup, invitations and relationships, which share the tables `users` and `relationships` |
| `Enrolment` | what signing up promises while several sign up at once: the abstract specification |
| `MCMembers` | `Members` for TLC: one seeded account |
| `MembersInvariant` | its inductive invariant, and what it takes for a step to keep it |
| `MembersTheorems` | every statement keeps it, and the theorems about accounts, charges and relationships |
| `MembersEnrolment` | the proof that `Members` implements `Enrolment` |

### MyQueue

Each action is one SQL statement with the Ruby up to the next one; `pc[w]` is
the statement worker `w` executes next.

| Handler | Labels in order | Actions |
|---|---|---|
| create | idle, count, insert | `create` (both checks), `count`, `create_new_queue_item` |
| destroy | idle, include, delete, then normalisation | `destroy` (find), `include`, `delete` |
| normalise_queue_item_rankings | load, renumber (per item) | `load_queue_items`, `renumber` |
| update_queue | idle, form, review, rate, save (per row), then COMMIT and normalisation | `update_queue`, `find_item`, `find_review`, `rating`, `update_attributes`, `commit` |
| reviews#create | idle, submit | `review_create`, `review_save` |
| PostgreSQL, unicorn | | `deadlock_detected`, `unicorn_timeout` |

`queue_items` and `reviews` are the committed tables. `txn_items[w]` and
`txn_reviews[w]` are what `w` has written and not committed; a non-`Nil` entry is
also the row lock. `user`, `params`, `found` and `loaded` are the request's
memory: the current user, the parameters, a count or id or position read
earlier, and the Active Record objects read earlier. Requests that change nothing
(a refused create, a 404 before the first write, every GET) are stuttering
steps.

PostgreSQL and Active Record are modelled from how the code uses them: READ
COMMITTED reads (`SeenReview`, `SeenRanking`), row locks held to the end of a
transaction (`ItemLocked`, `ReviewLocked`), an UPDATE or DELETE of a row that is
gone has no effect, no UPDATE is sent for an unchanged attribute, `ORDER BY`
breaks ties either way, a circle of waiting transactions is broken by aborting
one. `update_column` skips the validations and is always sent; `Review.create`
without a valid rating saves nothing and says nothing. A ranking that is no
integer raises RecordInvalid, one that does not fit the column a database error;
both roll back (`ValidRanking` is the validation, `FitsRanking` the column).

A form (`Forms`) has at least one row and names an item once, because the page
prints each item of the queue once. The items may be gone or another's by the
time it is submitted. A request without any rows (the button under an empty
queue) has no `params[:queue_items]`: `each` raises on nil inside the
transaction before the first statement, and nothing changes.

Abstractions: titles, review texts, flashes and pages are left out. A rating is
1..5 or `Nil`, which stands for a cleared one (whatever the column holds outside
1..5). Videos and users exist throughout: nothing deletes them. Rails answers a
SELECT that a request repeats from its SQL cache until the request writes. Here
the only lookup it could repeat is that of a review, for two rows of one form
about the same video, and only if neither wrote in between; the model looks
again.

### Members

| Handler | Labels in order | Actions |
|---|---|---|
| users#create, `UserSignup#sign_up` | idle, charge, save, invitation, inviter_leads, inviter_follows, mail | `sign_up` (valid?), `charge_create`, `save`, `find_invitation`, `inviter_leads`, `inviter_follows`, `deliver` |
| invitations#create | idle, invite | `invite` (no account has the friend's email), `invitation_save` |
| relationships#create | idle, follow | `create` (find and can_follow?), `follow` |
| relationships#destroy | idle, unfollow | `destroy` (find and compare), `unfollow` |
| unicorn | | `unicorn_timeout` |

`users`, `invitations` and `relationships` are the tables, indexed by id; a
destroyed relationship is `Nil`, and of an invitation only its sender is kept.
`charges` counts what Stripe has charged. Stripe may accept, decline, or charge
and lose the answer; the wrapper rescues every exception
(`stripe_wrapper.rb:20`), so the last two look alike to `sign_up`. A form that is
not valid changes nothing and is a stuttering step. Accounts are never deleted or
renamed, so the two uniqueness SELECTs of a validation are one step.

`@user.save` validates once more, but sends no SELECT: `valid?` has asked the same
questions in the same request, the request has not written since, and Rails
answers from the request's SQL cache. So `save` is the INSERT and succeeds, even
if another worker has taken the name while Stripe was asked. This is why success
is only announced to members (`SuccessMeansMember`) although `sign_up` does not
look at what `save` returns (`user_signup.rb:17`), and why names can be doubled
by signups that overlap by as much as a call to Stripe (`members_same_name`).

Abstractions: passwords are left out, a form's fields are present and long
enough; whether the welcome mail arrives or raises only decides which page is
shown. The job that mails an invitation is left out: whoever signs up may use any
invitation that is saved, which includes the mailed ones. An invitation is not
consumed and not tied to the address it went to, as in the code. A member may use
their account as soon as it is saved, while `sign_up` is still going on: they may
follow, and even invite, before their own invitation is looked up. The lookup is
by the token in the form, and a token in the form belongs to an invitation saved
before the form was sent, so finding it again is `params[w].token # Nil`.

`Enrolment` has applicants with at most one application each: `Apply` under
names no member has, `Pay`, `Join` (the only step that opens an account),
`Refuse`, and two ways to pay for nothing: `LoseAnswer` and `Kill`. `Members`
maps to it by `applications <- [w \in Workers |-> Application(w)]`, the form of a
signup between `valid?` and `save` with whether it is paid, `revenue <- charges`
and `members <- users`; everything else is a stuttering step. What is not
promised is that names are still free at `Join`.

## Runs

| Run | Instance | Checks | Shows |
|---|---|---|---|
| `queue_one_worker` | 1 worker, 1 user, 2 videos, 3 ids, forms of up to 2 rows with 0, 2, 4 (too large) or text | `QueueNormalised`, `NoDuplicateVideo`, `ReviewedOnce` | served one at a time, requests keep every promise |
| `queue_killed` | 1 worker that may be killed anywhere | `NormaliseHeals` | a normalisation that ends repairs what kills left, in order |
| `queue_workers` | 2 workers, 2 users, 2 videos, 2 ids, forms of up to 2 rows | `StrayRankingsRepaired`, `PendingItemsLive`, `RemovedStaysRemoved`, `OnlyOwnerTouches` | what holds under every interleaving |
| `queue_reviews` | 2 workers that may be killed, 2 users, 1 video, 2 items, 2 reviews, forms of 1 row | `OnlyAuthorReviews` | a review is the author's own, whichever of its two writers writes it |
| `queue_live` | 2 workers that may be killed, 1 user, 1 video queued twice, forms of up to 2 rows in either order, fair | `RequestsFinish` | every request ends, deadlocks included |
| `queue_duplicate`, `queue_ties`, `queue_two_reviews` | 2 workers | one property each, violated | what two workers break, see below |
| `members_one_worker` | 1 worker, kills, lost answers; 1 seeded account, 2 new usernames and emails, 3 charges, 2 invitations | `FollowedOnce`, `InvitedFollowEachOther` | served one at a time, requests leave every pair once, and an invitation makes both follow |
| `members_workers` | 2 workers, kills, lost answers, 2 charges, 1 invitation | `TypeOK`, `AccountsPaid`, `NobodyFollowsThemselves`, `SuccessMeansMember`, `EndedByFollower`, `EnrolmentImplemented` | what holds under every interleaving and failure, the refinement included |
| `members_same_name`, `members_follow_twice` | 2 workers | one property each, violated | see below |

Bounds. `MaxItems` and `MaxReviews` are the largest ids the columns hold: a
further INSERT is an error, so the instances have no artificial stop.
`MaxRanking` is the width of the ranking column, scaled down to the number of
ids. Two items are enough for a gap, a tie, a swap and a deadlock; the third id
of the one-worker runs lets an item be removed and queued again. Two workers are
enough for every race between two statements.
`MaxForm` is the number of rows in a form. The rankings offered always include
one inside and one outside 1..n. The runs without liveness use symmetry in
users, videos and workers (for `Members` in the names that are not seeded and
the workers), which the modules never tell apart. In `Members`, `MaxCharges`
makes Stripe decline further charges, and `MaxRelationships` stops members from
following when that many rows were inserted (signups still insert theirs), and
`MaxInvitations` stops them from inviting; two new accounts and a sender are
enough for a lost race, a duplicate pair and a new member who invites while their
own signup is under way. The `Members` runs do not check deadlock: once the names of the instance are used up, a
request that would change something may not exist, and idle workers wait.

Fairness (`FairSpec`). A busy worker goes on, strongly fair, because PostgreSQL
grants a row lock in the order of the waiting queue and each transaction is
finite; the deadlock detector runs, weakly fair. No user owes a request, no kill
is owed.

### Findings

With two workers five promises of the tests do not hold.
`queue_duplicate`: two requests to add a video both pass the check
(`queue_items_controller.rb:7`) before either inserts. `queue_ties`: two creates
read the same count and insert the same ranking (`:49`); nothing renumbers them
before the user's next update or removal. `queue_two_reviews`: two submissions
both pass `reviews_controller.rb:9`.
What survives is in `queue_workers`: strays are always being repaired, so at
rest every ranking lies in 1..(items ever queued), though possibly tied.

`members_same_name`: two signups both validate before either inserts.
`members_follow_twice`: two requests both pass `can_follow?`, or a new member
follows their inviter while `sign_up`, which does not ask, is about to.
What survives is in `members_workers`: no account without a charge, success only
for members, nobody follows themselves, and only the follower ends a
relationship. A kill between charge and save (`user_signup.rb:16`) or a lost
answer leaves a charge without an account; no line of the repository says
otherwise, so this is no finding. `Enrolment` names these two as the only ways.

## Proofs

### MyQueue

Assumptions: `ConstantsAssumption` (the bounds are naturals, the ranking column
holds at least every id, ratings come from the menu) and `NilAssumption` (`Nil`
is no value of any table). Users, videos and workers are arbitrary sets.

`IInv` is `TypeOK` (as `TablesOK`, `WritesOK`, `WorkersOK`) with what a worker may
rely on between two statements. Of the tables: ids not handed out have no row
(`FreshItems`, `FreshReviews`), and two transactions never have the same review
pending (`WrittenOnce`). Of a worker (`MemoryOK`): counts, positions and lengths
in memory do not exceed the ids handed out (`PlaceOK`); what is loaded or about to
be deleted is the user's own or gone (`HeldOK`); a review it has found is one its
user wrote, and stays (`RateOK`); its pending rankings belong to live rows of its
user (`PendingOK`), its pending reviews to its user, with the author and video of
the committed row if there is one (`WrittenOK`). `TypeOK` is not inductive without
them: `commit` would write a ranking into no row, `create_new_queue_item` one that
overflows. There is one lemma per statement; `Invariance` combines them.

| Theorem | Says |
|---|---|
| `TypeCorrect` | `Spec => []TypeOK` |
| `PendingLive` | `Spec => []PendingItemsLive` |
| `OwnerOnly` | `Spec => OnlyOwnerTouches` |
| `NoResurrection` | `Spec => RemovedStaysRemoved` |
| `AuthorsOnly` | `Spec => OnlyAuthorReviews` |
| `StrayRepaired` | without kills, `Spec => []StrayRankingsRepaired` |

`StrayRepaired` is inductive relative to `IInv`: only `commit` writes a typed
ranking and it continues at `load`; `load` takes all of the user's items, at
positions within the ids handed out, so a stray item's position differs from its
ranking and its UPDATE will be sent; `renumber` passes an item only after that
UPDATE. Kills break it, which is why `queue_killed` asks for repair instead.

`AuthorsOnly` needs `WrittenOnce` and `WrittenOK`: a COMMIT publishes what was
written statements earlier, and must not carry another author's row or replace
what another transaction has written meanwhile.

Only model-checked: `RequestsFinish` (liveness), `NormaliseHeals`, and the
one-worker properties, whose general proof needs induction over the loaded list.

### Members

Assumptions: `MembersAssumption` (finitely many workers, the seeds are accounts,
the bounds are naturals) and `MembersNil`. `IInv` adds to `TypeOK`, `AccountsPaid`
and `NobodyFollowsThemselves` what each worker may rely on (`MemoryOK`): in a signup
the form's fields are present; once saved, `@user` is the account the form asks
for and is not the sender of its invitation; about to invite, the sender has an
account; about to follow, both accounts exist and differ; about to unfollow, the
row is the user's or gone. `AccountsPaid` counts the workers between charge and
INSERT (`Paying`), without which it would not be inductive; `PayingStep` says how a
move of one worker changes that number.

| Theorem | Says |
|---|---|
| `MembersTypeCorrect` | `Spec => []TypeOK` |
| `MembersPaid` | `Spec => []AccountsPaid` |
| `NoSelfFollowing` | `Spec => []NobodyFollowsThemselves` |
| `SuccessIsMembership` | `Spec => []SuccessMeansMember` |
| `OnlyFollowerEnds` | `Spec => EndedByFollower` |
| `SignupImplementsEnrolment` | `Spec => EnrolmentImplemented` |

`SignupImplementsEnrolment` has no condition on workers, kills or answers: with
`IInv`, each statement of a signup is the step of `Enrolment` named above, and every
other statement leaves the mapped variables alone.

Only model-checked: `FollowedOnce` and `InvitedFollowEachOther` (for one worker).

## Plan

Built so far, in this order: `MyQueue` with its proofs, as the part with the most
state and the only transaction; then `Members`, where money is involved. Next:

1. Proofs of `FollowedOnce` and `InvitedFollowEachOther` for one worker.
2. `PasswordReset` with `MailJobs`: tokens, delayed mail that is late, repeated or
   lost; only the newest token resets; theorem on token freshness.
3. The mail of an invitation, composed with `MailJobs`, so that only a token that
   was delivered is used.
4. `Catalogue`: `search_by_title` and `recent_videos` against reference
   definitions. `Access`: the filters in front of the handlers.
5. For the queue: an abstract queue (an ordered list per member) and the
   one-worker `MyQueue` as its implementation; a proof of `QueueNormalised`'s
   parts that need no induction.

## Not modelled

Cover uploads, static pages, style pages and views (no state beyond what is
listed above), migrations and seeds (run before the program), and
`redis-stable/`, a vendored copy of a third-party server that the program only
reaches through Sidekiq. The parts of the plan that are not built yet are listed
as such in `PROJECT.json`.
