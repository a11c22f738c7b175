------------------------------ MODULE Members ------------------------------
(***************************************************************************)
(* How MyFLiX gains members and how they follow each other: UserSignup as  *)
(* UsersController#create calls it, StripeWrapper::Charge, the uniqueness  *)
(* validations of User, InvitationsController, and RelationshipsController.*)
(*                                                                         *)
(* As in MyQueue a step is one SQL statement, or one call of a service.    *)
(* The two uniqueness SELECTs of a validation are one step: no account is  *)
(* ever deleted or renamed, so both pass only if both would have passed at *)
(* the first, and one that fails would still fail at the second.           *)
(***************************************************************************)
EXTENDS Integers, Sequences, FiniteSets

CONSTANTS
  Usernames, Emails,  \* what a signup form may carry; both present
  Seeds,              \* the accounts db/seeds.rb created
  Workers,            \* unicorn worker processes
  Outcomes,           \* what may become of a call to Stripe, see AllOutcomes
  Timeouts,           \* does unicorn kill workers that exceed its timeout?
  MaxCharges,         \* bound: Stripe declines every further charge
  MaxRelationships,   \* bound: nobody follows anybody when this many rows exist
  MaxInvitations,     \* bound: nobody invites anybody when this many rows exist
  Nil                 \* NULL, no row, no value

User == [username : Usernames, email : Emails]

(* The charge is made and confirmed; it is refused; it is made, but the       *)
(* answer is lost and the Stripe library raises.                              *)
AllOutcomes == {"accepted", "declined", "unanswered"}

ASSUME MembersAssumption ==
  /\ Seeds \in Seq(User)
  /\ IsFiniteSet(Workers)
  /\ Outcomes \subseteq AllOutcomes
  /\ Timeouts \in BOOLEAN
  /\ MaxCharges \in Nat /\ MaxRelationships \in Nat /\ MaxInvitations \in Nat

ASSUME MembersNil == Nil \notin Nat /\ Nil \notin [member : User, paid : BOOLEAN]

VARIABLES
  users,          \* table: the account with id i is users[i]
  charges,        \* number of charges made at Stripe
  invitations,    \* table: the account that sent invitation i is invitations[i]
  relationships,  \* table: id -> row, Nil once it was destroyed
  pc,             \* worker -> the statement or call it executes next
  params,         \* worker -> the request's parameters
  user            \* worker -> id of current_user, or of @user once it is saved

tables == <<users, invitations, relationships>>
vars == <<tables, charges, pc, params, user>>

Labels == { "idle", "charge", "save", "invitation", "inviter_leads",
            "inviter_follows", "mail", "invite", "follow", "unfollow" }

Given(n, e, t, i) == [username |-> n, email |-> e, token |-> t, id |-> i]
NoParams == Given(Nil, Nil, Nil, Nil)

Init ==
  /\ users = Seeds
  /\ charges = 0
  /\ invitations = <<>>
  /\ relationships = <<>>
  /\ pc = [w \in Workers |-> "idle"]
  /\ params = [w \in Workers |-> NoParams]
  /\ user = [w \in Workers |-> Nil]

(* Faulty Taken: only the username is validated for uniqueness. *)
Taken_username(n, e) == \E i \in DOMAIN users : users[i].username = n

(* validates :username, uniqueness, and :email, uniqueness *)
Taken(n, e) == \E i \in DOMAIN users : users[i].username = n \/ users[i].email = e

(* Faulty successful: an answer that is an error counts as one. *)
successful_always(o) == TRUE

(* response.present?: any exception of the library is rescued and leaves none. *)
successful(o) == o = "accepted"

(* The account a form asks for. *)
Account(p) == [username |-> p.username, email |-> p.email]

(* A row of relationships. *)
Row(l, f) == [leader |-> l, follower |-> f]

(* Faulty follows: looks through leading_relationships. *)
follows_leading(u, l) ==
  \E r \in DOMAIN relationships : relationships[r] = Row(u, l)

(* following_relationships.map(&:leader).include?(another_user) *)
follows(u, l) == \E r \in DOMAIN relationships : relationships[r] = Row(l, u)

(* Faulty can_follow: forgets that a user might follow themselves. *)
can_follow_anyone(u, l) == ~follows(u, l)

can_follow(u, l) == ~(follows(u, l) \/ u = l)

Goto(w, label) == pc' = [pc EXCEPT ![w] = label]

EndRequest(w) ==
  /\ Goto(w, "idle")
  /\ params' = [params EXCEPT ![w] = NoParams]
  /\ user' = [user EXCEPT ![w] = Nil]

-----------------------------------------------------------------------------
(* UserSignup#sign_up *)

(* @user.valid?  Nothing happens to a form that is not. *)
sign_up(w, n, e, t) ==
  /\ pc[w] = "idle"
  /\ ~Taken(n, e)
  /\ Goto(w, "charge")
  /\ params' = [params EXCEPT ![w] = Given(n, e, t, Nil)]
  /\ UNCHANGED <<tables, charges, user>>

(* StripeWrapper::Charge.create, and whether the charge was successful. *)
charge_create(w) ==
  /\ pc[w] = "charge"
  /\ \E o \in Outcomes :
       /\ \/ o = "declined" /\ UNCHANGED charges
          \/ o # "declined" /\ charges < MaxCharges /\ charges' = charges + 1
       /\ \/ successful(o) /\ Goto(w, "save") /\ UNCHANGED <<params, user>>
          \/ ~successful(o) /\ EndRequest(w)
  /\ UNCHANGED tables

(* Faulty save: the names are looked up once more, as outside a request, where  *)
(* there is no SQL cache; an unsaved user goes unnoticed.                       *)
save_uncached(w) ==
  /\ pc[w] = "save"
  /\ \/ /\ Taken(params[w].username, params[w].email)
        /\ UNCHANGED <<users, user>>
     \/ /\ ~Taken(params[w].username, params[w].email)
        /\ users' = Append(users, Account(params[w]))
        /\ user' = [user EXCEPT ![w] = Len(users) + 1]
  /\ Goto(w, "invitation")
  /\ UNCHANGED <<invitations, relationships, charges, params>>

(* @user.save validates again, with the SELECTs valid? has sent: the request's   *)
(* SQL cache, which only a write of its own empties, answers as it did then.    *)
(* Hence the INSERT; no unique index stands behind it.                          *)
save(w) ==
  /\ pc[w] = "save"
  /\ users' = Append(users, Account(params[w]))
  /\ user' = [user EXCEPT ![w] = Len(users) + 1]
  /\ Goto(w, "invitation")
  /\ UNCHANGED <<invitations, relationships, charges, params>>

(* Invitation.find_by(token: invitation_token) *)
find_invitation(w) ==
  /\ pc[w] = "invitation"
  /\ Goto(w, IF params[w].token # Nil THEN "inviter_leads" ELSE "mail")
  /\ UNCHANGED <<tables, charges, params, user>>

(* Relationship.create(leader: invitation.inviter, follower: @user) *)
inviter_leads(w) ==
  /\ pc[w] = "inviter_leads"
  /\ relationships' = Append(relationships, Row(invitations[params[w].token], user[w]))
  /\ Goto(w, "inviter_follows")
  /\ UNCHANGED <<users, invitations, charges, params, user>>

(* Faulty inviter_follows: the line above once more. *)
inviter_follows_again(w) ==
  /\ pc[w] = "inviter_follows"
  /\ relationships' = Append(relationships, Row(invitations[params[w].token], user[w]))
  /\ Goto(w, "mail")
  /\ UNCHANGED <<users, invitations, charges, params, user>>

(* Relationship.create(leader: @user, follower: invitation.inviter) *)
inviter_follows(w) ==
  /\ pc[w] = "inviter_follows"
  /\ relationships' = Append(relationships, Row(user[w], invitations[params[w].token]))
  /\ Goto(w, "mail")
  /\ UNCHANGED <<users, invitations, charges, params, user>>

(* The welcome mail, then "User has been created!"; or the delivery raises,    *)
(* and an error page.  Nothing is undone.                                      *)
deliver(w) ==
  /\ pc[w] = "mail"
  /\ EndRequest(w)
  /\ UNCHANGED <<tables, charges>>

-----------------------------------------------------------------------------
(* InvitationsController#create, for any current_user u with an account *)

(* User.find_by(email: @invitation.friend_email) finds nobody. *)
invite(w, u, e) ==
  /\ pc[w] = "idle"
  /\ Len(invitations) < MaxInvitations
  /\ \A i \in DOMAIN users : users[i].email # e
  /\ Goto(w, "invite")
  /\ user' = [user EXCEPT ![w] = u]
  /\ UNCHANGED <<tables, charges, params>>

(* @invitation.save, and the job that mails its token. *)
invitation_save(w) ==
  /\ pc[w] = "invite"
  /\ invitations' = Append(invitations, user[w])
  /\ EndRequest(w)
  /\ UNCHANGED <<users, relationships, charges>>

-----------------------------------------------------------------------------
(* RelationshipsController, for any current_user u with an account *)

(* Faulty create: the leader is not looked up. *)
create_unfound(w, u, l) ==
  /\ pc[w] = "idle"
  /\ Len(relationships) < MaxRelationships
  /\ can_follow(u, l)
  /\ Goto(w, "follow")
  /\ params' = [params EXCEPT ![w] = Given(Nil, Nil, Nil, l)]
  /\ user' = [user EXCEPT ![w] = u]
  /\ UNCHANGED <<tables, charges>>

(* User.find(params[:leader_id]) and can_follow? *)
create(w, u, l) ==
  /\ pc[w] = "idle"
  /\ Len(relationships) < MaxRelationships
  /\ l \in DOMAIN users
  /\ can_follow(u, l)
  /\ Goto(w, "follow")
  /\ params' = [params EXCEPT ![w] = Given(Nil, Nil, Nil, l)]
  /\ user' = [user EXCEPT ![w] = u]
  /\ UNCHANGED <<tables, charges>>

(* Relationship.create(follower: current_user, leader: leader) *)
follow(w) ==
  /\ pc[w] = "follow"
  /\ relationships' = Append(relationships, Row(params[w].id, user[w]))
  /\ EndRequest(w)
  /\ UNCHANGED <<users, invitations, charges>>

(* Faulty destroy: whoever asks. *)
destroy_anyone(w, u, r) ==
  /\ pc[w] = "idle"
  /\ relationships[r] # Nil
  /\ Goto(w, "unfollow")
  /\ params' = [params EXCEPT ![w] = Given(Nil, Nil, Nil, r)]
  /\ user' = [user EXCEPT ![w] = u]
  /\ UNCHANGED <<tables, charges>>

(* Relationship.find(params[:id]), and its follower is current_user. *)
destroy(w, u, r) ==
  /\ pc[w] = "idle"
  /\ relationships[r] # Nil
  /\ relationships[r].follower = u
  /\ Goto(w, "unfollow")
  /\ params' = [params EXCEPT ![w] = Given(Nil, Nil, Nil, r)]
  /\ user' = [user EXCEPT ![w] = u]
  /\ UNCHANGED <<tables, charges>>

(* relationship.destroy: DELETE by id. *)
unfollow(w) ==
  /\ pc[w] = "unfollow"
  /\ relationships' = [relationships EXCEPT ![params[w].id] = Nil]
  /\ EndRequest(w)
  /\ UNCHANGED <<users, invitations, charges>>

(* The master kills a worker that has been busy for 15 seconds. *)
unicorn_timeout(w) ==
  /\ Timeouts
  /\ pc[w] # "idle"
  /\ EndRequest(w)
  /\ UNCHANGED <<tables, charges>>

-----------------------------------------------------------------------------
(* The ids a link of a page may carry: those of accounts, and one of none. *)
LinkIds == 1..(Len(users) + 1)

(* What a signup form may carry as token: one that was mailed, or none that exists. *)
Tokens == DOMAIN invitations \cup {Nil}

Request(w) ==
  \/ \E n \in Usernames, e \in Emails, t \in Tokens : sign_up(w, n, e, t)
  \/ \E u \in DOMAIN users, e \in Emails : invite(w, u, e)
  \/ \E u \in DOMAIN users, l \in LinkIds : create(w, u, l)
  \/ \E u \in DOMAIN users, r \in DOMAIN relationships : destroy(w, u, r)

Step(w) ==
  \/ charge_create(w) \/ save(w) \/ find_invitation(w)
  \/ inviter_leads(w) \/ inviter_follows(w) \/ deliver(w)
  \/ invitation_save(w) \/ follow(w) \/ unfollow(w)

Next == \E w \in Workers : Request(w) \/ Step(w) \/ unicorn_timeout(w)

Spec == Init /\ [][Next]_vars

-----------------------------------------------------------------------------
(* Properties *)

Relationship == [leader : DOMAIN users, follower : DOMAIN users]
Params == [username : Usernames \cup {Nil}, email : Emails \cup {Nil},
           token : Tokens, id : Nat \cup {Nil}]

(* The types of the tables and memories.  A key of invitations and of           *)
(* relationships is that of an account, which no foreign key of the schema      *)
(* enforces.                                                                    *)
TypeOK ==
  /\ users \in Seq(User)
  /\ charges \in 0..MaxCharges
  /\ invitations \in Seq(DOMAIN users)
  /\ relationships \in Seq(Relationship \cup {Nil})
  /\ pc \in [Workers -> Labels]
  /\ params \in [Workers -> Params]
  /\ user \in [Workers -> DOMAIN users \cup {Nil}]

(* The workers between a successful charge and the account it pays for. *)
Paying == {w \in Workers : pc[w] = "save"}

(* Nobody opens an account without a charge of their own: sign_up charges      *)
(* before it saves, whatever is killed, declined or raced in between.          *)
AccountsPaid == Len(users) - Len(Seeds) <= charges - Cardinality(Paying)

(* can_follow? keeps users from following themselves; and sign_up never makes   *)
(* the sender of an invitation follow themselves, though the new member may     *)
(* send invitations before sign_up has looked theirs up.                        *)
NobodyFollowsThemselves ==
  \A r \in DOMAIN relationships :
    relationships[r] # Nil => relationships[r].leader # relationships[r].follower

(* A relationship ends only by a request of its follower and does not change    *)
(* before.                                                                      *)
EndedByFollower ==
  [][ \A r \in DOMAIN relationships :
        /\ r \in DOMAIN relationships'
        /\ relationships'[r] # relationships[r]
             => /\ relationships'[r] = Nil
                /\ \E w \in Workers :
                     pc[w] = "unfollow" /\ user[w] = relationships[r].follower ]_vars

(* No two accounts share a username or an email. *)
UniqueMembers ==
  \A i, j \in DOMAIN users :
    users[i].username = users[j].username \/ users[i].email = users[j].email => i = j

(* follows? keeps a user from following the same leader twice. *)
FollowedOnce ==
  \A r, s \in DOMAIN relationships :
    relationships[r] # Nil /\ relationships[r] = relationships[s] => r = s

(* Who is about to be told "User has been created!" has the account they       *)
(* asked for, whichever signups overlap: sign_up does not look at what save     *)
(* returns.                                                                     *)
SuccessMeansMember ==
  \A w \in Workers : pc[w] = "mail" =>
    user[w] \in DOMAIN users /\ users[user[w]] = Account(params[w])

(* ... and they and the sender of their invitation follow each other.          *)
InvitedFollowEachOther ==
  \A w \in Workers : pc[w] = "mail" /\ params[w].token # Nil =>
    /\ follows(user[w], invitations[params[w].token])
    /\ follows(invitations[params[w].token], user[w])

(* A signup under way is an application from valid? to save. *)
Application(w) ==
  IF pc[w] \in {"charge", "save"}
    THEN [member |-> Account(params[w]), paid |-> pc[w] = "save"]
    ELSE Nil

Ideal == INSTANCE Enrolment
  WITH Applicants <- Workers, Kills <- Timeouts,
       LostAnswers <- "unanswered" \in Outcomes,
       revenue <- charges, members <- users,
       applications <- [w \in Workers |-> Application(w)]

(* Whichever signups overlap: an account is opened for one payment, under names *)
(* that were free when its signup began, and a payment without an account is    *)
(* one whose answer was lost or whose worker was killed.                        *)
EnrolmentImplemented == Ideal!Spec
=============================================================================
