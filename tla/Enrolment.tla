----------------------------- MODULE Enrolment -----------------------------
(***************************************************************************)
(* What signing up promises while several people sign up at once: who      *)
(* applies under names that no member has, and pays, becomes a member      *)
(* under these names.  One payment makes one member; it is lost only with  *)
(* the answer that confirms it, or with the server that waits for it.      *)
(***************************************************************************)
EXTENDS Integers, Sequences

CONSTANTS
  Usernames, Emails, Seeds,
  Applicants,   \* those who can have an application under way
  Kills,        \* may an application be cut short?
  LostAnswers,  \* may a payment be made and its confirmation be lost?
  Nil           \* no application

VARIABLES
  revenue,      \* payments made
  members,      \* the accounts, in the order they were opened
  applications  \* applicant -> the application under way, or Nil

vars == <<revenue, members, applications>>

Init ==
  /\ revenue = 0
  /\ members = Seeds
  /\ applications = [a \in Applicants |-> Nil]

Free(n, e) == \A i \in DOMAIN members : members[i].username # n /\ members[i].email # e

Set(a, x) == applications' = [applications EXCEPT ![a] = x]

Apply(a, n, e) ==
  /\ applications[a] = Nil
  /\ Free(n, e)
  /\ Set(a, [member |-> [username |-> n, email |-> e], paid |-> FALSE])
  /\ UNCHANGED <<revenue, members>>

Unpaid(a) == applications[a] # Nil /\ ~applications[a].paid
Paid(a) == applications[a] # Nil /\ applications[a].paid

Pay(a) ==
  /\ Unpaid(a)
  /\ Set(a, [member |-> applications[a].member, paid |-> TRUE])
  /\ revenue' = revenue + 1
  /\ UNCHANGED members

(* The only step that opens an account. *)
Join(a) ==
  /\ Paid(a)
  /\ members' = Append(members, applications[a].member)
  /\ Set(a, Nil)
  /\ UNCHANGED revenue

(* Nothing is paid, nothing is opened. *)
Refuse(a) ==
  /\ Unpaid(a)
  /\ Set(a, Nil)
  /\ UNCHANGED <<revenue, members>>

(* The two ways to pay for nothing. *)
LoseAnswer(a) ==
  /\ LostAnswers
  /\ Unpaid(a)
  /\ Set(a, Nil)
  /\ revenue' = revenue + 1
  /\ UNCHANGED members

Kill(a) ==
  /\ Kills
  /\ Paid(a)
  /\ Set(a, Nil)
  /\ UNCHANGED <<revenue, members>>

Next ==
  \E a \in Applicants :
    \/ \E n \in Usernames, e \in Emails : Apply(a, n, e)
    \/ Pay(a) \/ Join(a) \/ Refuse(a) \/ LoseAnswer(a) \/ Kill(a)

Spec == Init /\ [][Next]_vars
=============================================================================
