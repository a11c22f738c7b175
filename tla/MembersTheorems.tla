-------------------------- MODULE MembersTheorems --------------------------
(***************************************************************************)
(* What holds of Members for any names and any number of workers, with     *)
(* kills and lost answers.                                                 *)
(***************************************************************************)
EXTENDS MembersInvariant

LEMMA InitIInv == Init => IInv
<1> SUFFICES ASSUME Init PROVE IInv
  OBVIOUS
<1>1. Len(Seeds) \in Nat /\ Seeds \in Seq(User) /\ MaxCharges \in Nat
  BY MembersAssumption
<1>2. TablesOK
  BY <1>1 DEF Init, TablesOK
<1>3. NoParams \in Params /\ "idle" \in Labels
  BY DEF NoParams, Given, Params, Tokens, Labels
<1>4. WorkersOK
  BY <1>3 DEF Init, WorkersOK
<1>5. Paying = {}
  BY DEF Init, Paying
<1>6. AccountsPaid
  BY <1>1, <1>5, FS_EmptySet DEF Init, AccountsPaid
<1>7. NobodyFollowsThemselves
  BY DEF Init, NobodyFollowsThemselves
<1>8. ASSUME NEW w \in Workers PROVE MemoryOK(w)
  <2>1. pc[w] = "idle"
    BY Zenon DEF Init
  <2> QED
    BY <2>1
    DEF MemoryOK, FormOK, SavedOK, InvitedOK, InviteOK, FollowOK, UnfollowOK,
        SignupLabels, SavedLabels, InvitedLabels
<1> QED BY <1>2, <1>4, <1>6, <1>7, <1>8, Zenon DEF IInv

-----------------------------------------------------------------------------
(* Requests *)

(* A request that reaches a worker charges nobody and writes no table. *)
LEMMA ArrivedIInv ==
  ASSUME IInv, NEW w \in Workers, NEW l \in Labels, l # "save", NEW p \in Params,
         NEW u \in DOMAIN users \cup {Nil},
         Goto(w, l), params' = [params EXCEPT ![w] = p], user' = [user EXCEPT ![w] = u],
         UNCHANGED <<tables, charges>>, MemoryOK(w)'
  PROVE  IInv'
<1>1. TablesOK /\ WorkersOK /\ AccountsPaid
  BY Zenon DEF IInv
<1>2. charges' \in 0..MaxCharges
  BY <1>1, Zenon DEF TablesOK
<1>3. 0 \in Nat /\ charges' = charges + 0 /\ Len(users') = Len(users)
  BY <1>1, TableFacts DEF tables
<1>4. AccountsPaid'
  BY <1>1, <1>3, PaidStep
<1> QED BY <1>2, <1>4, MemoryStep DEF tables

LEMMA SignUpIInv ==
  ASSUME IInv, NEW w \in Workers, NEW n \in Usernames, NEW e \in Emails, NEW t \in Tokens,
         sign_up(w, n, e, t)
  PROVE  IInv'
<1> DEFINE p == Given(n, e, t, Nil)
<1>1. WorkersOK
  BY Zenon DEF IInv
<1>2. /\ Goto(w, "charge") /\ params' = [params EXCEPT ![w] = p]
      /\ UNCHANGED <<tables, charges>> /\ user' = user
  BY Zenon DEF sign_up
<1>3. p \in Params /\ p.username \in Usernames /\ p.email \in Emails
  BY DEF Given, Params
<1> HIDE DEF p
<1>4. user[w] \in DOMAIN users \cup {Nil} /\ user' = [user EXCEPT ![w] = user[w]]
  BY <1>1, <1>2, Kept, Zenon
<1>5. pc'[w] = "charge" /\ params'[w] = p
  BY <1>1, <1>2, Zenon DEF Goto, WorkersOK
<1>6. MemoryOK(w)'
  BY <1>3, <1>5
  DEF MemoryOK, FormOK, SavedOK, InvitedOK, InviteOK, FollowOK, UnfollowOK,
      SavedLabels, InvitedLabels
<1>7. "charge" \in Labels /\ "charge" # "save"
  BY DEF Labels
<1> QED BY <1>2, <1>3, <1>4, <1>6, <1>7, ArrivedIInv, Zenon

LEMMA InviteIInv ==
  ASSUME IInv, NEW w \in Workers, NEW u \in DOMAIN users, NEW e \in Emails, invite(w, u, e)
  PROVE  IInv'
<1>1. WorkersOK
  BY Zenon DEF IInv
<1>2. /\ Goto(w, "invite") /\ user' = [user EXCEPT ![w] = u]
      /\ UNCHANGED <<tables, charges>> /\ params' = params
  BY Zenon DEF invite
<1>3. params[w] \in Params /\ params' = [params EXCEPT ![w] = params[w]]
  BY <1>1, <1>2, Kept, Zenon
<1>4. pc'[w] = "invite" /\ user'[w] = u
  BY <1>1, <1>2, <1>3, Moved, Zenon
<1>5. users' = users
  BY <1>2 DEF tables
<1>6. MemoryOK(w)'
  BY <1>4, <1>5
  DEF MemoryOK, FormOK, SavedOK, InvitedOK, InviteOK, FollowOK, UnfollowOK,
      SignupLabels, SavedLabels, InvitedLabels
<1>7. "invite" \in Labels /\ "invite" # "save"
  BY DEF Labels
<1> QED BY <1>2, <1>3, <1>6, <1>7, ArrivedIInv, Zenon

LEMMA CreateIInv ==
  ASSUME IInv, NEW w \in Workers, NEW u \in DOMAIN users, NEW k \in LinkIds, create(w, u, k)
  PROVE  IInv'
<1> DEFINE p == Given(Nil, Nil, Nil, k)
<1>1. TablesOK /\ WorkersOK
  BY Zenon DEF IInv
<1>2. /\ Goto(w, "follow") /\ user' = [user EXCEPT ![w] = u]
      /\ params' = [params EXCEPT ![w] = p]
      /\ UNCHANGED <<tables, charges>> /\ k \in DOMAIN users /\ k # u
  BY Zenon DEF create, can_follow
<1>3. k \in Nat
  BY <1>1, TableFacts DEF LinkIds
<1>4. p \in Params /\ p.id = k
  BY <1>3 DEF Given, Params, Tokens
<1> HIDE DEF p
<1>5. pc'[w] = "follow" /\ user'[w] = u /\ params'[w] = p
  BY <1>1, <1>2, Moved, Zenon
<1>6. users' = users
  BY <1>2 DEF tables
<1>7. MemoryOK(w)'
  BY <1>2, <1>4, <1>5, <1>6
  DEF MemoryOK, FormOK, SavedOK, InvitedOK, InviteOK, FollowOK, UnfollowOK,
      SignupLabels, SavedLabels, InvitedLabels
<1>8. "follow" \in Labels /\ "follow" # "save"
  BY DEF Labels
<1> QED BY <1>2, <1>4, <1>7, <1>8, ArrivedIInv, Zenon

LEMMA DestroyIInv ==
  ASSUME IInv, NEW w \in Workers, NEW u \in DOMAIN users, NEW r \in DOMAIN relationships,
         destroy(w, u, r)
  PROVE  IInv'
<1> DEFINE p == Given(Nil, Nil, Nil, r)
<1>1. TablesOK /\ WorkersOK
  BY Zenon DEF IInv
<1>2. /\ Goto(w, "unfollow") /\ user' = [user EXCEPT ![w] = u]
      /\ params' = [params EXCEPT ![w] = p]
      /\ UNCHANGED <<tables, charges>> /\ relationships[r].follower = u
  BY Zenon DEF destroy
<1>3. r \in Nat
  BY <1>1, TableFacts
<1>4. p \in Params /\ p.id = r
  BY <1>3 DEF Given, Params, Tokens
<1> HIDE DEF p
<1>5. pc'[w] = "unfollow" /\ user'[w] = u /\ params'[w] = p
  BY <1>1, <1>2, Moved, Zenon
<1>6. relationships' = relationships
  BY <1>2 DEF tables
<1>7. MemoryOK(w)'
  BY <1>2, <1>4, <1>5, <1>6
  DEF MemoryOK, FormOK, SavedOK, InvitedOK, InviteOK, FollowOK, UnfollowOK,
      SignupLabels, SavedLabels, InvitedLabels
<1>8. "unfollow" \in Labels /\ "unfollow" # "save"
  BY DEF Labels
<1> QED BY <1>2, <1>4, <1>7, <1>8, ArrivedIInv, Zenon

-----------------------------------------------------------------------------
(* The statements of sign_up *)

LEMMA ChargeIInv ==
  ASSUME IInv, NEW w \in Workers, charge_create(w)
  PROVE  IInv'
<1>1. PICK o \in Outcomes :
        /\ \/ o = "declined" /\ UNCHANGED charges
           \/ o # "declined" /\ charges < MaxCharges /\ charges' = charges + 1
        /\ \/ successful(o) /\ Goto(w, "save") /\ UNCHANGED <<params, user>>
           \/ ~successful(o) /\ EndRequest(w)
  BY Zenon DEF charge_create
<1>2. TablesOK /\ WorkersOK /\ AccountsPaid /\ MemoryOK(w)
  BY Zenon DEF IInv
<1>3. charges \in Nat /\ MaxCharges \in Nat /\ charges <= MaxCharges /\ Len(users) \in Nat
  BY <1>2, TableFacts, MembersAssumption DEF TablesOK
<1>4. pc[w] = "charge" /\ UNCHANGED tables
  BY Zenon DEF charge_create
<1>5. CASE ~successful(o)
  <2>1. EndRequest(w)
    BY <1>1, <1>5, Zenon
  <2>2. PICK c \in {0, 1} : charges' = charges + c /\ charges' <= MaxCharges
    BY <1>1, <1>3
  <2> QED BY <1>4, <2>1, <2>2, EndIInv
<1>6. CASE successful(o)
  <2>1. Goto(w, "save") /\ params' = params /\ user' = user
    BY <1>1, <1>6, Zenon
  <2>2. charges' = charges + 1 /\ charges' \in 0..MaxCharges /\ 1 \in Nat
    BY <1>1, <1>3, <1>6 DEF successful
  <2>3. "save" \in Labels /\ Len(users') = Len(users)
    BY <1>4 DEF Labels, tables
  <2>4. AccountsPaid'
    BY <1>2, <2>1, <2>2, <2>3, PaidStep
  <2>5. /\ params[w] \in Params /\ params' = [params EXCEPT ![w] = params[w]]
        /\ user[w] \in DOMAIN users \cup {Nil} /\ user' = [user EXCEPT ![w] = user[w]]
    BY <1>2, <2>1, Kept, Zenon
  <2>6. pc'[w] = "save" /\ params'[w] = params[w]
    BY <1>2, <2>1, Zenon DEF Goto, WorkersOK
  <2>7. params[w].username \in Usernames /\ params[w].email \in Emails
    BY <1>2, <1>4 DEF MemoryOK, FormOK, SignupLabels
  <2>8. MemoryOK(w)'
    BY <2>6, <2>7
    DEF MemoryOK, FormOK, SavedOK, InvitedOK, InviteOK, FollowOK, UnfollowOK,
        SavedLabels, InvitedLabels
  <2> QED BY <1>4, <2>1, <2>2, <2>3, <2>4, <2>5, <2>8, MemoryStep
<1> QED BY <1>5, <1>6

(* @user.save: the new account has a key no invitation was sent under. *)
LEMMA SaveIInv ==
  ASSUME IInv, NEW w \in Workers, save(w)
  PROVE  IInv'
<1> DEFINE p == params[w]
           u == Len(users) + 1
<1>1. TablesOK /\ WorkersOK /\ AccountsPaid /\ NobodyFollowsThemselves /\ MemoryOK(w)
  BY Zenon DEF IInv
<1>2. /\ pc[w] = "save" /\ users' = Append(users, Account(p))
      /\ user' = [user EXCEPT ![w] = u] /\ Goto(w, "invitation")
      /\ invitations' = invitations /\ relationships' = relationships
      /\ charges' = charges /\ params' = params
  BY Zenon DEF save
<1>3. p.username \in Usernames /\ p.email \in Emails
  BY <1>1, <1>2 DEF MemoryOK, FormOK, SignupLabels
<1>4. p \in Params /\ params' = [params EXCEPT ![w] = p]
  BY <1>1, <1>2, Kept, Zenon
<1>5. p.token \in Tokens
  BY <1>4 DEF Params
<1> HIDE DEF p
<1>6. Account(p) \in User
  BY <1>3 DEF Account, User
<1>7. users \in Seq(User)
  BY <1>1, Zenon DEF TablesOK
<1>8. /\ users' \in Seq(User) /\ Len(users) \in Nat /\ DOMAIN users = 1..Len(users)
      /\ Len(users') = Len(users) + 1 /\ DOMAIN users' = 1..(Len(users) + 1)
      /\ \A i \in 1..Len(users) : users'[i] = users[i]
      /\ users'[u] = Account(p)
  BY <1>2, <1>6, <1>7, AppendFacts
<1>9. /\ DOMAIN users \subseteq DOMAIN users' /\ u \in DOMAIN users' /\ u \notin DOMAIN users
  BY <1>8
<1>10. Grown
  BY <1>2, <1>8, <1>9 DEF Grown
<1>11. TablesOK'
  <2>1. invitations' \in Seq(DOMAIN users')
    BY <1>1, <1>2, <1>9, WiderSeq, Zenon DEF TablesOK
  <2>2. Relationship \subseteq Relationship'
    BY <1>9 DEF Relationship
  <2>3. relationships' \in Seq(Relationship' \cup {Nil})
    <3>1. Relationship \cup {Nil} \subseteq Relationship' \cup {Nil}
      BY <2>2
    <3>2. relationships' \in Seq(Relationship \cup {Nil})
      BY <1>1, <1>2, Zenon DEF TablesOK
    <3> QED BY <3>1, <3>2, WiderSeq, Zenon
  <2> QED BY <1>1, <1>2, <1>8, <2>1, <2>3, Zenon DEF TablesOK
<1>12. AccountsPaid'
  <2>1. 0 \in Nat /\ charges' = charges + 0 /\ "invitation" \in Labels /\ "invitation" # "save"
    BY <1>1, <1>2, TableFacts DEF Labels
  <2> QED BY <1>1, <1>2, <1>8, <2>1, PaidStep
<1>13. NobodyFollowsThemselves'
  BY <1>1, <1>2, Zenon DEF NobodyFollowsThemselves
<1>14. p \in Params'
  <2>1. Tokens' = Tokens
    BY <1>2, Zenon DEF Tokens
  <2> QED BY <1>4, <2>1, Zenon DEF Params
<1>15. MemoryOK(w)'
  <2>1. pc'[w] = "invitation" /\ params'[w] = p /\ user'[w] = u
    BY <1>1, <1>2, <1>4, Moved, Zenon
  <2>2. p.token # Nil => invitations'[p.token] # u
    BY <1>1, <1>2, <1>5, <1>9, TableFacts DEF Tokens
  <2>3. SavedOK(w)'
    BY <1>8, <1>9, <2>1, <2>2, Zenon DEF SavedOK, Account
  <2> QED
    BY <1>3, <2>1, <2>3
    DEF MemoryOK, FormOK, InvitedOK, InviteOK, FollowOK, UnfollowOK,
        SignupLabels, InvitedLabels
<1>16. "invitation" \in Labels
  BY DEF Labels
<1> HIDE DEF u
<1> QED
  BY <1>2, <1>4, <1>9, <1>10, <1>11, <1>12, <1>13, <1>14, <1>15, <1>16, StepIInv, Zenon

LEMMA FindInvitationIInv ==
  ASSUME IInv, NEW w \in Workers, find_invitation(w)
  PROVE  IInv'
<1> DEFINE l == IF params[w].token # Nil THEN "inviter_leads" ELSE "mail"
<1>1. TablesOK /\ WorkersOK /\ AccountsPaid /\ MemoryOK(w)
  BY Zenon DEF IInv
<1>2. /\ pc[w] = "invitation" /\ Goto(w, l)
      /\ UNCHANGED <<tables, charges>> /\ params' = params /\ user' = user
  BY Zenon DEF find_invitation
<1>3. l \in Labels /\ l # "save" /\ l \in SavedLabels /\ l \in SignupLabels
  BY DEF Labels, SavedLabels, SignupLabels
<1>4. l \in InvitedLabels => params[w].token # Nil
  BY DEF InvitedLabels
<1>5. l \notin {"invite", "follow", "unfollow"}
  OBVIOUS
<1> HIDE DEF l
<1>6. /\ params[w] \in Params /\ params' = [params EXCEPT ![w] = params[w]]
      /\ user[w] \in DOMAIN users \cup {Nil} /\ user' = [user EXCEPT ![w] = user[w]]
  BY <1>1, <1>2, Kept, Zenon
<1>7. pc'[w] = l
  BY <1>1, <1>2, Zenon DEF Goto, WorkersOK
<1>8. FormOK(w)' /\ SavedOK(w)'
  <2>1. pc[w] \in SignupLabels /\ pc[w] \in SavedLabels
    BY <1>2 DEF SignupLabels, SavedLabels
  <2>2. users' = users /\ invitations' = invitations
    BY <1>2 DEF tables
  <2> QED BY <1>1, <1>2, <2>1, <2>2, Zenon DEF MemoryOK, FormOK, SavedOK, Account
<1>9. InvitedOK(w)' /\ InviteOK(w)' /\ FollowOK(w)' /\ UnfollowOK(w)'
  BY <1>2, <1>4, <1>5, <1>7 DEF InvitedOK, InviteOK, FollowOK, UnfollowOK
<1>10. MemoryOK(w)'
  BY <1>8, <1>9, Zenon DEF MemoryOK
<1> QED BY <1>2, <1>3, <1>6, <1>10, ArrivedIInv, Zenon

(* The sender of the invitation has an account, and not the one just opened. *)
LEMMA InvitedIInv ==
  ASSUME IInv, NEW w \in Workers, inviter_leads(w) \/ inviter_follows(w)
  PROVE  IInv'
<1> DEFINE p == params[w]
           i == invitations[params[w].token]
           u == user[w]
           l == IF inviter_leads(w) THEN "inviter_follows" ELSE "mail"
<1>1. TablesOK /\ WorkersOK /\ MemoryOK(w)
  BY Zenon DEF IInv
<1>2. /\ pc[w] \in InvitedLabels
      /\ Goto(w, l) /\ UNCHANGED <<users, invitations, charges>>
      /\ params' = params /\ user' = user
      /\ relationships' \in {Append(relationships, Row(i, u)), Append(relationships, Row(u, i))}
  <2>1. CASE inviter_leads(w)
    BY <2>1, Zenon DEF inviter_leads, InvitedLabels
  <2>2. CASE ~inviter_leads(w)
    BY <2>2, Zenon DEF inviter_follows, InvitedLabels
  <2> QED BY <2>1, <2>2, Zenon
<1>3. pc[w] \in SavedLabels /\ pc[w] \in SignupLabels /\ pc[w] # "save"
  BY <1>2 DEF InvitedLabels, SavedLabels, SignupLabels
<1>4. u \in DOMAIN users /\ p.token # Nil /\ i # u
  BY <1>1, <1>2, <1>3, Zenon DEF MemoryOK, SavedOK, InvitedOK
<1>5. /\ p \in Params /\ params' = [params EXCEPT ![w] = p]
      /\ user' = [user EXCEPT ![w] = u]
  BY <1>1, <1>2, Kept, Zenon
<1>6. i \in DOMAIN users
  <2>1. p.token \in DOMAIN invitations
    BY <1>4, <1>5 DEF Params, Tokens
  <2> QED BY <1>1, <2>1, TableFacts, Zenon
<1>7. l \in Labels /\ l # "save" /\ l \in SavedLabels /\ l \in SignupLabels
  BY DEF Labels, SavedLabels, SignupLabels
<1>8. l \notin {"invite", "follow", "unfollow"}
  OBVIOUS
<1> HIDE DEF l
<1>9. pc'[w] = l
  BY <1>1, <1>2, Zenon DEF Goto, WorkersOK
<1>10. FormOK(w)' /\ SavedOK(w)'
  <2>1. users' = users /\ invitations' = invitations
    BY <1>2
  <2> QED BY <1>1, <1>2, <1>3, <2>1, Zenon DEF MemoryOK, FormOK, SavedOK, Account
<1>11. InvitedOK(w)' /\ InviteOK(w)' /\ FollowOK(w)' /\ UnfollowOK(w)'
  BY <1>2, <1>4, <1>8, <1>9 DEF InvitedOK, InviteOK, FollowOK, UnfollowOK
<1>12. MemoryOK(w)'
  BY <1>10, <1>11, Zenon DEF MemoryOK
<1>13. u \in DOMAIN users \cup {Nil}
  BY <1>4
<1> HIDE DEF i, u, p
<1>14. CASE relationships' = Append(relationships, Row(i, u))
  BY <1>2, <1>3, <1>4, <1>5, <1>6, <1>7, <1>12, <1>13, <1>14, RowStep, Zenon
<1>15. CASE relationships' = Append(relationships, Row(u, i))
  BY <1>2, <1>3, <1>4, <1>5, <1>6, <1>7, <1>12, <1>13, <1>15, RowStep, Zenon
<1> QED BY <1>2, <1>14, <1>15, Zenon

-----------------------------------------------------------------------------
(* The rows of invitations and relationships *)

LEMMA InvitationSaveIInv ==
  ASSUME IInv, NEW w \in Workers, invitation_save(w)
  PROVE  IInv'
<1>1. TablesOK /\ WorkersOK /\ AccountsPaid /\ NobodyFollowsThemselves /\ MemoryOK(w)
  BY Zenon DEF IInv
<1>2. /\ pc[w] = "invite" /\ invitations' = Append(invitations, user[w])
      /\ EndRequest(w) /\ users' = users /\ relationships' = relationships
      /\ charges' = charges
  BY Zenon DEF invitation_save
<1>3. user[w] \in DOMAIN users /\ invitations \in Seq(DOMAIN users)
  BY <1>1, <1>2, Zenon DEF MemoryOK, InviteOK, TablesOK
<1>4. /\ invitations' \in Seq(DOMAIN users) /\ DOMAIN invitations = 1..Len(invitations)
      /\ Len(invitations) \in Nat /\ DOMAIN invitations' = 1..(Len(invitations) + 1)
      /\ \A k \in 1..Len(invitations) : invitations'[k] = invitations[k]
  BY <1>2, <1>3, AppendFacts
<1>5. DOMAIN invitations \subseteq DOMAIN invitations'
  BY <1>4
<1>6. Grown
  BY <1>2, <1>4, <1>5, Zenon DEF Grown
<1>7. TablesOK'
  BY <1>1, <1>2, <1>4, Zenon DEF TablesOK, Relationship
<1>8. NobodyFollowsThemselves'
  BY <1>1, <1>2, Zenon DEF NobodyFollowsThemselves
<1>9. /\ Goto(w, "idle") /\ "idle" \in Labels /\ params' = [params EXCEPT ![w] = NoParams]
      /\ user' = [user EXCEPT ![w] = Nil] /\ MemoryOK(w)'
  BY <1>1, <1>2, EndMemory, Zenon
<1>10. AccountsPaid'
  <2>1. 0 \in Nat /\ charges' = charges + 0 /\ Len(users') = Len(users)
    BY <1>1, <1>2, TableFacts
  <2> QED BY <1>1, <1>9, <2>1, PaidStep
<1>11. NoParams \in Params' /\ Nil \in DOMAIN users' \cup {Nil}
  BY DEF NoParams, Given, Params, Tokens
<1> QED BY <1>6, <1>7, <1>8, <1>9, <1>10, <1>11, StepIInv, Zenon

LEMMA FollowIInv ==
  ASSUME IInv, NEW w \in Workers, follow(w)
  PROVE  IInv'
<1> DEFINE a == params[w].id
           b == user[w]
<1>1. WorkersOK /\ MemoryOK(w)
  BY Zenon DEF IInv
<1>2. /\ pc[w] = "follow" /\ relationships' = Append(relationships, Row(a, b))
      /\ EndRequest(w) /\ UNCHANGED <<users, invitations, charges>>
  BY Zenon DEF follow
<1>3. a \in DOMAIN users /\ b \in DOMAIN users /\ a # b
  BY <1>1, <1>2, Zenon DEF MemoryOK, FollowOK
<1> HIDE DEF a, b
<1>4. /\ Goto(w, "idle") /\ "idle" \in Labels /\ params' = [params EXCEPT ![w] = NoParams]
      /\ user' = [user EXCEPT ![w] = Nil] /\ MemoryOK(w)' /\ NoParams \in Params
  BY <1>1, <1>2, EndMemory, Kept, Zenon
<1>5. Nil \in DOMAIN users \cup {Nil} /\ "idle" # "save" /\ pc[w] # "save"
  BY <1>2
<1> QED BY <1>2, <1>3, <1>4, <1>5, RowStep, Zenon

(* DELETE: the row is gone, the others stay. *)
LEMMA UnfollowIInv ==
  ASSUME IInv, NEW w \in Workers, unfollow(w)
  PROVE  IInv'
<1> DEFINE d == params[w].id
<1>1. TablesOK /\ WorkersOK /\ AccountsPaid /\ NobodyFollowsThemselves /\ MemoryOK(w)
  BY Zenon DEF IInv
<1>2. /\ pc[w] = "unfollow" /\ relationships' = [relationships EXCEPT ![d] = Nil]
      /\ EndRequest(w) /\ users' = users /\ invitations' = invitations /\ charges' = charges
  BY Zenon DEF unfollow
<1>3. /\ d \in 1..Len(relationships)
      /\ relationships \in Seq(Relationship \cup {Nil}) /\ Nil \in Relationship \cup {Nil}
  BY <1>1, <1>2, TableFacts, Zenon DEF TablesOK, MemoryOK, UnfollowOK
<1> HIDE DEF d
<1>4. relationships' \in Seq(Relationship \cup {Nil})
  BY <1>2, <1>3, ExceptSeq
<1>5. DOMAIN relationships' = DOMAIN relationships
  BY <1>2, Zenon
<1>6. \A r \in DOMAIN relationships : relationships'[r] \in {relationships[r], Nil}
  BY <1>2, Zenon
<1>7. Grown
  BY <1>2, <1>5, <1>6, Zenon DEF Grown
<1>8. TablesOK'
  BY <1>1, <1>2, <1>4, Zenon DEF TablesOK, Relationship
<1>9. NobodyFollowsThemselves'
  BY <1>1, <1>5, <1>6, Zenon DEF NobodyFollowsThemselves
<1>10. /\ Goto(w, "idle") /\ "idle" \in Labels /\ params' = [params EXCEPT ![w] = NoParams]
       /\ user' = [user EXCEPT ![w] = Nil] /\ MemoryOK(w)'
  BY <1>1, <1>2, EndMemory, Zenon
<1>11. AccountsPaid'
  <2>1. 0 \in Nat /\ charges' = charges + 0 /\ Len(users') = Len(users)
    BY <1>1, <1>2, TableFacts
  <2> QED BY <1>1, <1>10, <2>1, PaidStep
<1>12. NoParams \in Params' /\ Nil \in DOMAIN users' \cup {Nil}
  BY DEF NoParams, Given, Params, Tokens
<1> QED BY <1>7, <1>8, <1>9, <1>10, <1>11, <1>12, StepIInv, Zenon

-----------------------------------------------------------------------------
(* The invariant *)

(* A step that only ends a request. *)
LEMMA EndedIInv ==
  ASSUME IInv, NEW w \in Workers, EndRequest(w), UNCHANGED <<tables, charges>>
  PROVE  IInv'
<1>1. TablesOK
  BY Zenon DEF IInv
<1>2. 0 \in Nat /\ charges' = charges + 0 /\ charges' <= MaxCharges
  BY <1>1, TableFacts, MembersAssumption DEF TablesOK
<1> QED BY <1>2, EndIInv

LEMMA StutterIInv ==
  ASSUME IInv, UNCHANGED vars
  PROVE  IInv'
<1>1. /\ users' = users /\ invitations' = invitations /\ relationships' = relationships
      /\ charges' = charges /\ pc' = pc /\ params' = params /\ user' = user
  BY DEF vars, tables
<1>2. TablesOK'
  BY <1>1, Zenon DEF IInv, TablesOK, Relationship
<1>3. WorkersOK'
  BY <1>1, Zenon DEF IInv, WorkersOK, Params, Tokens
<1>4. AccountsPaid' /\ NobodyFollowsThemselves'
  BY <1>1, Zenon DEF IInv, AccountsPaid, Paying, NobodyFollowsThemselves
<1>5. ASSUME NEW w \in Workers PROVE MemoryOK(w)'
  <2>1. WorkersOK /\ MemoryOK(w)
    BY Zenon DEF IInv
  <2>2. Grown
    BY <1>1, Zenon DEF Grown
  <2>3. pc'[w] = pc[w] /\ params'[w] = params[w] /\ user'[w] = user[w]
    BY <1>1, Zenon
  <2> QED BY <2>1, <2>2, <2>3, OthersKeep, Zenon
<1> QED BY <1>2, <1>3, <1>4, <1>5, Zenon DEF IInv

LEMMA NextIInv == IInv /\ [Next]_vars => IInv'
<1> SUFFICES ASSUME IInv, [Next]_vars PROVE IInv'
  OBVIOUS
<1>1. CASE UNCHANGED vars
  BY <1>1, StutterIInv, Zenon
<1>2. ASSUME NEW w \in Workers, Request(w) PROVE IInv'
  BY <1>2, SignUpIInv, InviteIInv, CreateIInv, DestroyIInv, Zenon DEF Request
<1>3. ASSUME NEW w \in Workers, Step(w) PROVE IInv'
  <2>1. CASE deliver(w)
    BY <2>1, EndedIInv, Zenon DEF deliver
  <2> QED
    BY <1>3, <2>1, ChargeIInv, SaveIInv, FindInvitationIInv, InvitedIInv,
       InvitationSaveIInv, FollowIInv, UnfollowIInv, Zenon DEF Step
<1>4. ASSUME NEW w \in Workers, unicorn_timeout(w) PROVE IInv'
  BY <1>4, EndedIInv, Zenon DEF unicorn_timeout
<1> QED BY <1>1, <1>2, <1>3, <1>4, Zenon DEF Next

LEMMA MembersInvariance == Spec => []IInv
<1> QED BY InitIInv, NextIInv, PTL DEF Spec

-----------------------------------------------------------------------------
(* What follows *)

(* The tables and memories always have their types: in particular every key of   *)
(* invitations and of relationships is that of an account, without a foreign     *)
(* key in the schema.                                                            *)
THEOREM MembersTypeCorrect == Spec => []TypeOK
<1>1. IInv => TypeOK
  BY Zenon DEF IInv, TablesOK, WorkersOK, TypeOK
<1> QED BY <1>1, MembersInvariance, PTL

(* sign_up charges before it saves: there are never more new accounts than        *)
(* charges, those that are still to be followed by an account not counted.        *)
THEOREM MembersPaid == Spec => []AccountsPaid
<1>1. IInv => AccountsPaid
  BY Zenon DEF IInv
<1> QED BY <1>1, MembersInvariance, PTL

(* Nobody follows themselves: neither through can_follow?, checked one statement  *)
(* before the row is written, nor through the two rows of an invitation.          *)
THEOREM NoSelfFollowing == Spec => []NobodyFollowsThemselves
<1>1. IInv => NobodyFollowsThemselves
  BY Zenon DEF IInv
<1> QED BY <1>1, MembersInvariance, PTL

(* Whoever reaches the end of sign_up has the account of their form, although     *)
(* sign_up does not look at what save returns and signups overlap.                *)
THEOREM SuccessIsMembership == Spec => []SuccessMeansMember
<1>1. IInv => SuccessMeansMember
  <2> SUFFICES ASSUME IInv, NEW w \in Workers, pc[w] = "mail"
               PROVE  user[w] \in DOMAIN users /\ users[user[w]] = Account(params[w])
    BY Zenon DEF SuccessMeansMember
  <2>1. "mail" \in SavedLabels
    BY DEF SavedLabels
  <2> QED BY <2>1, Zenon DEF IInv, MemoryOK, SavedOK
<1> QED BY <1>1, MembersInvariance, PTL

(* What EndedByFollower asks of one row in one step. *)
RowKept(r) ==
  /\ r \in DOMAIN relationships'
  /\ relationships'[r] # relationships[r]
       => /\ relationships'[r] = Nil
          /\ \E w \in Workers : pc[w] = "unfollow" /\ user[w] = relationships[r].follower

(* The rows there are stay when one is appended. *)
LEMMA AppendKeeps ==
  ASSUME IInv, NEW a, relationships' = Append(relationships, a), NEW r \in DOMAIN relationships
  PROVE  RowKept(r)
<1>1. r \in DOMAIN relationships' /\ relationships'[r] = relationships[r]
  BY DEF IInv, TablesOK
<1> QED BY <1>1, Zenon DEF RowKept

LEMMA StepKeepsRows ==
  ASSUME IInv, [Next]_vars, NEW r \in DOMAIN relationships
  PROVE  RowKept(r)
<1>1. CASE relationships' = relationships
  BY <1>1, Zenon DEF RowKept
<1>2. ASSUME NEW w \in Workers, unfollow(w) PROVE RowKept(r)
  <2>1. /\ pc[w] = "unfollow" /\ relationships' = [relationships EXCEPT ![params[w].id] = Nil]
        /\ MemoryOK(w)
    BY <1>2, Zenon DEF unfollow, IInv
  <2>2. r \in DOMAIN relationships'
    BY <2>1, Zenon
  <2>3. CASE r # params[w].id
    <3>1. relationships'[r] = relationships[r]
      BY <2>1, <2>3, Zenon
    <3> QED BY <2>2, <3>1, Zenon DEF RowKept
  <2>4. CASE r = params[w].id
    <3>1. relationships'[r] = Nil
      BY <2>1, <2>4, Zenon
    <3>2. relationships[r] = Nil \/ relationships[r].follower = user[w]
      BY <2>1, <2>4, Zenon DEF MemoryOK, UnfollowOK
    <3> QED BY <2>1, <2>2, <3>1, <3>2, Zenon DEF RowKept
  <2> QED BY <2>3, <2>4
<1>3. ASSUME NEW w \in Workers, inviter_leads(w) \/ inviter_follows(w) \/ follow(w)
      PROVE  RowKept(r)
  BY <1>3, AppendKeeps, Zenon DEF inviter_leads, inviter_follows, follow
<1>4. ASSUME NEW w \in Workers, Request(w) PROVE relationships' = relationships
  <2>1. UNCHANGED tables
    BY <1>4, Zenon DEF Request, sign_up, invite, create, destroy
  <2> QED BY <2>1 DEF tables
<1>5. ASSUME NEW w \in Workers,
             charge_create(w) \/ find_invitation(w) \/ deliver(w) \/ unicorn_timeout(w)
      PROVE  relationships' = relationships
  <2>1. UNCHANGED tables
    BY <1>5, Zenon DEF charge_create, find_invitation, deliver, unicorn_timeout
  <2> QED BY <2>1 DEF tables
<1>6. ASSUME NEW w \in Workers, save(w) \/ invitation_save(w)
      PROVE  relationships' = relationships
  BY <1>6, Zenon DEF save, invitation_save
<1>7. ASSUME UNCHANGED vars PROVE relationships' = relationships
  BY <1>7 DEF vars, tables
<1> QED BY <1>1, <1>2, <1>3, <1>4, <1>5, <1>6, <1>7, Zenon DEF Next, Step

(* A relationship ends only by a request of its follower: whatever id a link       *)
(* carries and whoever else is served between the find and the DELETE.             *)
THEOREM OnlyFollowerEnds == Spec => EndedByFollower
<1>1. IInv /\ [Next]_vars => [\A r \in DOMAIN relationships : RowKept(r)]_vars
  BY StepKeepsRows, Zenon
<1> QED BY <1>1, MembersInvariance, PTL DEF Spec, EndedByFollower, RowKept
=============================================================================
