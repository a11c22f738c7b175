-------------------------- MODULE MembersEnrolment --------------------------
(***************************************************************************)
(* Members implements Enrolment: for any number of workers, whichever      *)
(* signups overlap, workers are killed and answers of Stripe are lost.     *)
(***************************************************************************)
EXTENDS MembersTheorems

(* The abstract applications. *)
Apps == [w \in Workers |-> Application(w)]

(* Where w has an application under way. *)
Applying == {"charge", "save"}

LEMMA InitMaps == Init => Ideal!Init
<1> SUFFICES ASSUME Init PROVE Ideal!Init
  OBVIOUS
<1>1. ASSUME NEW w \in Workers PROVE Application(w) = Nil
  <2>1. pc[w] = "idle"
    BY Zenon DEF Init
  <2> QED BY <2>1 DEF Application
<1>2. [w \in Workers |-> Application(w)] = [w \in Workers |-> Nil]
  BY <1>1
<1>3. charges = 0 /\ users = Seeds
  BY Zenon DEF Init
<1> QED BY <1>2, <1>3, Zenon DEF Ideal!Init

(* What an application is, and that it is never Nil while it is under way. *)
LEMMA AppFacts ==
  ASSUME IInv, NEW w \in Workers
  PROVE  /\ Apps[w] = Application(w)
         /\ pc[w] \notin Applying => Application(w) = Nil
         /\ pc[w] = "charge" =>
              /\ Application(w) = [member |-> Account(params[w]), paid |-> FALSE]
              /\ Application(w) # Nil /\ ~Application(w).paid
              /\ Application(w).member = Account(params[w])
         /\ pc[w] = "save" =>
              /\ Application(w) = [member |-> Account(params[w]), paid |-> TRUE]
              /\ Application(w) # Nil /\ Application(w).paid
              /\ Application(w).member = Account(params[w])
<1>1. Apps[w] = Application(w)
  BY Zenon DEF Apps
<1>2. pc[w] \notin Applying => Application(w) = Nil
  BY Zenon DEF Applying, Application
<1>3. pc[w] \in Applying => Account(params[w]) \in User
  <2> SUFFICES ASSUME pc[w] \in Applying PROVE Account(params[w]) \in User
    OBVIOUS
  <2>1. pc[w] \in SignupLabels
    BY DEF Applying, SignupLabels
  <2>2. params[w].username \in Usernames /\ params[w].email \in Emails
    BY <2>1, Zenon DEF IInv, MemoryOK, FormOK
  <2> QED BY <2>2 DEF Account, User
<1>4. ASSUME NEW m \in User, NEW b \in BOOLEAN
      PROVE  /\ [member |-> m, paid |-> b] # Nil
             /\ [member |-> m, paid |-> b].member = m /\ [member |-> m, paid |-> b].paid = b
  <2>1. [member |-> m, paid |-> b] \in [member : User, paid : BOOLEAN]
    OBVIOUS
  <2> QED BY <2>1, MembersNil
<1>5. pc[w] = "charge" => Application(w) = [member |-> Account(params[w]), paid |-> FALSE]
  BY DEF Application
<1>6. pc[w] = "save" => Application(w) = [member |-> Account(params[w]), paid |-> TRUE]
  BY DEF Application
<1>7. "charge" \in Applying /\ "save" \in Applying /\ FALSE \in BOOLEAN /\ TRUE \in BOOLEAN
  BY DEF Applying
<1>8. pc[w] = "charge" =>
        /\ Application(w) # Nil /\ ~Application(w).paid
        /\ Application(w).member = Account(params[w])
  BY <1>3, <1>4, <1>5, <1>7
<1>9. pc[w] = "save" =>
        /\ Application(w) # Nil /\ Application(w).paid
        /\ Application(w).member = Account(params[w])
  BY <1>3, <1>4, <1>6, <1>7
<1> QED BY <1>1, <1>2, <1>5, <1>6, <1>8, <1>9, Zenon

(* A step of w changes the application of w alone. *)
LEMMA AppsStep ==
  ASSUME WorkersOK, NEW w \in Workers, NEW l, Goto(w, l), NEW p,
         params' = [params EXCEPT ![w] = p]
  PROVE  Apps' = [Apps EXCEPT ![w] = Application(w)']
<1>1. ASSUME NEW x \in Workers, x # w PROVE Application(x)' = Application(x)
  <2>1. pc'[x] = pc[x] /\ params'[x] = params[x]
    BY <1>1, Zenon DEF WorkersOK, Goto
  <2> QED BY <2>1, Zenon DEF Application, Account
<1> QED BY <1>1 DEF Apps

(* A step that neither enters nor leaves Applying, nor moves within it. *)
LEMMA SameApps ==
  ASSUME WorkersOK, NEW w \in Workers, NEW l, Goto(w, l),
         pc[w] \notin Applying, l \notin Applying, NEW p, params' = [params EXCEPT ![w] = p]
  PROVE  Apps' = Apps
<1>1. pc'[w] = l
  BY Zenon DEF WorkersOK, Goto
<1>2. Application(w)' = Nil /\ Application(w) = Nil
  BY <1>1, Zenon DEF Application, Applying
<1>3. Apps[w] = Nil /\ Apps = [x \in Workers |-> Apps[x]]
  BY <1>2 DEF Apps
<1> QED BY <1>2, <1>3, AppsStep

(* The end of a request that had an application. *)
LEMMA EndApps ==
  ASSUME WorkersOK, NEW w \in Workers, EndRequest(w)
  PROVE  Apps' = [Apps EXCEPT ![w] = Nil]
<1>1. Goto(w, "idle") /\ params' = [params EXCEPT ![w] = NoParams]
  BY Zenon DEF EndRequest
<1>2. pc'[w] = "idle"
  BY <1>1, Zenon DEF WorkersOK, Goto
<1>3. Application(w)' = Nil
  BY <1>2 DEF Application
<1> QED BY <1>1, <1>3, AppsStep, Zenon

-----------------------------------------------------------------------------
(* The steps that matter to Enrolment *)

LEMMA SignUpApplies ==
  ASSUME IInv, NEW w \in Workers, NEW n \in Usernames, NEW e \in Emails, NEW t \in Tokens,
         sign_up(w, n, e, t)
  PROVE  Ideal!Apply(w, n, e)
<1> DEFINE p == Given(n, e, t, Nil)
<1>1. WorkersOK
  BY Zenon DEF IInv
<1>2. /\ pc[w] = "idle" /\ ~Taken(n, e) /\ Goto(w, "charge")
      /\ params' = [params EXCEPT ![w] = p] /\ charges' = charges
  BY Zenon DEF sign_up
<1>3. users' = users
  BY DEF sign_up, tables
<1>4. pc'[w] = "charge" /\ params'[w] = p
  BY <1>1, <1>2, Zenon DEF WorkersOK, Goto
<1>5. Account(p) = [username |-> n, email |-> e]
  BY DEF Account, Given
<1> HIDE DEF p
<1>6. Application(w)' = [member |-> Account(p), paid |-> FALSE]
  BY <1>4 DEF Application, Account
<1>7. Apps' = [Apps EXCEPT ![w] = [member |-> [username |-> n, email |-> e], paid |-> FALSE]]
  BY <1>1, <1>2, <1>5, <1>6, AppsStep, Zenon
<1>8. Apps[w] = Nil
  BY <1>2, AppFacts DEF Applying
<1>9. Ideal!Free(n, e)
  BY <1>2, Zenon DEF Taken, Ideal!Free
<1> QED BY <1>2, <1>3, <1>7, <1>8, <1>9, Zenon DEF Ideal!Apply, Ideal!Set, Apps

(* What the two states of an application are to Enrolment. *)
LEMMA PaidOrNot ==
  ASSUME IInv, NEW w \in Workers
  PROVE  /\ pc[w] = "charge" => Ideal!Unpaid(w)
         /\ pc[w] = "save" => Ideal!Paid(w)
<1>1. [x \in Workers |-> Application(x)][w] = Application(w)
  BY Zenon
<1> QED BY <1>1, AppFacts, Zenon DEF Ideal!Unpaid, Ideal!Paid

LEMMA ChargeMaps ==
  ASSUME IInv, NEW w \in Workers, charge_create(w)
  PROVE  Ideal!Pay(w) \/ Ideal!Refuse(w) \/ Ideal!LoseAnswer(w)
<1>1. PICK o \in Outcomes :
        /\ \/ o = "declined" /\ UNCHANGED charges
           \/ o # "declined" /\ charges < MaxCharges /\ charges' = charges + 1
        /\ \/ successful(o) /\ Goto(w, "save") /\ UNCHANGED <<params, user>>
           \/ ~successful(o) /\ EndRequest(w)
  BY Zenon DEF charge_create
<1>2. WorkersOK /\ pc[w] = "charge"
  BY Zenon DEF IInv, charge_create
<1>3. users' = users
  BY DEF charge_create, tables
<1>4. Ideal!Unpaid(w)
  BY <1>2, PaidOrNot, Zenon
<1>5. CASE ~successful(o)
  <2>1. Apps' = [Apps EXCEPT ![w] = Nil]
    BY <1>1, <1>2, <1>5, EndApps, Zenon
  <2>2. Ideal!Set(w, Nil)
    BY <2>1, Zenon DEF Ideal!Set, Apps
  <2>3. CASE o = "declined"
    <3>1. charges' = charges
      BY <1>1, <2>3, Zenon
    <3> QED BY <1>3, <1>4, <2>2, <3>1, Zenon DEF Ideal!Refuse
  <2>4. CASE o # "declined"
    <3>1. charges' = charges + 1
      BY <1>1, <2>4, Zenon
    <3>2. "unanswered" \in Outcomes
      BY <1>1, <1>5, <2>4, MembersAssumption DEF successful, AllOutcomes
    <3> QED BY <1>3, <1>4, <2>2, <3>1, <3>2, Zenon DEF Ideal!LoseAnswer
  <2> QED BY <2>3, <2>4, Zenon
<1>6. CASE successful(o)
  <2>1. Goto(w, "save") /\ params' = params /\ params[w] \in Params
    BY <1>1, <1>2, <1>6, Kept, Zenon
  <2>2. params' = [params EXCEPT ![w] = params[w]]
    BY <1>2, <2>1, Kept, Zenon
  <2>3. pc'[w] = "save"
    BY <1>2, <2>1, Zenon DEF WorkersOK, Goto
  <2>4. Application(w)' = [member |-> Account(params[w]), paid |-> TRUE]
    BY <2>1, <2>3 DEF Application, Account
  <2>5. Apps' = [Apps EXCEPT ![w] = [member |-> Application(w).member, paid |-> TRUE]]
    BY <1>2, <2>1, <2>2, <2>4, AppFacts, AppsStep, Zenon
  <2>6. Apps[w].member = Application(w).member
    BY AppFacts, Zenon
  <2>7. Ideal!Set(w, [member |-> Apps[w].member, paid |-> TRUE])
    BY <2>5, <2>6, Zenon DEF Ideal!Set, Apps
  <2>8. charges' = charges + 1
    BY <1>1, <1>6 DEF successful
  <2> QED BY <1>3, <1>4, <2>7, <2>8, Zenon DEF Ideal!Pay, Apps
<1> QED BY <1>5, <1>6, Zenon

LEMMA SaveJoins ==
  ASSUME IInv, NEW w \in Workers, save(w)
  PROVE  Ideal!Join(w)
<1>1. /\ WorkersOK /\ pc[w] = "save" /\ users' = Append(users, Account(params[w]))
      /\ Goto(w, "invitation") /\ params' = params /\ charges' = charges
  BY Zenon DEF IInv, save
<1>2. params' = [params EXCEPT ![w] = params[w]]
  BY <1>1, Kept, Zenon
<1>3. pc'[w] = "invitation"
  BY <1>1, Zenon DEF WorkersOK, Goto
<1>4. Application(w)' = Nil
  BY <1>3 DEF Application
<1>5. Ideal!Set(w, Nil)
  <2>1. Apps' = [Apps EXCEPT ![w] = Nil]
    BY <1>1, <1>2, <1>4, AppsStep, Zenon
  <2> QED BY <2>1, Zenon DEF Ideal!Set, Apps
<1>6. Apps[w].member = Account(params[w])
  BY <1>1, AppFacts, Zenon
<1>7. Ideal!Paid(w)
  BY <1>1, PaidOrNot, Zenon
<1> QED BY <1>1, <1>5, <1>6, <1>7, Zenon DEF Ideal!Join, Apps

LEMMA KillMaps ==
  ASSUME IInv, NEW w \in Workers, unicorn_timeout(w)
  PROVE  Ideal!Refuse(w) \/ Ideal!Kill(w) \/ (Apps' = Apps /\ charges' = charges /\ users' = users)
<1>1. WorkersOK /\ Timeouts /\ EndRequest(w) /\ charges' = charges /\ pc[w] \in Labels
  BY Kept, Zenon DEF IInv, unicorn_timeout
<1>2. users' = users
  BY DEF unicorn_timeout, tables
<1>3. Apps' = [Apps EXCEPT ![w] = Nil]
  BY <1>1, EndApps, Zenon
<1>4. Ideal!Set(w, Nil)
  BY <1>3, Zenon DEF Ideal!Set, Apps
<1>5. CASE pc[w] = "charge"
  BY <1>1, <1>2, <1>4, <1>5, PaidOrNot, Zenon DEF Ideal!Refuse
<1>6. CASE pc[w] = "save"
  BY <1>1, <1>2, <1>4, <1>6, PaidOrNot, Zenon DEF Ideal!Kill
<1>7. CASE pc[w] \notin Applying
  <2>1. Goto(w, "idle") /\ params' = [params EXCEPT ![w] = NoParams]
    BY <1>1, Zenon DEF EndRequest
  <2>2. "idle" \notin Applying
    BY DEF Applying
  <2> QED BY <1>1, <1>2, <1>7, <2>1, <2>2, SameApps, Zenon
<1> QED BY <1>5, <1>6, <1>7, Zenon DEF Applying

-----------------------------------------------------------------------------
(* The steps that do not *)

Stutter == Apps' = Apps /\ charges' = charges /\ users' = users

(* Those that move from one label outside Applying to another. *)
LEMMA MovesStutter ==
  ASSUME IInv, NEW w \in Workers, NEW l \in Labels \ Applying, pc[w] \notin Applying,
         Goto(w, l),
         \/ params' = params
         \/ \E p : params' = [params EXCEPT ![w] = p],
         charges' = charges, users' = users
  PROVE  Stutter
<1>1. WorkersOK
  BY Zenon DEF IInv
<1>2. PICK p : params' = [params EXCEPT ![w] = p]
  <2>1. params' = params => params' = [params EXCEPT ![w] = params[w]]
    BY <1>1, Kept, Zenon
  <2> QED BY <2>1, Zenon
<1>3. l \notin Applying
  OBVIOUS
<1>4. Apps' = Apps
  BY <1>1, <1>2, <1>3, SameApps, Zenon
<1> QED BY <1>4, Zenon DEF Stutter

(* Those that end a request outside Applying. *)
LEMMA EndsStutter ==
  ASSUME IInv, NEW w \in Workers, pc[w] \notin Applying, EndRequest(w),
         charges' = charges, users' = users
  PROVE  Stutter
<1>1. Goto(w, "idle") /\ params' = [params EXCEPT ![w] = NoParams]
  BY Zenon DEF EndRequest
<1>2. "idle" \in Labels \ Applying
  BY DEF Labels, Applying
<1> QED BY <1>1, <1>2, MovesStutter, Zenon

LEMMA RequestStutters ==
  ASSUME IInv, NEW w \in Workers,
         \/ \E u \in DOMAIN users, e \in Emails : invite(w, u, e)
         \/ \E u \in DOMAIN users, k \in LinkIds : create(w, u, k)
         \/ \E u \in DOMAIN users, r \in DOMAIN relationships : destroy(w, u, r)
  PROVE  Stutter
<1>1. /\ pc[w] = "idle" /\ UNCHANGED tables /\ charges' = charges
      /\ Goto(w, "invite") \/ Goto(w, "follow") \/ Goto(w, "unfollow")
      /\ params' = params \/ \E p : params' = [params EXCEPT ![w] = p]
  BY Zenon DEF invite, create, destroy
<1>2. users' = users
  BY <1>1 DEF tables
<1>3. /\ pc[w] \notin Applying /\ "invite" \in Labels \ Applying
      /\ "follow" \in Labels \ Applying /\ "unfollow" \in Labels \ Applying
  BY <1>1 DEF Labels, Applying
<1> QED BY <1>1, <1>2, <1>3, MovesStutter, Zenon

LEMMA StepStutters ==
  ASSUME IInv, NEW w \in Workers,
         \/ find_invitation(w) \/ inviter_leads(w) \/ inviter_follows(w)
         \/ deliver(w) \/ invitation_save(w) \/ follow(w) \/ unfollow(w)
  PROVE  Stutter
<1>1. /\ pc[w] \in {"invitation", "inviter_leads", "inviter_follows", "mail", "invite",
                    "follow", "unfollow"}
      /\ charges' = charges
  BY Zenon DEF find_invitation, inviter_leads, inviter_follows, deliver, invitation_save,
               follow, unfollow
<1>2. pc[w] \notin Applying
  BY <1>1 DEF Applying
<1>3. users' = users
  <2>1. CASE find_invitation(w) \/ deliver(w)
    BY <2>1 DEF find_invitation, deliver, tables
  <2> QED BY <2>1, Zenon DEF inviter_leads, inviter_follows, invitation_save, follow, unfollow
<1>4. CASE find_invitation(w) \/ inviter_leads(w) \/ inviter_follows(w)
  <2>1. /\ params' = params
        /\ Goto(w, "inviter_leads") \/ Goto(w, "inviter_follows") \/ Goto(w, "mail")
    BY <1>4, Zenon DEF find_invitation, inviter_leads, inviter_follows
  <2>2. /\ "inviter_leads" \in Labels \ Applying /\ "inviter_follows" \in Labels \ Applying
        /\ "mail" \in Labels \ Applying
    BY DEF Labels, Applying
  <2> QED BY <1>1, <1>2, <1>3, <2>1, <2>2, MovesStutter, Zenon
<1>5. CASE deliver(w) \/ invitation_save(w) \/ follow(w) \/ unfollow(w)
  <2>1. EndRequest(w)
    BY <1>5, Zenon DEF deliver, invitation_save, follow, unfollow
  <2> QED BY <1>1, <1>2, <1>3, <2>1, EndsStutter, Zenon
<1> QED BY <1>4, <1>5, Zenon

-----------------------------------------------------------------------------
LEMMA StepMaps == IInv /\ [Next]_vars => [Ideal!Next]_Ideal!vars
<1> SUFFICES ASSUME IInv, [Next]_vars PROVE Ideal!Next \/ UNCHANGED Ideal!vars
  OBVIOUS
<1>1. Stutter => UNCHANGED Ideal!vars
  BY DEF Stutter, Apps, Ideal!vars
<1>2. CASE UNCHANGED vars
  <2>1. pc' = pc /\ params' = params /\ charges' = charges /\ users' = users
    BY <1>2 DEF vars, tables
  <2>2. Apps' = Apps
    BY <2>1, Zenon DEF Apps, Application, Account
  <2> QED BY <1>1, <2>1, <2>2, Zenon DEF Stutter
<1>3. ASSUME NEW w \in Workers, Request(w) PROVE Ideal!Next \/ Stutter
  <2>1. ASSUME NEW n \in Usernames, NEW e \in Emails, NEW t \in Tokens, sign_up(w, n, e, t)
        PROVE  Ideal!Next
    BY <2>1, SignUpApplies, Zenon DEF Ideal!Next
  <2> QED BY <1>3, <2>1, RequestStutters, Zenon DEF Request
<1>4. ASSUME NEW w \in Workers, Step(w) PROVE Ideal!Next \/ Stutter
  <2>1. CASE charge_create(w)
    BY <2>1, ChargeMaps, Zenon DEF Ideal!Next
  <2>2. CASE save(w)
    BY <2>2, SaveJoins, Zenon DEF Ideal!Next
  <2> QED BY <1>4, <2>1, <2>2, StepStutters, Zenon DEF Step
<1>5. ASSUME NEW w \in Workers, unicorn_timeout(w) PROVE Ideal!Next \/ Stutter
  BY <1>5, KillMaps, Zenon DEF Ideal!Next, Stutter
<1> QED BY <1>1, <1>2, <1>3, <1>4, <1>5, Zenon DEF Next

(* For any number of workers, with overlapping signups, kills and lost answers:   *)
(* an account is opened only for a payment of its own and under names that were   *)
(* free when its signup began, and a payment is without an account only while it  *)
(* is being made, if its answer was lost, or if its worker was killed.            *)
THEOREM SignupImplementsEnrolment == Spec => EnrolmentImplemented
<1> QED
  BY InitMaps, StepMaps, MembersInvariance, PTL
  DEF Spec, EnrolmentImplemented, Ideal!Spec
=============================================================================
