------------------------- MODULE MembersInvariant -------------------------
(***************************************************************************)
(* The inductive invariant of Members, and what it takes for a step to     *)
(* keep it: of any worker, with kills and lost answers.                    *)
(***************************************************************************)
EXTENDS Members, FiniteSetTheorems, SequenceTheorems, TLAPS

SignupLabels == {"charge", "save", "invitation", "inviter_leads", "inviter_follows", "mail"}
SavedLabels == {"invitation", "inviter_leads", "inviter_follows", "mail"}
InvitedLabels == {"inviter_leads", "inviter_follows"}

(* What worker w may rely on between two statements of its request. *)
FormOK(w) ==
  pc[w] \in SignupLabels => params[w].username \in Usernames /\ params[w].email \in Emails

SavedOK(w) ==
  pc[w] \in SavedLabels =>
    /\ user[w] \in DOMAIN users
    /\ users[user[w]] = Account(params[w])
    /\ params[w].token # Nil => invitations[params[w].token] # user[w]

InvitedOK(w) == pc[w] \in InvitedLabels => params[w].token # Nil

InviteOK(w) == pc[w] = "invite" => user[w] \in DOMAIN users

FollowOK(w) ==
  pc[w] = "follow" =>
    /\ params[w].id \in DOMAIN users /\ user[w] \in DOMAIN users
    /\ params[w].id # user[w]

UnfollowOK(w) ==
  pc[w] = "unfollow" =>
    /\ params[w].id \in DOMAIN relationships
    /\ \/ relationships[params[w].id] = Nil
       \/ relationships[params[w].id].follower = user[w]

MemoryOK(w) ==
  FormOK(w) /\ SavedOK(w) /\ InvitedOK(w) /\ InviteOK(w) /\ FollowOK(w) /\ UnfollowOK(w)

TablesOK ==
  /\ users \in Seq(User)
  /\ charges \in 0..MaxCharges
  /\ invitations \in Seq(DOMAIN users)
  /\ relationships \in Seq(Relationship \cup {Nil})

WorkersOK ==
  /\ pc \in [Workers -> Labels]
  /\ params \in [Workers -> Params]
  /\ user \in [Workers -> DOMAIN users \cup {Nil}]

IInv ==
  /\ TablesOK /\ WorkersOK
  /\ AccountsPaid /\ NobodyFollowsThemselves
  /\ \A w \in Workers : MemoryOK(w)

-----------------------------------------------------------------------------
(* Facts about the operators *)

(* What Append does to a table. *)
LEMMA AppendFacts ==
  ASSUME NEW S, NEW s \in Seq(S), NEW e \in S
  PROVE  /\ Append(s, e) \in Seq(S)
         /\ Len(s) \in Nat
         /\ DOMAIN s = 1..Len(s)
         /\ Len(Append(s, e)) = Len(s) + 1
         /\ DOMAIN Append(s, e) = 1..(Len(s) + 1)
         /\ \A i \in 1..Len(s) : Append(s, e)[i] = s[i]
         /\ Append(s, e)[Len(s) + 1] = e
OBVIOUS

(* A sequence of a set is one of any larger set. *)
LEMMA WiderSeq ==
  ASSUME NEW S, NEW T, S \subseteq T, NEW s \in Seq(S)
  PROVE  s \in Seq(T)
OBVIOUS

(* One worker's move changes the number of paying workers by one at most. *)
LEMMA PayingStep ==
  ASSUME pc \in [Workers -> Labels], NEW w \in Workers, NEW l \in Labels, Goto(w, l)
  PROVE  /\ Cardinality(Paying) \in Nat
         /\ Cardinality(Paying') \in Nat
         /\ (pc[w] = "save" <=> l = "save") => Cardinality(Paying') = Cardinality(Paying)
         /\ pc[w] # "save" /\ l = "save" => Cardinality(Paying') = Cardinality(Paying) + 1
         /\ pc[w] = "save" /\ l # "save" => Cardinality(Paying') = Cardinality(Paying) - 1
<1>1. IsFiniteSet(Paying)
  <2>1. Paying \subseteq Workers
    BY Zenon DEF Paying
  <2> QED BY <2>1, MembersAssumption, FS_Subset, Zenon
<1>2. Paying' = IF l = "save" THEN Paying \cup {w} ELSE Paying \ {w}
  BY DEF Paying, Goto
<1>3. w \in Paying <=> pc[w] = "save"
  BY Zenon DEF Paying
<1>4. /\ IsFiniteSet(Paying \cup {w})
      /\ Cardinality(Paying \cup {w}) =
           IF w \in Paying THEN Cardinality(Paying) ELSE Cardinality(Paying) + 1
  BY <1>1, FS_AddElement, Zenon
<1>5. /\ IsFiniteSet(Paying \ {w})
      /\ Cardinality(Paying \ {w}) =
           IF w \in Paying THEN Cardinality(Paying) - 1 ELSE Cardinality(Paying)
  BY <1>1, FS_RemoveElement, Zenon
<1>6. /\ Cardinality(Paying) \in Nat
      /\ Cardinality(Paying \cup {w}) \in Nat
      /\ Cardinality(Paying \ {w}) \in Nat
  BY <1>1, <1>4, <1>5, FS_CardinalityType, Zenon
<1> QED BY <1>2, <1>3, <1>4, <1>5, <1>6

(* What the invariant says of the tables' lengths. *)
LEMMA TableFacts ==
  ASSUME TablesOK
  PROVE  /\ Len(users) \in Nat /\ DOMAIN users = 1..Len(users)
         /\ Len(invitations) \in Nat /\ DOMAIN invitations = 1..Len(invitations)
         /\ \A i \in DOMAIN invitations : invitations[i] \in DOMAIN users
         /\ Len(relationships) \in Nat /\ DOMAIN relationships = 1..Len(relationships)
         /\ charges \in Nat /\ Len(Seeds) \in Nat
<1>1. Len(users) \in Nat /\ DOMAIN users = 1..Len(users)
  BY DEF TablesOK
<1>2. /\ Len(invitations) \in Nat /\ DOMAIN invitations = 1..Len(invitations)
      /\ \A i \in DOMAIN invitations : invitations[i] \in DOMAIN users
  BY DEF TablesOK
<1>3. Len(relationships) \in Nat /\ DOMAIN relationships = 1..Len(relationships)
  BY DEF TablesOK
<1>4. charges \in Nat /\ Len(Seeds) \in Nat
  BY MembersAssumption DEF TablesOK
<1> QED BY <1>1, <1>2, <1>3, <1>4

(* A charge comes first; the place among the paying workers pays for a row. *)
LEMMA PaidStep ==
  ASSUME TablesOK, WorkersOK, AccountsPaid,
         NEW w \in Workers, NEW l \in Labels, Goto(w, l),
         NEW c \in Nat, charges' = charges + c,
         \/ Len(users') = Len(users) /\ (l = "save" => pc[w] = "save" \/ c = 1)
         \/ Len(users') = Len(users) + 1 /\ pc[w] = "save" /\ l # "save"
  PROVE  AccountsPaid'
<1>1. pc \in [Workers -> Labels]
  BY Zenon DEF WorkersOK
<1>2. Len(users) \in Nat /\ Len(Seeds) \in Nat /\ charges \in Nat
  BY TableFacts, Zenon
<1> QED BY <1>1, <1>2, PayingStep DEF AccountsPaid

-----------------------------------------------------------------------------
(* What every step does to the tables: rows are added, and those of            *)
(* relationships may end.                                                      *)
Grown ==
  /\ \A i \in DOMAIN users : i \in DOMAIN users' /\ users'[i] = users[i]
  /\ \A i \in DOMAIN invitations : i \in DOMAIN invitations' /\ invitations'[i] = invitations[i]
  /\ \A r \in DOMAIN relationships :
       /\ r \in DOMAIN relationships'
       /\ relationships'[r] = relationships[r] \/ relationships'[r] = Nil

LEMMA SameGrown == UNCHANGED tables => Grown
BY Zenon DEF tables, Grown

(* What a worker relies on survives the steps of the others. *)
LEMMA OthersKeep ==
  ASSUME WorkersOK, Grown, NEW x \in Workers, MemoryOK(x),
         pc'[x] = pc[x], params'[x] = params[x], user'[x] = user[x]
  PROVE  MemoryOK(x)'
<1>1. params[x].token \in Tokens
  BY DEF WorkersOK, Params
<1>2. FormOK(x)' /\ InvitedOK(x)' /\ InviteOK(x)' /\ FollowOK(x)'
  BY Zenon DEF MemoryOK, FormOK, InvitedOK, InviteOK, FollowOK, Grown
<1>3. SavedOK(x)'
  BY <1>1, Zenon DEF MemoryOK, SavedOK, Grown, Tokens, Account
<1>4. UnfollowOK(x)'
  BY Zenon DEF MemoryOK, UnfollowOK, Grown
<1> QED BY <1>2, <1>3, <1>4, Zenon DEF MemoryOK

(* The memories keep their types while the tables grow. *)
LEMMA WorkersKeep ==
  ASSUME WorkersOK, Grown, NEW w \in Workers, NEW l \in Labels, NEW p, p \in Params',
         NEW u, u \in DOMAIN users' \cup {Nil},
         Goto(w, l), params' = [params EXCEPT ![w] = p], user' = [user EXCEPT ![w] = u]
  PROVE  WorkersOK'
<1>1. pc' \in [Workers -> Labels]
  BY DEF WorkersOK, Goto
<1>2. Params \subseteq Params'
  <2>1. Tokens \subseteq Tokens'
    BY Zenon DEF Tokens, Grown
  <2> QED BY <2>1 DEF Params
<1>3. params' \in [Workers -> Params']
  BY <1>2 DEF WorkersOK
<1>4. DOMAIN users \subseteq DOMAIN users'
  BY Zenon DEF Grown
<1>5. user' \in [Workers -> DOMAIN users' \cup {Nil}]
  BY <1>4 DEF WorkersOK
<1> QED BY <1>1, <1>3, <1>5, Zenon DEF WorkersOK

(* A step of w keeps IInv if the tables and what w now holds are in order. *)
LEMMA StepIInv ==
  ASSUME IInv, NEW w \in Workers, NEW l \in Labels, NEW p, p \in Params',
         NEW u, u \in DOMAIN users' \cup {Nil},
         Goto(w, l), params' = [params EXCEPT ![w] = p], user' = [user EXCEPT ![w] = u],
         Grown, TablesOK', AccountsPaid', NobodyFollowsThemselves', MemoryOK(w)'
  PROVE  IInv'
<1>1. WorkersOK /\ \A x \in Workers : MemoryOK(x)
  BY Zenon DEF IInv
<1>2. WorkersOK'
  BY <1>1, WorkersKeep, Zenon
<1>3. ASSUME NEW x \in Workers, x # w PROVE MemoryOK(x)'
  <2>1. pc'[x] = pc[x] /\ params'[x] = params[x] /\ user'[x] = user[x]
    BY <1>1, <1>3, Zenon DEF Goto, WorkersOK
  <2> QED BY <1>1, <2>1, OthersKeep, Zenon
<1>4. \A x \in Workers : MemoryOK(x)'
  BY <1>3, Zenon
<1> QED BY <1>2, <1>4, Zenon DEF IInv

(* The same for a step that writes no table. *)
LEMMA MemoryStep ==
  ASSUME IInv, NEW w \in Workers, NEW l \in Labels, NEW p \in Params,
         NEW u \in DOMAIN users \cup {Nil},
         Goto(w, l), params' = [params EXCEPT ![w] = p], user' = [user EXCEPT ![w] = u],
         UNCHANGED tables, charges' \in 0..MaxCharges, AccountsPaid', MemoryOK(w)'
  PROVE  IInv'
<1>0. UNCHANGED <<users, invitations, relationships>>
  BY DEF tables
<1>1. p \in Params' /\ u \in DOMAIN users' \cup {Nil}
  BY <1>0, Zenon DEF Params, Tokens
<1>2. TablesOK'
  BY <1>0, Zenon DEF IInv, TablesOK, Relationship
<1>3. NobodyFollowsThemselves'
  BY <1>0, Zenon DEF IInv, NobodyFollowsThemselves
<1> QED BY <1>1, <1>2, <1>3, SameGrown, StepIInv

(* A step that inserts a relationship between different accounts. *)
LEMMA RowStep ==
  ASSUME IInv, NEW w \in Workers, NEW l \in Labels, NEW p \in Params,
         NEW u \in DOMAIN users \cup {Nil}, NEW a \in DOMAIN users, NEW b \in DOMAIN users,
         a # b, relationships' = Append(relationships, Row(a, b)),
         Goto(w, l), pc[w] # "save", l # "save",
         params' = [params EXCEPT ![w] = p], user' = [user EXCEPT ![w] = u],
         UNCHANGED <<users, invitations, charges>>, MemoryOK(w)'
  PROVE  IInv'
<1>1. TablesOK /\ WorkersOK /\ AccountsPaid /\ NobodyFollowsThemselves
  BY Zenon DEF IInv
<1>2. Row(a, b) \in Relationship \cup {Nil}
  BY DEF Row, Relationship
<1>3. relationships \in Seq(Relationship \cup {Nil})
  BY <1>1, Zenon DEF TablesOK
<1>4. /\ relationships' \in Seq(Relationship \cup {Nil})
      /\ DOMAIN relationships = 1..Len(relationships)
      /\ Len(relationships) \in Nat
      /\ DOMAIN relationships' = 1..(Len(relationships) + 1)
      /\ \A i \in DOMAIN relationships : relationships'[i] = relationships[i]
      /\ relationships'[Len(relationships) + 1] = Row(a, b)
  BY <1>2, <1>3, AppendFacts
<1>5. \A r \in DOMAIN relationships' :
        r \in DOMAIN relationships \/ r = Len(relationships) + 1
  BY <1>4
<1>6. Grown
  <2>1. \A r \in DOMAIN relationships : r \in DOMAIN relationships'
    BY <1>4
  <2> QED BY <1>4, <2>1, Zenon DEF Grown
<1>7. TablesOK'
  BY <1>1, <1>4, Zenon DEF TablesOK, Relationship
<1>8. AccountsPaid'
  <2>1. 0 \in Nat /\ charges' = charges + 0
    BY <1>1, TableFacts
  <2> QED BY <1>1, <2>1, PaidStep
<1>9. NobodyFollowsThemselves'
  <2>1. Row(a, b).leader # Row(a, b).follower
    BY DEF Row
  <2> QED BY <1>1, <1>4, <1>5, <2>1, Zenon DEF NobodyFollowsThemselves
<1>10. p \in Params' /\ u \in DOMAIN users' \cup {Nil}
  BY Zenon DEF Params, Tokens
<1> QED BY <1>6, <1>7, <1>8, <1>9, <1>10, StepIInv

(* What a worker that keeps its memory has, in the form the lemmas above ask for. *)
LEMMA Kept ==
  ASSUME WorkersOK, NEW w \in Workers
  PROVE  /\ params[w] \in Params /\ params = [params EXCEPT ![w] = params[w]]
         /\ user[w] \in DOMAIN users \cup {Nil} /\ user = [user EXCEPT ![w] = user[w]]
         /\ NoParams \in Params
         /\ pc[w] \in Labels
<1>1. NoParams \in Params
  BY DEF NoParams, Given, Params, Tokens
<1> QED BY <1>1 DEF WorkersOK

(* After a move of w to l, what w holds. *)
LEMMA Moved ==
  ASSUME WorkersOK, NEW w \in Workers, NEW l, Goto(w, l), NEW p, NEW u,
         params' = [params EXCEPT ![w] = p], user' = [user EXCEPT ![w] = u]
  PROVE  pc'[w] = l /\ params'[w] = p /\ user'[w] = u
BY Zenon DEF WorkersOK, Goto

(* A worker that ends its request holds nothing. *)
LEMMA EndMemory ==
  ASSUME WorkersOK, NEW w \in Workers, EndRequest(w)
  PROVE  /\ Goto(w, "idle") /\ "idle" \in Labels
         /\ params' = [params EXCEPT ![w] = NoParams]
         /\ user' = [user EXCEPT ![w] = Nil]
         /\ MemoryOK(w)'
<1>1. /\ Goto(w, "idle") /\ "idle" \in Labels
      /\ params' = [params EXCEPT ![w] = NoParams]
      /\ user' = [user EXCEPT ![w] = Nil]
  BY DEF EndRequest, Labels
<1>2. pc'[w] = "idle"
  BY <1>1, Moved, Zenon
<1> QED
  BY <1>1, <1>2
  DEF MemoryOK, FormOK, SavedOK, InvitedOK, InviteOK, FollowOK, UnfollowOK,
      SignupLabels, SavedLabels, InvitedLabels

LEMMA EndIInv ==
  ASSUME IInv, NEW w \in Workers, EndRequest(w), UNCHANGED tables,
         NEW c \in Nat, charges' = charges + c, charges' <= MaxCharges
  PROVE  IInv'
<1>1. TablesOK /\ WorkersOK /\ AccountsPaid
  BY Zenon DEF IInv
<1>2. charges' \in 0..MaxCharges /\ Len(users') = Len(users) /\ Len(users) \in Nat
  BY <1>1, TableFacts, MembersAssumption DEF tables
<1>3. AccountsPaid'
  BY <1>1, <1>2, EndMemory, PaidStep
<1> QED BY <1>1, <1>2, <1>3, EndMemory, Kept, MemoryStep
=============================================================================
