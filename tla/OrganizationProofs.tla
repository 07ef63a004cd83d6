------------------------- MODULE OrganizationProofs -------------------------
(***************************************************************************)
(* The people and the chart of an organization, for any number of them and *)
(* of concurrent requests: who may log in as whom, and who no longer; what *)
(* a review of a suggestion about the chart does, and what becomes of a    *)
(* blueprint; and how an answer becomes a batch, whatever is in it.        *)
(***************************************************************************)
EXTENDS Staff, Suggestions, Blueprint, Plan, FoldTheorems, SequenceTheorems

-----------------------------------------------------------------------------
(***************************************************************************)
(* Logins, employee records and invites, for any number of people,         *)
(* records, invites and concurrent requests: LoginsAreExclusive.           *)
(*                                                                         *)
(* What a request has checked may be stale when it commits.  The invariant *)
(* says what of it cannot be: rows do not vanish, and a membership does    *)
(* not cease to exist.  The rest is in the unique indexes; and a request   *)
(* that nobody has overtaken knows every unused invite of its address.     *)
(***************************************************************************)

(***************************************************************************)
(* The invariant                                                           *)
(***************************************************************************)
\* The part of StaffTypeOK that logins and invites rely on; and whoever an invite is
\* for has an employee record.
TablesOK ==
  /\ account \in [Folk -> BOOLEAN]
  /\ membership \in [Folk -> {"none", "active", "deactivated"}]
  /\ hire \in [Hires -> HireRow \cup {Nothing}]
  /\ invite \in [Invites -> InviteRow \cup {Nothing}]
  /\ accepted \subseteq Invites
  /\ \A i \in Invites : invite[i] # Nothing /\ invite[i].emp # Nothing => hire[invite[i].emp] # Nothing

\* What a request r is about to write, over these tables: rows that are there, and
\* logins of members.
SoundTodo(r, hires, members, invites) ==
  /\ r.op \in {"register", "deactivate", "reactivate"} => r.p \in Folk
  /\ r.op = "invite" =>
       /\ r.p \in Folk /\ r.emp \in Hires \cup {Nothing}
       /\ r.emp # Nothing => hires[r.emp] # Nothing
       /\ \A j \in r.old : j \in Invites /\ invites[j] # Nothing
  /\ r.op = "add" =>
       /\ r.p \in Folk /\ r.emp \in Hires \cup {Nothing}
       /\ r.emp # Nothing => hires[r.emp] # Nothing
  /\ r.op = "accept" =>
       /\ r.i \in Invites /\ invites[r.i] # Nothing
       /\ r.links => invites[r.i].emp \in Hires /\ hires[invites[r.i].emp] # Nothing
  /\ r.op = "create" =>
       r.e \in Hires /\ (r.p # Nothing => r.p \in Folk /\ members[r.p] # "none")
  /\ r.op = "link" =>
       r.e \in Hires /\ hires[r.e] # Nothing /\ r.p \in Folk /\ members[r.p] # "none"
  /\ r.op \in {"offboard", "reinstate"} => r.e \in Hires /\ hires[r.e] # Nothing

\* The table of requests: two fields each.
DesksAreSound ==
  /\ desk = [s \in Desks |-> desk[s]]
  /\ \A s \in Desks : desk[s] # Nothing =>
       /\ desk[s] = [overtaken |-> desk[s].overtaken, todo |-> desk[s].todo]
       /\ SoundTodo(desk[s].todo, hire, membership, invite)

\* A login belongs to one employee at most, and is the login of a member.
LinksAreExclusive ==
  \A e, f \in Hires :
    hire[e] # Nothing /\ hire[e].user # Nothing =>
      /\ membership[hire[e].user] # "none"
      /\ hire[f] # Nothing /\ hire[f].user = hire[e].user => e = f

\* Whoever accepted an invite has an account since, and accepted no other one.
OneAcceptedEach ==
  /\ \A i \in accepted : invite[i] # Nothing /\ account[invite[i].email]
  /\ \A i, j \in accepted : invite[i].email = invite[j].email => i = j

\* An invite that can still be accepted.
Unused(i) == invite[i] # Nothing /\ ~invite[i].used

\* Unless requests overlapped nobody has two unused invites, and whoever is about to
\* send one, and has not been overtaken, will spend the one there is.
OneUnusedEach ==
  ~staffRaced =>
    /\ \A i, j \in Invites : Unused(i) /\ Unused(j) /\ invite[i].email = invite[j].email => i = j
    /\ \A s \in Desks, i \in Invites :
         /\ desk[s] # Nothing /\ desk[s].overtaken = FALSE /\ desk[s].todo.op = "invite"
         /\ Unused(i) /\ invite[i].email = desk[s].todo.p
         => i \in desk[s].todo.old

\* The inductive invariant.
StaffInvariant ==
  TablesOK /\ DesksAreSound /\ LinksAreExclusive /\ OneAcceptedEach /\ OneUnusedEach

(***************************************************************************)
(* Lemmas                                                                  *)
(***************************************************************************)
\* A set without two different elements has one at most.
LEMMA AtMostOne ==
  ASSUME NEW S, \A x, y \in S : x = y
  PROVE  Cardinality(S) <= 1
<1>1. CASE S = {}
  BY <1>1, FS_EmptySet
<1>2. CASE S # {}
  <2>1. PICK x \in S : TRUE
    BY <1>2
  <2>2. S = {x}
    BY <2>1
  <2> QED
    BY <2>2, FS_Singleton
<1> QED
  BY <1>1, <1>2

\* The invariant is strong enough.
LEMMA InvariantSuffices == StaffInvariant => LoginsAreExclusive
<1> SUFFICES ASSUME StaffInvariant PROVE LoginsAreExclusive
  OBVIOUS
<1>1. ASSUME NEW p \in Folk PROVE Cardinality({i \in accepted : invite[i].email = p}) <= 1
  <2>1. \A i, j \in {k \in accepted : invite[k].email = p} : i = j
    BY DEF StaffInvariant, OneAcceptedEach
  <2> QED
    BY <2>1, AtMostOne
<1>2. ASSUME NEW p \in Folk, ~staffRaced PROVE Cardinality(UnusedInvites(p)) <= 1
  <2>1. \A i, j \in UnusedInvites(p) : i = j
    BY <1>2 DEF StaffInvariant, OneUnusedEach, Unused, UnusedInvites
  <2> QED
    BY <2>1, AtMostOne
<1> QED
  BY <1>1, <1>2 DEF StaffInvariant, LinksAreExclusive, LoginsAreExclusive

\* Rows that are there have their fields.
LEMMA HireHasFields ==
  ASSUME TablesOK, NEW e \in Hires, hire[e] # Nothing
  PROVE  hire[e] \in [status : {"active", "inactive"}, user : Folk \cup {Nothing}]
BY DEF TablesOK, HireRow

\* What an invite row looks like.
LEMMA InviteHasFields ==
  ASSUME TablesOK, NEW i \in Invites, invite[i] # Nothing
  PROVE  invite[i] \in [email : Folk, emp : Hires \cup {Nothing}, used : BOOLEAN]
BY DEF TablesOK, InviteRow

\* Whoever invites were for keep their records while records are kept.
LEMMA InviteesStay ==
  ASSUME TablesOK, \A f \in Hires : hire[f] # Nothing => hire'[f] # Nothing
  PROVE  \A i \in Invites : invite[i] # Nothing /\ invite[i].emp # Nothing => hire'[invite[i].emp] # Nothing
<1> SUFFICES ASSUME NEW i \in Invites, invite[i] # Nothing, invite[i].emp # Nothing
             PROVE  hire'[invite[i].emp] # Nothing
  OBVIOUS
<1>1. invite[i].emp \in Hires
  BY InviteHasFields
<1> QED
  BY <1>1 DEF TablesOK

(***************************************************************************)
(* What a step leaves of what a request has checked                        *)
(***************************************************************************)
\* From one state of the tables to the next no row vanishes, and nobody who is a
\* member, active or not, ceases to be one.
Kept(h, m, v, h2, m2, v2) ==
  /\ \A e \in Hires : h[e] # Nothing => h2[e] # Nothing
  /\ \A p \in Folk : m[p] # "none" => m2[p] # "none"
  /\ \A i \in Invites : v[i] # Nothing => v2[i] # Nothing /\ v2[i].emp = v[i].emp

\* A step only adds rows and memberships.
StepKeeps == Kept(hire, membership, invite, hire', membership', invite')

\* What was sound to write stays so over such a step.
LEMMA StaysSound ==
  ASSUME NEW r, NEW h, NEW m, NEW v, NEW h2, NEW m2, NEW v2,
         Kept(h, m, v, h2, m2, v2), SoundTodo(r, h, m, v)
  PROVE  SoundTodo(r, h2, m2, v2)
BY DEF Kept, SoundTodo

\* A request takes up something sound.
LEMMA ReadyIsSound ==
  ASSUME DesksAreSound, NEW s \in Desks, NEW r, SoundTodo(r, hire, membership, invite), DeskReady(s, r)
  PROVE  DesksAreSound'
<1>1. desk' = [desk EXCEPT ![s] = [overtaken |-> FALSE, todo |-> r]]
      /\ UNCHANGED <<hire, membership, invite>>
  BY DEF DeskReady, Checked
<1>2. desk' = [t \in Desks |-> desk'[t]]
  BY <1>1 DEF DesksAreSound
<1>3. desk'[s] = [overtaken |-> FALSE, todo |-> r] /\ \A t \in Desks \ {s} : desk'[t] = desk[t]
  BY <1>1 DEF DesksAreSound
<1> QED
  BY <1>1, <1>2, <1>3 DEF DesksAreSound

\* A commit leaves what the others have checked sound, and marks them overtaken.
LEMMA CommitIsSound ==
  ASSUME DesksAreSound, StepKeeps, NEW s \in Desks, DeskCommits(s)
  PROVE  /\ DesksAreSound'
         /\ \A t \in Desks : desk'[t] # Nothing => desk'[t].overtaken = TRUE
<1>1. desk' = [t \in Desks |-> IF t = s \/ desk[t] = Nothing THEN Nothing
                               ELSE [desk[t] EXCEPT !.overtaken = TRUE]]
  BY DEF DeskCommits, Committed, DesksAreSound
<1>2. desk' = [t \in Desks |-> desk'[t]]
  BY <1>1
<1>3. ASSUME NEW t \in Desks, desk'[t] # Nothing
      PROVE  /\ desk'[t] = [overtaken |-> TRUE, todo |-> desk[t].todo]
             /\ SoundTodo(desk[t].todo, hire, membership, invite)
  <2>1. desk[t] # Nothing /\ desk'[t] = [desk[t] EXCEPT !.overtaken = TRUE]
    BY <1>1, <1>3
  <2>2. /\ desk[t] = [overtaken |-> desk[t].overtaken, todo |-> desk[t].todo]
        /\ SoundTodo(desk[t].todo, hire, membership, invite)
    BY <2>1 DEF DesksAreSound
  <2> QED
    BY <2>1, <2>2
<1>4. ASSUME NEW t \in Desks, desk'[t] # Nothing
      PROVE  /\ desk'[t] = [overtaken |-> desk'[t].overtaken, todo |-> desk'[t].todo]
             /\ desk'[t].overtaken = TRUE
             /\ SoundTodo(desk'[t].todo, hire', membership', invite')
  <2>1. desk'[t] = [overtaken |-> TRUE, todo |-> desk[t].todo]
    BY <1>3, <1>4
  <2>2. desk'[t].overtaken = TRUE /\ desk'[t].todo = desk[t].todo
    BY <2>1
  <2>3. SoundTodo(desk[t].todo, hire', membership', invite')
    BY <1>3, <1>4, StaysSound DEF StepKeeps
  <2> QED
    BY <2>1, <2>2, <2>3
<1> QED
  BY <1>2, <1>4 DEF DesksAreSound

(***************************************************************************)
(* What a commit does to the tables                                        *)
(***************************************************************************)
TablesInvariant == TablesOK /\ LinksAreExclusive /\ OneAcceptedEach

\* A login attached to an employee is the login of nobody else.
LEMMA AttachKeeps ==
  ASSUME TablesOK, LinksAreExclusive, NEW e \in Hires, hire[e] # Nothing, NEW p \in Folk, Attach(e, p)
  PROVE  /\ hire' \in [Hires -> HireRow \cup {Nothing}]
         /\ \A f \in Hires : hire[f] # Nothing => hire'[f] # Nothing
         /\ \A f \in Hires : hire'[f] # Nothing => hire[f] # Nothing
         /\ hire'[e].user = p
         /\ \A f \in Hires \ {e} : hire'[f] = hire[f] /\ (hire[f] # Nothing => hire[f].user # p)
<1> DEFINE row == [hire[e] EXCEPT !.user = p]
<1>1. hire[e] \in [status : {"active", "inactive"}, user : Folk \cup {Nothing}]
  BY HireHasFields
<1>2. row \in HireRow /\ row.user = p
  BY <1>1 DEF HireRow
<1>3. hire' = [hire EXCEPT ![e] = row]
  BY DEF Attach
<1>4. \A f \in Hires \ {e} : hire[f] # Nothing => hire[f].user # p
  BY DEF Attach, LinkedTo
<1> HIDE DEF row
<1> QED
  BY <1>2, <1>3, <1>4, StaffAssumption DEF TablesOK

\* So if the login is a member's afterwards, logins stay exclusive.
LEMMA LinkStays ==
  ASSUME TablesOK, LinksAreExclusive, NEW e \in Hires, hire[e] # Nothing, NEW p \in Folk, Attach(e, p),
         \A q \in Folk : membership[q] # "none" => membership'[q] # "none", membership'[p] # "none"
  PROVE  /\ LinksAreExclusive'
         /\ hire' \in [Hires -> HireRow \cup {Nothing}]
         /\ \A f \in Hires : hire[f] # Nothing => hire'[f] # Nothing
<1>1. ASSUME NEW f \in Hires, hire[f] # Nothing, hire[f].user # Nothing PROVE hire[f].user \in Folk
  BY <1>1, HireHasFields
<1>2. /\ hire' \in [Hires -> HireRow \cup {Nothing}]
      /\ \A f \in Hires : hire[f] # Nothing => hire'[f] # Nothing
      /\ hire'[e].user = p
      /\ \A f \in Hires \ {e} : hire'[f] = hire[f] /\ (hire[f] # Nothing => hire[f].user # p)
  BY AttachKeeps
<1>3. LinksAreExclusive'
  BY <1>1, <1>2 DEF LinksAreExclusive
<1> QED
  BY <1>2, <1>3

\* A commit that attaches a login, and leaves accounts and invites alone.
LEMMA AttachAndMember ==
  ASSUME TablesInvariant, NEW e \in Hires, hire[e] # Nothing, NEW p \in Folk, Attach(e, p),
         UNCHANGED <<account, invite, accepted>>,
         membership' \in [Folk -> {"none", "active", "deactivated"}],
         \A q \in Folk : membership[q] # "none" => membership'[q] # "none", membership'[p] # "none"
  PROVE  TablesInvariant' /\ StepKeeps
<1>1. /\ LinksAreExclusive'
      /\ hire' \in [Hires -> HireRow \cup {Nothing}]
      /\ \A f \in Hires : hire[f] # Nothing => hire'[f] # Nothing
  BY LinkStays DEF TablesInvariant
<1>2. \A i \in Invites : invite[i] # Nothing /\ invite[i].emp # Nothing => hire'[invite[i].emp] # Nothing
  BY <1>1, InviteesStay DEF TablesInvariant
<1> QED
  BY <1>1, <1>2 DEF TablesInvariant, TablesOK, StepKeeps, Kept, OneAcceptedEach

\* A commit that leaves the tables of employees and invites alone.
LEMMA MembershipsOnly ==
  ASSUME TablesInvariant, UNCHANGED <<hire, invite, accepted>>,
         account' \in [Folk -> BOOLEAN], \A p \in Folk : account[p] => account'[p],
         membership' \in [Folk -> {"none", "active", "deactivated"}],
         \A p \in Folk : membership[p] # "none" => membership'[p] # "none"
  PROVE  TablesInvariant' /\ StepKeeps
<1>1. ASSUME NEW e \in Hires, hire[e] # Nothing, hire[e].user # Nothing PROVE hire[e].user \in Folk
  BY <1>1, HireHasFields DEF TablesInvariant
<1>2. ASSUME NEW i \in Invites, invite[i] # Nothing PROVE invite[i].email \in Folk
  BY <1>2, InviteHasFields DEF TablesInvariant
<1>3. TablesOK'
  BY DEF TablesInvariant, TablesOK
<1>4. LinksAreExclusive'
  BY <1>1 DEF TablesInvariant, LinksAreExclusive
<1>5. OneAcceptedEach'
  BY <1>2 DEF TablesInvariant, OneAcceptedEach, TablesOK
<1> QED
  BY <1>3, <1>4, <1>5 DEF TablesInvariant, StepKeeps, Kept

\* A commit that changes employee records: those that were there are still there, with
\* the login they had.
LEMMA SameLogins ==
  ASSUME TablesInvariant, UNCHANGED <<account, invite, accepted>>,
         membership' \in [Folk -> {"none", "active", "deactivated"}],
         \A p \in Folk : membership[p] # "none" => membership'[p] # "none",
         NEW e \in Hires, hire[e] # Nothing, NEW status \in {"active", "inactive"},
         hire' = [hire EXCEPT ![e].status = status]
  PROVE  TablesInvariant' /\ StepKeeps
<1> DEFINE row == [hire[e] EXCEPT !.status = status]
<1>1. hire[e] \in [status : {"active", "inactive"}, user : Folk \cup {Nothing}]
  BY HireHasFields DEF TablesInvariant
<1>2. row \in HireRow /\ row.user = hire[e].user
  BY <1>1 DEF HireRow
<1>3. hire' = [hire EXCEPT ![e] = row]
  OBVIOUS
<1> HIDE DEF row
<1>4. /\ hire' \in [Hires -> HireRow \cup {Nothing}]
      /\ \A f \in Hires : hire'[f] # Nothing <=> hire[f] # Nothing
      /\ \A f \in Hires : hire'[f].user = hire[f].user
  BY <1>2, <1>3, StaffAssumption DEF TablesInvariant, TablesOK
<1>5. ASSUME NEW f \in Hires, hire[f] # Nothing, hire[f].user # Nothing PROVE hire[f].user \in Folk
  BY <1>5, HireHasFields DEF TablesInvariant
<1>6. TablesOK' /\ StepKeeps /\ OneAcceptedEach'
  BY <1>4 DEF TablesInvariant, TablesOK, StepKeeps, Kept, OneAcceptedEach
<1>7. LinksAreExclusive'
  BY <1>4, <1>5 DEF TablesInvariant, LinksAreExclusive
<1> QED
  BY <1>6, <1>7 DEF TablesInvariant

\* A commit.
Commits(s) ==
  \/ FinishRegister(s) \/ FinishDeactivate(s) \/ FinishReactivate(s) \/ FinishInvite(s)
  \/ FinishAdd(s) \/ FinishAccept(s) \/ FinishCreateHire(s) \/ FinishLinkUser(s)
  \/ FinishOffboard(s) \/ FinishReinstate(s) \/ FinishSetHead(s)

\* What a request that commits had checked is sound.
LEMMA TodoIsSound ==
  ASSUME DesksAreSound, NEW s \in Desks, desk[s] # Nothing
  PROVE  SoundTodo(desk[s].todo, hire, membership, invite)
BY DEF DesksAreSound

\* Every commit keeps the tables right, and what other requests have checked.
LEMMA CommitStep ==
  ASSUME TablesInvariant, DesksAreSound, NEW s \in Desks, Commits(s)
  PROVE  TablesInvariant' /\ StepKeeps
<1> DEFINE r == desk[s].todo
<1>1. desk[s] # Nothing
  BY DEF Commits, FinishRegister, FinishDeactivate, FinishReactivate, FinishInvite, FinishAdd, FinishAccept,
         FinishCreateHire, FinishLinkUser, FinishOffboard, FinishReinstate, FinishSetHead, DeskDoing
<1>2. SoundTodo(r, hire, membership, invite)
  BY <1>1, TodoIsSound
<1> HIDE DEF r
<1>3. TablesOK
  BY DEF TablesInvariant
<1>4. ASSUME FinishRegister(s) PROVE TablesInvariant' /\ StepKeeps
  <2>1. r.p \in Folk /\ account' = [account EXCEPT ![r.p] = TRUE]
        /\ UNCHANGED <<hire, invite, accepted, membership>>
    BY <1>2, <1>4 DEF FinishRegister, DeskDoing, SoundTodo, r
  <2> QED
    BY <1>3, <2>1, MembershipsOnly DEF TablesOK
<1>5. ASSUME FinishDeactivate(s) \/ FinishReactivate(s) PROVE TablesInvariant' /\ StepKeeps
  <2>1. PICK m \in {"active", "deactivated"} :
          /\ membership' = [membership EXCEPT ![r.p] = m]
          /\ UNCHANGED <<hire, invite, accepted, account>>
    BY <1>5 DEF FinishDeactivate, FinishReactivate, r
  <2> QED
    BY <1>3, <2>1, MembershipsOnly DEF TablesOK
<1>6. ASSUME FinishSetHead(s) PROVE TablesInvariant' /\ StepKeeps
  BY <1>3, <1>6, MembershipsOnly DEF FinishSetHead, TablesOK
<1>7. ASSUME FinishInvite(s) PROVE TablesInvariant' /\ StepKeeps
  <2>1. r.p \in Folk /\ r.emp \in Hires \cup {Nothing} /\ \A j \in r.old : j \in Invites /\ invite[j] # Nothing
    BY <1>2, <1>7 DEF FinishInvite, DeskDoing, SoundTodo, r
  <2> DEFINE row == [email |-> r.p, emp |-> r.emp, used |-> FALSE]
  <2>2. PICK i \in Invites :
          /\ invite[i] = Nothing
          /\ invite' = [j \in Invites |-> IF j = i THEN row
                                          ELSE IF j \in r.old THEN [invite[j] EXCEPT !.used = TRUE]
                                          ELSE invite[j]]
    BY <1>7 DEF FinishInvite, r
  <2>3. row \in InviteRow
    BY <2>1 DEF InviteRow
  <2> HIDE DEF row
  <2>4. ASSUME NEW j \in Invites, j # i
        PROVE  /\ invite'[j] \in InviteRow \cup {Nothing}
               /\ invite[j] # Nothing => /\ invite'[j] # Nothing
                                         /\ invite'[j].emp = invite[j].emp
                                         /\ invite'[j].email = invite[j].email
    <3>1. CASE j \in r.old
      <4>1. invite[j] \in [email : Folk, emp : Hires \cup {Nothing}, used : BOOLEAN]
        BY <1>3, <2>1, <3>1, InviteHasFields
      <4>2. invite'[j] = [invite[j] EXCEPT !.used = TRUE]
        BY <2>2, <2>4, <3>1
      <4>3. invite'[j] \in InviteRow
            /\ invite'[j].emp = invite[j].emp /\ invite'[j].email = invite[j].email
        BY <4>1, <4>2 DEF InviteRow
      <4> QED
        BY <4>3, StaffAssumption
    <3>2. CASE j \notin r.old
      BY <1>3, <2>2, <2>4, <3>2 DEF TablesOK
    <3> QED
      BY <3>1, <3>2
  <2>5. invite'[i] \in InviteRow
    BY <2>2, <2>3
  <2>6. invite' \in [Invites -> InviteRow \cup {Nothing}]
    BY <2>2, <2>4, <2>5
  <2>7. UNCHANGED <<hire, membership, account, accepted>>
    BY <1>7 DEF FinishInvite
  <2>8. TablesOK' /\ StepKeeps
    <3>1. invite'[i].emp # Nothing => hire[invite'[i].emp] # Nothing
      BY <1>2, <1>7, <2>2 DEF FinishInvite, DeskDoing, SoundTodo, r, row
    <3>2. \A j \in Invites : j # i /\ invite'[j] # Nothing => invite[j] # Nothing /\ invite'[j].emp = invite[j].emp
      <4>1. \A j \in Invites : j # i /\ invite[j] = Nothing => invite'[j] = Nothing
        BY <2>1, <2>2
      <4> QED
        BY <2>4, <4>1
    <3>3. \A j \in Invites : invite'[j] # Nothing /\ invite'[j].emp # Nothing => hire[invite'[j].emp] # Nothing
      BY <1>3, <3>1, <3>2 DEF TablesOK
    <3>4. TablesOK'
      BY <1>3, <2>6, <2>7, <3>3 DEF TablesOK
    <3> QED
      BY <2>2, <2>4, <2>7, <3>4 DEF StepKeeps, Kept
  <2>9. \A j \in accepted : j \in Invites /\ j # i /\ invite[j] # Nothing
    BY <1>3, <2>2 DEF TablesInvariant, OneAcceptedEach, TablesOK
  <2>10. OneAcceptedEach'
    BY <2>4, <2>7, <2>9 DEF TablesInvariant, OneAcceptedEach
  <2> QED
    BY <2>7, <2>8, <2>10 DEF TablesInvariant, LinksAreExclusive
<1>8. ASSUME FinishAdd(s) PROVE TablesInvariant' /\ StepKeeps
  <2>1. /\ r.p \in Folk /\ r.emp \in Hires \cup {Nothing}
        /\ r.emp # Nothing => hire[r.emp] # Nothing
        /\ membership' = [membership EXCEPT ![r.p] = "active"]
        /\ UNCHANGED <<account, invite, accepted>>
        /\ (r.emp = Nothing /\ UNCHANGED hire) \/ (r.emp # Nothing /\ Attach(r.emp, r.p))
    BY <1>2, <1>8 DEF FinishAdd, DeskDoing, SoundTodo, r
  <2>2. /\ membership' \in [Folk -> {"none", "active", "deactivated"}]
        /\ \A p \in Folk : membership[p] # "none" => membership'[p] # "none"
        /\ membership'[r.p] # "none"
    BY <1>3, <2>1 DEF TablesOK
  <2>3. CASE UNCHANGED hire
    BY <1>3, <2>1, <2>2, <2>3, MembershipsOnly DEF TablesOK
  <2>4. CASE r.emp # Nothing /\ Attach(r.emp, r.p)
    BY <2>1, <2>2, <2>4, AttachAndMember
  <2> QED
    BY <2>1, <2>3, <2>4
<1>9. ASSUME FinishLinkUser(s) PROVE TablesInvariant' /\ StepKeeps
  <2>1. /\ r.e \in Hires /\ hire[r.e] # Nothing /\ r.p \in Folk /\ membership[r.p] # "none"
        /\ UNCHANGED <<account, membership, invite, accepted>>
        /\ Attach(r.e, r.p)
    BY <1>2, <1>9 DEF FinishLinkUser, DeskDoing, SoundTodo, r
  <2> QED
    BY <1>3, <2>1, AttachAndMember DEF TablesOK
<1>10. ASSUME FinishCreateHire(s) PROVE TablesInvariant' /\ StepKeeps
  <2> DEFINE row == [status |-> "active", user |-> r.p]
  <2>1. /\ r.e \in Hires /\ hire[r.e] = Nothing
        /\ r.p \in Folk \cup {Nothing} /\ (r.p # Nothing => membership[r.p] # "none" /\ LinkedTo(r.p) = {})
        /\ hire' = [hire EXCEPT ![r.e] = row]
        /\ UNCHANGED <<account, membership, invite, accepted>>
    BY <1>2, <1>10 DEF FinishCreateHire, DeskDoing, SoundTodo, r
  <2>2. row \in HireRow /\ row.user = r.p
    BY <2>1 DEF HireRow
  <2> HIDE DEF row
  <2>3. /\ hire' \in [Hires -> HireRow \cup {Nothing}]
        /\ hire'[r.e].user = r.p
        /\ \A f \in Hires \ {r.e} : hire'[f] = hire[f]
        /\ \A f \in Hires : hire[f] # Nothing => hire'[f] # Nothing
    BY <1>3, <2>1, <2>2, StaffAssumption DEF TablesOK
  <2>4. r.p # Nothing => \A f \in Hires : hire[f] # Nothing => hire[f].user # r.p
    BY <2>1 DEF LinkedTo
  <2>5. LinksAreExclusive'
    BY <2>1, <2>3, <2>4 DEF TablesInvariant, LinksAreExclusive
  <2> QED
    BY <1>3, <2>1, <2>3, <2>5 DEF TablesInvariant, TablesOK, StepKeeps, Kept, OneAcceptedEach
<1>11. ASSUME FinishOffboard(s) \/ FinishReinstate(s) PROVE TablesInvariant' /\ StepKeeps
  <2>1. /\ r.e \in Hires /\ hire[r.e] # Nothing
        /\ UNCHANGED <<account, invite, accepted>>
    BY <1>2, <1>11 DEF FinishOffboard, FinishReinstate, DeskDoing, SoundTodo, r
  <2>2. \E status \in {"active", "inactive"} : hire' = [hire EXCEPT ![r.e].status = status]
    BY <1>11 DEF FinishOffboard, FinishReinstate, r
  <2>3. membership' = membership
        \/ \E m \in {"active", "deactivated"} :
              membership' = [membership EXCEPT ![hire[r.e].user] = m]
    BY <1>11 DEF FinishOffboard, FinishReinstate, r
  <2>4. /\ membership' \in [Folk -> {"none", "active", "deactivated"}]
        /\ \A p \in Folk : membership[p] # "none" => membership'[p] # "none"
    BY <1>3, <2>3 DEF TablesOK
  <2> QED
    BY <2>1, <2>2, <2>4, SameLogins
<1>12. ASSUME FinishAccept(s) PROVE TablesInvariant' /\ StepKeeps
  <2> DEFINE i == r.i
             p == invite[i].email
             row == [invite[i] EXCEPT !.used = TRUE]
  <2>1. /\ i \in Invites /\ invite[i] # Nothing /\ ~account[p]
        /\ account' = [account EXCEPT ![p] = TRUE]
        /\ membership' = [membership EXCEPT ![p] = "active"]
        /\ invite' = [invite EXCEPT ![i] = row]
        /\ accepted' = accepted \cup {i}
        /\ UNCHANGED hire \/ (invite[i].emp \in Hires /\ hire[invite[i].emp] # Nothing /\ Attach(invite[i].emp, p))
    BY <1>2, <1>12 DEF FinishAccept, DeskDoing, SoundTodo, r
  <2>2. invite[i] \in [email : Folk, emp : Hires \cup {Nothing}, used : BOOLEAN]
    BY <1>3, <2>1, InviteHasFields
  <2>3. row \in InviteRow /\ row.email = p /\ row.emp = invite[i].emp /\ p \in Folk
    BY <2>2 DEF InviteRow
  <2> HIDE DEF i, p, row
  <2>4. /\ invite' \in [Invites -> InviteRow \cup {Nothing}]
        /\ \A j \in Invites : invite[j] # Nothing =>
             invite'[j] # Nothing /\ invite'[j].emp = invite[j].emp /\ invite'[j].email = invite[j].email
        /\ invite'[i] # Nothing /\ invite'[i].email = p
    BY <1>3, <2>1, <2>3, StaffAssumption DEF TablesOK, p
  <2>5. /\ membership' \in [Folk -> {"none", "active", "deactivated"}]
        /\ \A q \in Folk : membership[q] # "none" => membership'[q] # "none"
        /\ membership'[p] # "none"
        /\ account' \in [Folk -> BOOLEAN]
        /\ \A q \in Folk : account'[q] <=> (account[q] \/ q = p)
    BY <1>3, <2>1, <2>3 DEF TablesOK
  <2>6. LinksAreExclusive' /\ hire' \in [Hires -> HireRow \cup {Nothing}]
        /\ \A e \in Hires : hire[e] # Nothing => hire'[e] # Nothing
    <3>1. ASSUME NEW e \in Hires, hire[e] # Nothing, hire[e].user # Nothing PROVE hire[e].user \in Folk
      BY <1>3, <3>1, HireHasFields
    <3>2. CASE UNCHANGED hire
      BY <1>3, <2>5, <3>1, <3>2 DEF TablesInvariant, LinksAreExclusive, TablesOK
    <3>3. ASSUME NEW e \in Hires, hire[e] # Nothing, Attach(e, p)
          PROVE  LinksAreExclusive' /\ hire' \in [Hires -> HireRow \cup {Nothing}]
                 /\ \A f \in Hires : hire[f] # Nothing => hire'[f] # Nothing
      BY <2>3, <2>5, <3>1, <3>3, LinkStays DEF TablesInvariant
    <3> QED
      BY <2>1, <3>2, <3>3
  <2>7. TablesOK' /\ StepKeeps
    <3>1. \A j \in Invites : invite[j] # Nothing /\ invite[j].emp # Nothing => hire'[invite[j].emp] # Nothing
      BY <1>3, <2>6, InviteesStay
    <3>2. \A j \in Invites : invite'[j] # Nothing => invite[j] # Nothing /\ invite'[j].emp = invite[j].emp
      BY <1>3, <2>1, <2>4 DEF TablesOK
    <3> QED
      BY <1>3, <2>1, <2>4, <2>5, <2>6, <3>1, <3>2 DEF TablesOK, StepKeeps, Kept
  <2>8. \A j \in accepted : j \in Invites /\ invite[j] # Nothing /\ invite[j].email # p /\ invite[j].email \in Folk
    <3>1. \A j \in accepted : j \in Invites /\ invite[j] # Nothing /\ account[invite[j].email]
      BY <1>3 DEF TablesInvariant, OneAcceptedEach, TablesOK
    <3>2. \A j \in Invites : invite[j] # Nothing => invite[j].email \in Folk
      BY <1>3, InviteHasFields
    <3> QED
      BY <2>1, <3>1, <3>2
  <2>9. OneAcceptedEach'
    BY <2>1, <2>3, <2>4, <2>5, <2>8 DEF TablesInvariant, OneAcceptedEach
  <2> QED
    BY <2>6, <2>7, <2>9 DEF TablesInvariant
<1> QED
  BY <1>4, <1>5, <1>6, <1>7, <1>8, <1>9, <1>10, <1>11, <1>12 DEF Commits

(***************************************************************************)
(* Requests and unused invites, step by step                               *)
(***************************************************************************)
\* A request that begins, whatever it has checked, writes nothing.
LEMMA BeginIsSound ==
  ASSUME StaffInvariant, NEW s \in Desks, NEW r, SoundTodo(r, hire, membership, invite), DeskReady(s, r),
         r.op = "invite" => r.old = UnusedInvites(r.p)
  PROVE  StaffInvariant'
<1>1. UNCHANGED <<account, membership, hire, invite, staffRaced, accepted>>
  BY DEF DeskReady
<1>2. desk' = [desk EXCEPT ![s] = [overtaken |-> FALSE, todo |-> r]]
  BY DEF DeskReady, Checked
<1>3. desk'[s] = [overtaken |-> FALSE, todo |-> r] /\ \A t \in Desks \ {s} : desk'[t] = desk[t]
  BY <1>2 DEF StaffInvariant, DesksAreSound
<1>4. desk'[s].todo = r
  BY <1>3
<1>5. DesksAreSound'
  BY ReadyIsSound DEF StaffInvariant
<1>6. TablesOK' /\ LinksAreExclusive' /\ OneAcceptedEach'
  BY <1>1 DEF StaffInvariant, TablesOK, LinksAreExclusive, OneAcceptedEach
<1>7. ASSUME NEW i \in Invites, desk'[s].todo.op = "invite", Unused(i), invite[i].email = desk'[s].todo.p
      PROVE  i \in desk'[s].todo.old
  BY <1>4, <1>7 DEF UnusedInvites, Unused
<1>8. OneUnusedEach'
  BY <1>1, <1>3, <1>7 DEF StaffInvariant, OneUnusedEach, Unused
<1> QED
  BY <1>5, <1>6, <1>8 DEF StaffInvariant

\* After a commit, if nothing has overlapped yet, nobody has two unused invites.
LEMMA UnusedStep ==
  ASSUME StaffInvariant, NEW s \in Desks, Commits(s), ~staffRaced'
  PROVE  \A i, j \in Invites : Unused(i)' /\ Unused(j)' /\ invite'[i].email = invite'[j].email => i = j
<1>1. ~staffRaced /\ desk[s] # Nothing /\ ~desk[s].overtaken
  BY DEF Commits, FinishRegister, FinishDeactivate, FinishReactivate, FinishInvite, FinishAdd, FinishAccept,
         FinishCreateHire, FinishLinkUser, FinishOffboard, FinishReinstate, FinishSetHead, DeskDoing,
         DeskCommits, Overtaken
<1>2. TablesOK
  BY DEF StaffInvariant
<1>3. CASE FinishInvite(s)
  <2> DEFINE r == desk[s].todo
             row == [email |-> r.p, emp |-> r.emp, used |-> FALSE]
  <2>1. SoundTodo(r, hire, membership, invite) /\ r.op = "invite"
    BY <1>3, TodoIsSound DEF StaffInvariant, FinishInvite, DeskDoing
  <2>2. PICK n \in Invites :
          /\ invite[n] = Nothing
          /\ invite' = [j \in Invites |-> IF j = n THEN row
                                          ELSE IF j \in r.old THEN [invite[j] EXCEPT !.used = TRUE]
                                          ELSE invite[j]]
    BY <1>3 DEF FinishInvite
  <2>3. \A j \in r.old : invite[j] \in [email : Folk, emp : Hires \cup {Nothing}, used : BOOLEAN]
    BY <1>2, <2>1, InviteHasFields DEF SoundTodo
  <2>4. \A i \in Invites : Unused(i) /\ invite[i].email = r.p => i \in r.old
    BY <1>1, <2>1 DEF StaffInvariant, OneUnusedEach
  <2>5. invite'[n].email = r.p
    BY <2>2
  <2>6. ASSUME NEW i \in Invites, i # n, Unused(i)'
        PROVE  invite'[i] = invite[i] /\ Unused(i) /\ invite[i].email # r.p
    <3>1. i \notin r.old
      <4>1. ASSUME i \in r.old PROVE FALSE
        <5>1. invite'[i] = [invite[i] EXCEPT !.used = TRUE]
          BY <2>2, <2>6, <4>1
        <5>2. invite'[i].used = TRUE
          BY <2>3, <4>1, <5>1
        <5> QED
          BY <2>6, <5>2 DEF Unused
      <4> QED
        BY <4>1
    <3>2. invite'[i] = invite[i]
      BY <2>2, <2>6, <3>1
    <3> QED
      BY <2>4, <2>6, <3>1, <3>2 DEF Unused
  <2> HIDE DEF r, row
  <2> QED
    BY <1>1, <2>5, <2>6 DEF StaffInvariant, OneUnusedEach
<1>4. CASE ~FinishInvite(s)
  <2>1. ASSUME NEW i \in Invites, Unused(i)' PROVE invite'[i] = invite[i]
    <3>1. CASE UNCHANGED invite
      BY <3>1
    <3>2. CASE FinishAccept(s)
      <4> DEFINE k == desk[s].todo.i
      <4>1. k \in Invites /\ invite[k] # Nothing /\ invite' = [invite EXCEPT ![k].used = TRUE]
        BY <3>2, TodoIsSound DEF StaffInvariant, FinishAccept, DeskDoing, SoundTodo
      <4>2. invite[k] \in [email : Folk, emp : Hires \cup {Nothing}, used : BOOLEAN]
        BY <1>2, <4>1, InviteHasFields
      <4> HIDE DEF k
      <4>3. i # k
        <5>1. CASE i = k
          <6>1. invite'[k] = [invite[k] EXCEPT !.used = TRUE]
            BY <1>2, <4>1 DEF TablesOK
          <6>2. invite'[k].used = TRUE
            BY <4>2, <6>1
          <6> QED
            BY <2>1, <5>1, <6>2 DEF Unused
        <5> QED
          BY <5>1
      <4> QED
        BY <1>2, <4>1, <4>3 DEF TablesOK
    <3> QED
      BY <1>4, <3>1, <3>2
      DEF Commits, FinishRegister, FinishDeactivate, FinishReactivate, FinishAdd, FinishCreateHire,
          FinishLinkUser, FinishOffboard, FinishReinstate, FinishSetHead
  <2>2. \A i \in Invites : Unused(i)' => Unused(i)
    BY <2>1 DEF Unused
  <2> QED
    BY <1>1, <2>1, <2>2 DEF StaffInvariant, OneUnusedEach
<1> QED
  BY <1>3, <1>4

\* Every step keeps the invariant.
LEMMA StaffStep == StaffInvariant /\ [StaffNext]_staffVars => StaffInvariant'
<1> SUFFICES ASSUME StaffInvariant, [StaffNext]_staffVars PROVE StaffInvariant'
  OBVIOUS
<1>1. ASSUME NEW s \in Desks, Commits(s) PROVE StaffInvariant'
  <2>1. TablesInvariant' /\ StepKeeps
    BY <1>1, CommitStep DEF StaffInvariant, TablesInvariant
  <2>2. DeskCommits(s)
    BY <1>1 DEF Commits, FinishRegister, FinishDeactivate, FinishReactivate, FinishInvite, FinishAdd,
                FinishAccept, FinishCreateHire, FinishLinkUser, FinishOffboard, FinishReinstate, FinishSetHead
  <2>3. DesksAreSound' /\ \A t \in Desks : desk'[t] # Nothing => desk'[t].overtaken = TRUE
    BY <2>1, <2>2, CommitIsSound DEF StaffInvariant
  <2>4. ~staffRaced' =>
          \A i, j \in Invites : Unused(i)' /\ Unused(j)' /\ invite'[i].email = invite'[j].email => i = j
    BY <1>1, UnusedStep
  <2>5. OneUnusedEach'
    BY <2>3, <2>4 DEF OneUnusedEach, Unused
  <2> QED
    BY <2>1, <2>3, <2>5 DEF StaffInvariant, TablesInvariant
<1>2. ASSUME NEW s \in Desks, AbandonDesk(s) PROVE StaffInvariant'
  <2>1. desk' = [desk EXCEPT ![s] = Nothing]
        /\ UNCHANGED <<account, membership, hire, invite, staffRaced, accepted>>
    BY <1>2 DEF AbandonDesk
  <2>2. desk' = [t \in Desks |-> desk'[t]] /\ desk'[s] = Nothing
        /\ \A t \in Desks \ {s} : desk'[t] = desk[t]
    BY <2>1 DEF StaffInvariant, DesksAreSound
  <2>3. DesksAreSound' /\ OneUnusedEach'
    BY <2>1, <2>2 DEF StaffInvariant, DesksAreSound, OneUnusedEach, Unused
  <2> QED
    BY <2>1, <2>3 DEF StaffInvariant, TablesOK, LinksAreExclusive, OneAcceptedEach
<1>3. ASSUME NEW s \in Desks, NEW p \in Folk,
             BeginRegister(s, p) \/ BeginDeactivate(s, p) \/ BeginReactivate(s, p)
      PROVE  StaffInvariant'
  BY <1>3, BeginIsSound DEF BeginRegister, BeginDeactivate, BeginReactivate, SoundTodo
<1>4. ASSUME NEW s \in Desks, NEW p \in Folk, NEW e \in Hires \cup {Nothing},
             e # Nothing => hire[e] # Nothing,
             \/ DeskReady(s, [op |-> "invite", p |-> p, emp |-> e, old |-> UnusedInvites(p)])
             \/ DeskReady(s, [op |-> "add", p |-> p, emp |-> e])
      PROVE  StaffInvariant'
  BY <1>4, BeginIsSound DEF SoundTodo, UnusedInvites
<1>5. ASSUME NEW s \in Desks, NEW p \in Folk, NEW e \in Hires, hire[e] # Nothing, MayLink(p),
             DeskReady(s, [op |-> "link", e |-> e, p |-> p])
      PROVE  StaffInvariant'
  BY <1>5, BeginIsSound DEF SoundTodo, MayLink
<1>6. ASSUME NEW s \in Desks, NEW p \in Folk, BeginInvite(s, p) PROVE StaffInvariant'
  BY <1>4, <1>6 DEF BeginInvite
<1>7. ASSUME NEW s \in Desks, NEW e \in Hires, BeginGrantLogin(s, e) PROVE StaffInvariant'
  BY <1>4, <1>5, <1>7, StaffAssumption DEF BeginGrantLogin
<1>8. ASSUME NEW s \in Desks, NEW e \in Hires, NEW p \in Folk, BeginLinkUser(s, e, p) PROVE StaffInvariant'
  BY <1>5, <1>8 DEF BeginLinkUser
<1>9. ASSUME NEW s \in Desks, NEW i \in Invites, BeginAccept(s, i) PROVE StaffInvariant'
  <2> DEFINE r == [op |-> "accept", i |-> i, links |-> WantsLogin(invite[i].emp)]
  <2>1. invite[i] # Nothing /\ DeskReady(s, r)
    BY <1>9 DEF BeginAccept
  <2>2. invite[i] \in [email : Folk, emp : Hires \cup {Nothing}, used : BOOLEAN]
    BY <2>1, InviteHasFields DEF StaffInvariant
  <2>3. WantsLogin(invite[i].emp) => invite[i].emp \in Hires /\ hire[invite[i].emp] # Nothing
    BY <2>1, <2>2 DEF StaffInvariant, TablesOK, WantsLogin
  <2>4. SoundTodo(r, hire, membership, invite)
    BY <2>1, <2>3 DEF SoundTodo
  <2> QED
    BY <2>1, <2>4, BeginIsSound
<1>10. ASSUME NEW s \in Desks, NEW e \in Hires, NEW p \in Folk \cup {Nothing}, BeginCreateHire(s, e, p)
       PROVE  StaffInvariant'
  BY <1>10, BeginIsSound DEF BeginCreateHire, SoundTodo, MayLink
<1>11. ASSUME NEW s \in Desks, NEW e \in Hires, BeginOffboard(s, e) \/ BeginReinstate(s, e)
       PROVE  StaffInvariant'
  BY <1>11, BeginIsSound DEF BeginOffboard, BeginReinstate, SoundTodo
<1>12. ASSUME NEW s \in Desks, NEW d \in Units, NEW e \in Hires \cup {Nothing}, BeginSetHead(s, d, e)
       PROVE  StaffInvariant'
  BY <1>12, BeginIsSound DEF BeginSetHead, SoundTodo
<1>13. CASE UNCHANGED staffVars
  BY <1>13 DEF staffVars, StaffInvariant, TablesOK, DesksAreSound, LinksAreExclusive, OneAcceptedEach,
               OneUnusedEach, Unused
<1> QED
  BY <1>1, <1>2, <1>3, <1>6, <1>7, <1>8, <1>9, <1>10, <1>11, <1>12, <1>13 DEF StaffNext, Commits

\* Whatever links, invites, additions, departures and returns race: a login is that of
\* one employee at most and of a member, and a person accepts one invite; and unless
\* requests overlapped a person has one unused invite at most.
THEOREM LoginsStayExclusive == StaffSpec => []LoginsAreExclusive
<1>1. StaffInit => StaffInvariant
  BY DEF StaffInit, StaffInvariant, TablesOK, DesksAreSound, LinksAreExclusive, OneAcceptedEach,
         OneUnusedEach, Unused
<1> QED
  BY <1>1, StaffStep, InvariantSuffices, PTL DEF StaffSpec

-----------------------------------------------------------------------------
(***************************************************************************)
(* Who has left, for any number of people, employees and concurrent        *)
(* requests: LeaversStayLockedOut.                                         *)
(*                                                                         *)
(* A request that gives somebody a login, a membership or a department     *)
(* checks first that they have not left.  The invariant says what of it    *)
(* nobody can undo, and what is so until somebody else commits.            *)
(***************************************************************************)

\* The rest of StaffTypeOK.
MoreTypes ==
  /\ head \in [Units -> Hires \cup {Nothing}]
  /\ staffRaced \in BOOLEAN /\ lateLinks \subseteq Hires

\* Nobody is a member without an account.
MembersHaveAccounts == \A p \in Folk : membership[p] # "none" => account[p]

\* What a request has found out that nobody can undo.
KnownTodo(r) ==
  /\ r.op \in {"deactivate", "reactivate", "add"} => r.p \in Folk /\ account[r.p]
  /\ r.op = "head" => r.d \in Units /\ r.e \in Hires \cup {Nothing}

\* What it has found out about who has left.
ForeseenTodo(r) ==
  /\ r.op = "reactivate" => \A e \in LinkedTo(r.p) : hire[e].status # "inactive"
  /\ r.op = "add" => (r.emp # Nothing => hire[r.emp].status # "inactive")
  /\ r.op = "accept" => (r.links => hire[invite[r.i].emp].status # "inactive")
  /\ r.op = "head" => (r.e # Nothing => hire[r.e].status # "inactive")

\* It is so until somebody else commits.
DesksForesee ==
  \A s \in Desks : desk[s] # Nothing =>
    /\ KnownTodo(desk[s].todo)
    /\ ~desk[s].overtaken => ForeseenTodo(desk[s].todo)

\* What LeaversAreLockedOut says of an employee.
OutIfGone(e) ==
  hire[e] # Nothing /\ hire[e].status = "inactive" =>
    /\ hire[e].user # Nothing /\ e \notin lateLinks => membership[hire[e].user] # "active"
    /\ \A d \in Units : head[d] # e

\* The invariant: that of logins, the types, what requests know and the promise itself.
LeaversInvariant ==
  StaffInvariant /\ MoreTypes /\ MembersHaveAccounts /\ DesksForesee /\ LeaversAreLockedOut

\* While the tables stay as they are, so does what a request has found out.
LEMMA SameTodos ==
  ASSUME UNCHANGED <<account, hire, invite>>
  PROVE  \A r : (KnownTodo(r) => KnownTodo(r)') /\ (ForeseenTodo(r) => ForeseenTodo(r)')
<1>1. \A r : KnownTodo(r) => KnownTodo(r)'
  BY DEF KnownTodo
<1>2. \A p : LinkedTo(p)' = LinkedTo(p)
  BY DEF LinkedTo
<1> QED
  BY <1>1, <1>2 DEF ForeseenTodo

\* The request that takes something up.
LEMMA DeskForeseesReady ==
  ASSUME LeaversInvariant, NEW s \in Desks, NEW r, DeskReady(s, r), KnownTodo(r), ForeseenTodo(r)
  PROVE  DesksForesee' /\ MoreTypes' /\ MembersHaveAccounts' /\ LeaversAreLockedOut'
<1>1. /\ desk' = [desk EXCEPT ![s] = [overtaken |-> FALSE, todo |-> r]]
      /\ UNCHANGED <<account, membership, hire, head, invite, staffRaced, accepted, lateLinks>>
  BY DEF DeskReady, Checked
<1>2. desk'[s] = [overtaken |-> FALSE, todo |-> r] /\ \A t \in Desks \ {s} : desk'[t] = desk[t]
  BY <1>1 DEF LeaversInvariant, StaffInvariant, DesksAreSound
<1>3. DesksForesee'
  BY <1>1, <1>2, SameTodos DEF LeaversInvariant, DesksForesee
<1> QED
  BY <1>1, <1>3 DEF LeaversInvariant, MoreTypes, MembersHaveAccounts, LeaversAreLockedOut

\* The requests that another one overtakes.
LEMMA DeskForeseesCommit ==
  ASSUME DesksAreSound, DesksForesee, NEW s \in Desks, DeskCommits(s),
         \A p \in Folk : account[p] => account'[p]
  PROVE  DesksForesee'
<1>1. desk' = Committed(desk, s, Nothing)
  BY DEF DeskCommits
<1>2. ASSUME NEW t \in Desks, desk'[t] # Nothing
      PROVE  desk'[t].overtaken = TRUE /\ desk'[t].todo = desk[t].todo /\ KnownTodo(desk[t].todo)
  <2>1. desk[t] # Nothing /\ desk'[t] = [desk[t] EXCEPT !.overtaken = TRUE]
    BY <1>1, <1>2 DEF DesksAreSound, Committed
  <2>2. desk[t] = [overtaken |-> desk[t].overtaken, todo |-> desk[t].todo]
    BY <2>1 DEF DesksAreSound
  <2>3. desk'[t] = [overtaken |-> TRUE, todo |-> desk[t].todo]
    BY <2>1, <2>2
  <2>4. desk'[t].overtaken = TRUE /\ desk'[t].todo = desk[t].todo
    BY <2>3
  <2> QED BY <2>1, <2>4 DEF DesksForesee
<1>3. \A r : KnownTodo(r) => KnownTodo(r)'
  BY DEF KnownTodo
<1> QED BY <1>2, <1>3 DEF DesksForesee

\* What a request has found out when it commits.
LEMMA WhatCommits ==
  ASSUME LeaversInvariant, NEW s \in Desks, desk[s] # Nothing, DeskCommits(s)
  PROVE  /\ SoundTodo(desk[s].todo, hire, membership, invite) /\ KnownTodo(desk[s].todo)
         /\ staffRaced' \in BOOLEAN
         /\ ~staffRaced' => ~staffRaced /\ ForeseenTodo(desk[s].todo)
<1>1. SoundTodo(desk[s].todo, hire, membership, invite)
  BY TodoIsSound DEF LeaversInvariant, StaffInvariant
<1>2. KnownTodo(desk[s].todo) /\ (~desk[s].overtaken => ForeseenTodo(desk[s].todo))
  BY DEF LeaversInvariant, DesksForesee
<1>3. staffRaced' = (staffRaced \/ (desk[s] # Nothing /\ desk[s].overtaken))
  BY DEF DeskCommits, Overtaken
<1> QED BY <1>1, <1>2, <1>3

\* A login that becomes active is that of nobody who has left.
LEMMA LeaversStayOut ==
  ASSUME LeaversInvariant, ~staffRaced, UNCHANGED <<head, lateLinks>>,
         \A e \in Hires :
           hire'[e] # Nothing /\ hire'[e].status = "inactive" =>
             /\ hire[e] # Nothing /\ hire[e].status = "inactive"
             /\ hire'[e].user = hire[e].user \/ e \in lateLinks,
         \A e \in Hires :
           hire[e] # Nothing /\ hire[e].status = "inactive" /\ hire[e].user # Nothing =>
             (membership'[hire[e].user] = "active" => membership[hire[e].user] = "active")
  PROVE  LeaversAreLockedOut'
<1>1. ASSUME NEW e \in Hires PROVE OutIfGone(e)'
  BY DEF OutIfGone, LeaversInvariant, LeaversAreLockedOut
<1> QED
  BY <1>1 DEF OutIfGone, LeaversAreLockedOut

\* register, deactivate and reactivate.
LEMMA MembershipsKeepLeavers ==
  ASSUME LeaversInvariant, NEW s \in Desks,
         FinishRegister(s) \/ FinishDeactivate(s) \/ FinishReactivate(s)
  PROVE  MoreTypes' /\ MembersHaveAccounts' /\ LeaversAreLockedOut' /\ DesksForesee'
<1>1. desk[s] # Nothing /\ DeskCommits(s) /\ UNCHANGED <<hire, head, invite, lateLinks>>
  BY DEF FinishRegister, FinishDeactivate, FinishReactivate, DeskDoing
<1>2. desk[s].todo.p \in Folk
  BY <1>1, WhatCommits DEF FinishRegister, FinishDeactivate, FinishReactivate, DeskDoing, SoundTodo
<1>3. PICK p \in Folk : p = desk[s].todo.p
  BY <1>2
<1>4. /\ staffRaced' \in BOOLEAN
      /\ ~staffRaced' => ~staffRaced
  BY <1>1, WhatCommits
<1>5. /\ account \in [Folk -> BOOLEAN]
      /\ membership \in [Folk -> {"none", "active", "deactivated"}]
  BY DEF LeaversInvariant, StaffInvariant, TablesOK
<1>6. /\ \A q \in Folk : account[q] => account'[q]
      /\ MembersHaveAccounts'
      /\ \A q \in Folk \ {p} : membership'[q] = membership[q]
      /\ membership'[p] = "active" =>
           \/ membership[p] = "active"
           \/ ~staffRaced' => \A e \in LinkedTo(p) : hire[e].status # "inactive"
  <2>1. CASE FinishRegister(s)
    BY <1>3, <1>5, <2>1 DEF FinishRegister, LeaversInvariant, MembersHaveAccounts
  <2>2. CASE FinishDeactivate(s)
    <3>1. account[p]
      BY <1>1, <1>3, <2>2, WhatCommits DEF FinishDeactivate, DeskDoing, KnownTodo
    <3>2. membership' = [membership EXCEPT ![p] = "deactivated"] /\ UNCHANGED account
      BY <1>3, <2>2 DEF FinishDeactivate
    <3> QED BY <1>5, <3>1, <3>2 DEF LeaversInvariant, MembersHaveAccounts
  <2>3. CASE FinishReactivate(s)
    <3>1. account[p] /\ (~staffRaced' => \A e \in LinkedTo(p) : hire[e].status # "inactive")
      BY <1>1, <1>3, <2>3, WhatCommits DEF FinishReactivate, DeskDoing, KnownTodo, ForeseenTodo
    <3>2. membership' = [membership EXCEPT ![p] = "active"] /\ UNCHANGED account
      BY <1>3, <2>3 DEF FinishReactivate
    <3> QED BY <1>5, <3>1, <3>2 DEF LeaversInvariant, MembersHaveAccounts
  <2> QED BY <2>1, <2>2, <2>3
<1>7. ASSUME ~staffRaced', NEW e \in Hires, hire[e] # Nothing, hire[e].status = "inactive",
             hire[e].user # Nothing, membership'[hire[e].user] = "active"
      PROVE  membership[hire[e].user] = "active"
  <2>1. hire[e].user \in Folk
    BY <1>7, HireHasFields DEF LeaversInvariant, StaffInvariant
  <2>2. CASE hire[e].user = p
    BY <1>6, <1>7, <2>2 DEF LinkedTo
  <2>3. CASE hire[e].user # p
    BY <1>6, <1>7, <2>1, <2>3
  <2> QED BY <2>2, <2>3
<1>8. LeaversAreLockedOut'
  <2>1. CASE staffRaced'
    BY <2>1 DEF LeaversAreLockedOut
  <2>2. CASE ~staffRaced'
    BY <1>1, <1>4, <1>7, <2>2, LeaversStayOut
  <2> QED BY <2>1, <2>2
<1>9. MoreTypes'
  BY <1>1, <1>4 DEF LeaversInvariant, MoreTypes
<1>10. DesksForesee'
  BY <1>1, <1>6, DeskForeseesCommit DEF LeaversInvariant, StaffInvariant
<1> QED
  BY <1>6, <1>8, <1>9, <1>10

\* A login of somebody who is not a member before is attached to somebody who has not left.
LEMMA AttachKeepsLeavers ==
  ASSUME LeaversInvariant, ~staffRaced, NEW p \in Folk, membership[p] = "none",
         UNCHANGED <<head, lateLinks>>, membership' = [membership EXCEPT ![p] = "active"],
         \/ UNCHANGED hire
         \/ \E e \in Hires : hire[e] # Nothing /\ hire[e].status # "inactive" /\ Attach(e, p)
  PROVE  LeaversAreLockedOut'
<1>1. membership \in [Folk -> {"none", "active", "deactivated"}]
  BY DEF LeaversInvariant, StaffInvariant, TablesOK
<1>2. ASSUME NEW e \in Hires, hire[e] # Nothing, hire[e].user # Nothing
      PROVE  membership'[hire[e].user] = membership[hire[e].user]
  <2>1. hire[e].user \in Folk /\ hire[e].user # p
    BY <1>2, HireHasFields DEF LeaversInvariant, StaffInvariant, LinksAreExclusive
  <2> QED BY <1>1, <2>1
<1>3. ASSUME NEW e \in Hires, hire'[e] # Nothing, hire'[e].status = "inactive"
      PROVE  hire'[e] = hire[e]
  <2>1. CASE UNCHANGED hire
    BY <2>1
  <2>2. ASSUME NEW f \in Hires, hire[f] # Nothing, hire[f].status # "inactive", Attach(f, p)
        PROVE  hire'[e] = hire[e]
    <3>1. hire[f] \in [status : {"active", "inactive"}, user : Folk \cup {Nothing}]
      BY <2>2, HireHasFields DEF LeaversInvariant, StaffInvariant
    <3>2. hire' = [hire EXCEPT ![f].user = p]
      BY <2>2 DEF Attach
    <3>3. hire'[f] = [hire[f] EXCEPT !.user = p]
      BY <3>2 DEF LeaversInvariant, StaffInvariant, TablesOK
    <3>4. hire'[f].status # "inactive"
      BY <2>2, <3>1, <3>3
    <3> QED BY <1>3, <3>2, <3>4 DEF LeaversInvariant, StaffInvariant, TablesOK
  <2> QED BY <2>1, <2>2
<1> QED
  BY <1>2, <1>3, LeaversStayOut

\* Accounts and memberships that are added.
LEMMA MembersGainAccounts ==
  ASSUME LeaversInvariant, NEW p \in Folk, account'[p], \A q \in Folk : account[q] => account'[q],
         membership' = [membership EXCEPT ![p] = "active"]
  PROVE  MembersHaveAccounts'
BY DEF LeaversInvariant, MembersHaveAccounts, StaffInvariant, TablesOK

\* The "added" outcome.
LEMMA AddKeepsLeavers ==
  ASSUME LeaversInvariant, NEW s \in Desks, FinishAdd(s)
  PROVE  MoreTypes' /\ MembersHaveAccounts' /\ LeaversAreLockedOut' /\ DesksForesee'
<1>1. /\ desk[s] # Nothing /\ desk[s].todo.op = "add" /\ DeskCommits(s)
      /\ UNCHANGED <<account, head, lateLinks>>
  BY DEF FinishAdd, DeskDoing
<1>2. /\ desk[s].todo.p \in Folk /\ account[desk[s].todo.p]
      /\ desk[s].todo.emp \in Hires \cup {Nothing}
      /\ desk[s].todo.emp # Nothing => hire[desk[s].todo.emp] # Nothing
      /\ staffRaced' \in BOOLEAN
      /\ ~staffRaced' =>
           ~staffRaced /\ (desk[s].todo.emp # Nothing => hire[desk[s].todo.emp].status # "inactive")
  BY <1>1, WhatCommits DEF SoundTodo, KnownTodo, ForeseenTodo
<1>3. PICK p \in Folk, e \in Hires \cup {Nothing} : p = desk[s].todo.p /\ e = desk[s].todo.emp
  BY <1>2
<1>4. /\ membership[p] = "none" /\ membership' = [membership EXCEPT ![p] = "active"]
      /\ (e = Nothing /\ UNCHANGED hire) \/ (e # Nothing /\ Attach(e, p))
  BY <1>3 DEF FinishAdd
<1>5. LeaversAreLockedOut'
  <2>1. CASE staffRaced'
    BY <2>1 DEF LeaversAreLockedOut
  <2>2. CASE ~staffRaced'
    BY <1>1, <1>2, <1>3, <1>4, <2>2, AttachKeepsLeavers
  <2> QED BY <2>1, <2>2
<1>6. MembersHaveAccounts'
  BY <1>1, <1>2, <1>3, <1>4, MembersGainAccounts
<1>7. MoreTypes'
  BY <1>1, <1>2 DEF LeaversInvariant, MoreTypes
<1>8. DesksForesee'
  BY <1>1, DeskForeseesCommit DEF LeaversInvariant, StaffInvariant
<1> QED
  BY <1>5, <1>6, <1>7, <1>8

\* accept_invite.
LEMMA AcceptKeepsLeavers ==
  ASSUME LeaversInvariant, NEW s \in Desks, FinishAccept(s)
  PROVE  MoreTypes' /\ MembersHaveAccounts' /\ LeaversAreLockedOut' /\ DesksForesee'
<1>1. /\ desk[s] # Nothing /\ desk[s].todo.op = "accept" /\ DeskCommits(s)
      /\ UNCHANGED <<head, lateLinks>>
  BY DEF FinishAccept, DeskDoing
<1>2. desk[s].todo.i \in Invites
  BY <1>1, WhatCommits DEF SoundTodo
<1>3. PICK i \in Invites : i = desk[s].todo.i
  BY <1>2
<1>4. /\ invite[i] # Nothing
      /\ desk[s].todo.links => invite[i].emp \in Hires /\ hire[invite[i].emp] # Nothing
      /\ staffRaced' \in BOOLEAN
      /\ ~staffRaced' =>
           ~staffRaced /\ (desk[s].todo.links => hire[invite[i].emp].status # "inactive")
  BY <1>1, <1>3, WhatCommits DEF SoundTodo, ForeseenTodo
<1>5. invite[i].email \in Folk
  BY <1>4, InviteHasFields DEF LeaversInvariant, StaffInvariant
<1>6. PICK p \in Folk : p = invite[i].email
  BY <1>5
<1>7. /\ ~account[p] /\ account' = [account EXCEPT ![p] = TRUE]
      /\ membership' = [membership EXCEPT ![p] = "active"]
      /\ IF desk[s].todo.links THEN Attach(invite[i].emp, p) ELSE UNCHANGED hire
  BY <1>3, <1>6 DEF FinishAccept
<1>8. account'[p] /\ \A q \in Folk : account[q] => account'[q]
  BY <1>7 DEF LeaversInvariant, StaffInvariant, TablesOK
<1>9. membership[p] = "none"
  BY <1>7 DEF LeaversInvariant, MembersHaveAccounts
<1>10. LeaversAreLockedOut'
  <2>1. CASE staffRaced'
    BY <2>1 DEF LeaversAreLockedOut
  <2>2. CASE ~staffRaced'
    <3>1. \/ UNCHANGED hire
          \/ \E e \in Hires : hire[e] # Nothing /\ hire[e].status # "inactive" /\ Attach(e, p)
      BY <1>4, <1>7, <2>2
    <3> QED
      BY <1>1, <1>4, <1>7, <1>9, <2>2, <3>1, AttachKeepsLeavers
  <2> QED BY <2>1, <2>2
<1>11. MembersHaveAccounts'
  BY <1>7, <1>8, MembersGainAccounts
<1>12. MoreTypes'
  BY <1>1, <1>4 DEF LeaversInvariant, MoreTypes
<1>13. DesksForesee'
  BY <1>1, <1>8, DeskForeseesCommit DEF LeaversInvariant, StaffInvariant
<1> QED
  BY <1>10, <1>11, <1>12, <1>13

\* create_invite and create_employee: nobody's membership or headship changes, and the
\* new employee has not left.
LEMMA NewRowsKeepLeavers ==
  ASSUME LeaversInvariant, NEW s \in Desks, FinishInvite(s) \/ FinishCreateHire(s)
  PROVE  MoreTypes' /\ MembersHaveAccounts' /\ LeaversAreLockedOut' /\ DesksForesee'
<1>1. /\ desk[s] # Nothing /\ DeskCommits(s)
      /\ UNCHANGED <<account, membership, head, lateLinks>>
  BY DEF FinishInvite, FinishCreateHire, DeskDoing
<1>2. staffRaced' \in BOOLEAN /\ (~staffRaced' => ~staffRaced)
  BY <1>1, WhatCommits
<1>3. ASSUME NEW e \in Hires, hire'[e] # Nothing, hire'[e].status = "inactive"
      PROVE  hire'[e] = hire[e]
  <2>1. CASE FinishInvite(s)
    BY <2>1 DEF FinishInvite
  <2>2. CASE FinishCreateHire(s)
    <3> DEFINE row == [status |-> "active", user |-> desk[s].todo.p]
    <3>1. /\ hire' = [hire EXCEPT ![desk[s].todo.e] = row] /\ row.status = "active"
      BY <2>2 DEF FinishCreateHire
    <3> HIDE DEF row
    <3> QED BY <1>3, <3>1 DEF LeaversInvariant, StaffInvariant, TablesOK
  <2> QED BY <2>1, <2>2
<1>4. LeaversAreLockedOut'
  <2>1. CASE staffRaced'
    BY <2>1 DEF LeaversAreLockedOut
  <2>2. CASE ~staffRaced'
    BY <1>1, <1>2, <1>3, <2>2, LeaversStayOut
  <2> QED BY <2>1, <2>2
<1>5. MoreTypes' /\ MembersHaveAccounts'
  BY <1>1, <1>2 DEF LeaversInvariant, MoreTypes, MembersHaveAccounts
<1>6. DesksForesee'
  BY <1>1, DeskForeseesCommit DEF LeaversInvariant, StaffInvariant
<1> QED
  BY <1>4, <1>5, <1>6

\* link_user: a login that is linked to somebody who has left is on record.
LEMMA LinkKeepsLeavers ==
  ASSUME LeaversInvariant, NEW s \in Desks, FinishLinkUser(s)
  PROVE  MoreTypes' /\ MembersHaveAccounts' /\ LeaversAreLockedOut' /\ DesksForesee'
<1>1. /\ desk[s] # Nothing /\ desk[s].todo.op = "link" /\ DeskCommits(s)
      /\ UNCHANGED <<account, membership, head>>
  BY DEF FinishLinkUser, DeskDoing
<1>2. /\ desk[s].todo.e \in Hires /\ desk[s].todo.p \in Folk /\ hire[desk[s].todo.e] # Nothing
      /\ staffRaced' \in BOOLEAN /\ (~staffRaced' => ~staffRaced)
  BY <1>1, WhatCommits DEF SoundTodo
<1>3. PICK e \in Hires, p \in Folk : e = desk[s].todo.e /\ p = desk[s].todo.p
  BY <1>2
<1>4. /\ Attach(e, p)
      /\ lateLinks' = IF hire[e].status = "inactive" THEN lateLinks \cup {e} ELSE lateLinks
  BY <1>3 DEF FinishLinkUser
<1>5. hire[e] \in [status : {"active", "inactive"}, user : Folk \cup {Nothing}]
  BY <1>2, <1>3, HireHasFields DEF LeaversInvariant, StaffInvariant
<1>6. /\ hire' = [hire EXCEPT ![e].user = p]
      /\ hire'[e] = [hire[e] EXCEPT !.user = p]
  BY <1>4 DEF Attach, LeaversInvariant, StaffInvariant, TablesOK
<1>7. /\ hire'[e].status = hire[e].status
      /\ \A f \in Hires \ {e} : hire'[f] = hire[f]
  BY <1>5, <1>6 DEF LeaversInvariant, StaffInvariant, TablesOK
<1>8. LeaversAreLockedOut'
  <2>1. SUFFICES ASSUME ~staffRaced' PROVE LeaversAreLockedOut'
    BY DEF LeaversAreLockedOut
  <2>2. \A f \in Hires : OutIfGone(f)
    BY <1>2, <2>1 DEF LeaversInvariant, LeaversAreLockedOut, OutIfGone
  <2>3. ASSUME NEW f \in Hires PROVE OutIfGone(f)'
    <3>1. CASE f = e
      BY <1>1, <1>2, <1>3, <1>4, <1>7, <2>2, <3>1 DEF OutIfGone
    <3>2. CASE f # e
      BY <1>1, <1>4, <1>7, <2>2, <3>2 DEF OutIfGone
    <3> QED BY <3>1, <3>2
  <2> QED BY <2>3 DEF OutIfGone, LeaversAreLockedOut
<1>9. MoreTypes' /\ MembersHaveAccounts'
  BY <1>1, <1>2, <1>4 DEF LeaversInvariant, MoreTypes, MembersHaveAccounts
<1>10. DesksForesee'
  BY <1>1, DeskForeseesCommit DEF LeaversInvariant, StaffInvariant
<1> QED
  BY <1>8, <1>9, <1>10

\* offboard_employee switches off the login and clears the headships.
LEMMA OffboardKeepsLeavers ==
  ASSUME LeaversInvariant, NEW s \in Desks, FinishOffboard(s)
  PROVE  MoreTypes' /\ MembersHaveAccounts' /\ LeaversAreLockedOut' /\ DesksForesee'
<1>1. /\ desk[s] # Nothing /\ desk[s].todo.op = "offboard" /\ DeskCommits(s)
      /\ UNCHANGED <<account, lateLinks>>
  BY DEF FinishOffboard, DeskDoing
<1>2. /\ desk[s].todo.e \in Hires /\ hire[desk[s].todo.e] # Nothing
      /\ staffRaced' \in BOOLEAN /\ (~staffRaced' => ~staffRaced)
  BY <1>1, WhatCommits DEF SoundTodo
<1>3. PICK e \in Hires : e = desk[s].todo.e
  BY <1>2
<1>4. hire[e] \in [status : {"active", "inactive"}, user : Folk \cup {Nothing}]
  BY <1>2, <1>3, HireHasFields DEF LeaversInvariant, StaffInvariant
<1>5. PICK p \in Folk \cup {Nothing} : p = hire[e].user
  BY <1>4
<1>6. /\ hire' = [hire EXCEPT ![e].status = "inactive"]
      /\ membership' = IF p # Nothing /\ membership[p] = "active"
                          THEN [membership EXCEPT ![p] = "deactivated"] ELSE membership
      /\ head' = [d \in Units |-> IF head[d] = e THEN Nothing ELSE head[d]]
  BY <1>3, <1>5 DEF FinishOffboard, HeadshipsCleared
<1>7. /\ hire'[e] = [hire[e] EXCEPT !.status = "inactive"]
      /\ \A f \in Hires \ {e} : hire'[f] = hire[f]
  BY <1>6 DEF LeaversInvariant, StaffInvariant, TablesOK
<1>8. hire'[e].user = p
  BY <1>4, <1>5, <1>7
<1>9. membership \in [Folk -> {"none", "active", "deactivated"}]
  BY DEF LeaversInvariant, StaffInvariant, TablesOK
<1>10. /\ p # Nothing => membership'[p] # "active"
       /\ \A q \in Folk : /\ membership'[q] = "active" => membership[q] = "active"
                          /\ membership'[q] # "none" => membership[q] # "none"
  BY <1>6, <1>9
<1>11. /\ \A d \in Units : head'[d] # e
       /\ \A f \in Hires, d \in Units : head'[d] = f => head[d] = f
  BY <1>6, StaffAssumption
<1>12. LeaversAreLockedOut'
  <2>1. SUFFICES ASSUME ~staffRaced' PROVE LeaversAreLockedOut'
    BY DEF LeaversAreLockedOut
  <2>2. \A f \in Hires : OutIfGone(f)
    BY <1>2, <2>1 DEF LeaversInvariant, LeaversAreLockedOut, OutIfGone
  <2>3. ASSUME NEW f \in Hires PROVE OutIfGone(f)'
    <3>1. CASE f = e
      BY <1>8, <1>10, <1>11, <3>1 DEF OutIfGone
    <3>2. CASE f # e
      <4>1. hire[f] # Nothing /\ hire[f].user # Nothing => hire[f].user \in Folk
        BY HireHasFields DEF LeaversInvariant, StaffInvariant
      <4> QED BY <1>1, <1>7, <1>10, <1>11, <2>2, <3>2, <4>1 DEF OutIfGone
    <3> QED BY <3>1, <3>2
  <2> QED BY <2>3 DEF OutIfGone, LeaversAreLockedOut
<1>13. MoreTypes' /\ MembersHaveAccounts'
  BY <1>1, <1>2, <1>6, <1>10 DEF LeaversInvariant, MoreTypes, MembersHaveAccounts
<1>14. DesksForesee'
  BY <1>1, DeskForeseesCommit DEF LeaversInvariant, StaffInvariant
<1> QED
  BY <1>12, <1>13, <1>14

\* reinstate_employee: the login that becomes active again is nobody else's.
LEMMA ReinstateKeepsLeavers ==
  ASSUME LeaversInvariant, NEW s \in Desks, FinishReinstate(s)
  PROVE  MoreTypes' /\ MembersHaveAccounts' /\ LeaversAreLockedOut' /\ DesksForesee'
<1>1. /\ desk[s] # Nothing /\ desk[s].todo.op = "reinstate" /\ DeskCommits(s)
      /\ UNCHANGED <<account, head>>
  BY DEF FinishReinstate, DeskDoing
<1>2. /\ desk[s].todo.e \in Hires /\ hire[desk[s].todo.e] # Nothing
      /\ staffRaced' \in BOOLEAN /\ (~staffRaced' => ~staffRaced)
  BY <1>1, WhatCommits DEF SoundTodo
<1>3. PICK e \in Hires : e = desk[s].todo.e
  BY <1>2
<1>4. hire[e] \in [status : {"active", "inactive"}, user : Folk \cup {Nothing}]
  BY <1>2, <1>3, HireHasFields DEF LeaversInvariant, StaffInvariant
<1>5. PICK p \in Folk \cup {Nothing} : p = hire[e].user
  BY <1>4
<1>6. /\ hire' = [hire EXCEPT ![e].status = "active"]
      /\ membership' = IF p # Nothing /\ membership[p] = "deactivated"
                          THEN [membership EXCEPT ![p] = "active"] ELSE membership
      /\ lateLinks' = lateLinks \ {e}
  BY <1>3, <1>5 DEF FinishReinstate
<1>7. /\ hire'[e] = [hire[e] EXCEPT !.status = "active"]
      /\ \A f \in Hires \ {e} : hire'[f] = hire[f]
  BY <1>6 DEF LeaversInvariant, StaffInvariant, TablesOK
<1>8. hire'[e].status = "active"
  BY <1>4, <1>7
<1>9. membership \in [Folk -> {"none", "active", "deactivated"}]
  BY DEF LeaversInvariant, StaffInvariant, TablesOK
<1>10. /\ \A q \in Folk : q # p => membership'[q] = membership[q]
       /\ \A q \in Folk : membership'[q] # "none" => membership[q] # "none"
  BY <1>6, <1>9
<1>11. \A f \in Hires \ {e} : hire[f] # Nothing /\ hire[f].user # Nothing => hire[f].user # p
  BY <1>2, <1>3, <1>5 DEF LeaversInvariant, StaffInvariant, LinksAreExclusive
<1>12. LeaversAreLockedOut'
  <2>1. SUFFICES ASSUME ~staffRaced' PROVE LeaversAreLockedOut'
    BY DEF LeaversAreLockedOut
  <2>2. \A f \in Hires : OutIfGone(f)
    BY <1>2, <2>1 DEF LeaversInvariant, LeaversAreLockedOut, OutIfGone
  <2>3. ASSUME NEW f \in Hires PROVE OutIfGone(f)'
    <3>1. CASE f = e
      BY <1>8, <3>1 DEF OutIfGone
    <3>2. CASE f # e
      <4>1. hire[f] # Nothing /\ hire[f].user # Nothing => hire[f].user \in Folk
        BY HireHasFields DEF LeaversInvariant, StaffInvariant
      <4> QED BY <1>1, <1>6, <1>7, <1>10, <1>11, <2>2, <3>2, <4>1 DEF OutIfGone
    <3> QED BY <3>1, <3>2
  <2> QED BY <2>3 DEF OutIfGone, LeaversAreLockedOut
<1>13. MoreTypes' /\ MembersHaveAccounts'
  BY <1>1, <1>2, <1>6, <1>10 DEF LeaversInvariant, MoreTypes, MembersHaveAccounts
<1>14. DesksForesee'
  BY <1>1, DeskForeseesCommit DEF LeaversInvariant, StaffInvariant
<1> QED
  BY <1>12, <1>13, <1>14

\* update_department with a head.
LEMMA SetHeadKeepsLeavers ==
  ASSUME LeaversInvariant, NEW s \in Desks, FinishSetHead(s)
  PROVE  MoreTypes' /\ MembersHaveAccounts' /\ LeaversAreLockedOut' /\ DesksForesee'
<1>1. /\ desk[s] # Nothing /\ desk[s].todo.op = "head" /\ DeskCommits(s)
      /\ UNCHANGED <<account, membership, hire, lateLinks>>
  BY DEF FinishSetHead, DeskDoing
<1>2. /\ desk[s].todo.d \in Units /\ desk[s].todo.e \in Hires \cup {Nothing}
      /\ staffRaced' \in BOOLEAN
      /\ ~staffRaced' =>
           ~staffRaced /\ (desk[s].todo.e # Nothing => hire[desk[s].todo.e].status # "inactive")
  BY <1>1, WhatCommits DEF KnownTodo, ForeseenTodo
<1>3. PICK u \in Units, e \in Hires \cup {Nothing} : u = desk[s].todo.d /\ e = desk[s].todo.e
  BY <1>2
<1>4. head' = [head EXCEPT ![u] = e]
  BY <1>3 DEF FinishSetHead
<1>5. \A d \in Units : head'[d] \in {head[d], e}
  BY <1>4 DEF LeaversInvariant, MoreTypes
<1>6. LeaversAreLockedOut'
  <2>1. SUFFICES ASSUME ~staffRaced' PROVE LeaversAreLockedOut'
    BY DEF LeaversAreLockedOut
  <2>2. \A f \in Hires : OutIfGone(f)
    BY <1>2, <2>1 DEF LeaversInvariant, LeaversAreLockedOut, OutIfGone
  <2>3. ASSUME NEW f \in Hires PROVE OutIfGone(f)'
    BY <1>1, <1>2, <1>3, <1>5, <2>1, <2>2, StaffAssumption DEF OutIfGone
  <2> QED BY <2>3 DEF OutIfGone, LeaversAreLockedOut
<1>7. MoreTypes' /\ MembersHaveAccounts'
  BY <1>1, <1>2, <1>3, <1>4 DEF LeaversInvariant, MoreTypes, MembersHaveAccounts
<1>8. DesksForesee'
  BY <1>1, DeskForeseesCommit DEF LeaversInvariant, StaffInvariant
<1> QED
  BY <1>6, <1>7, <1>8

\* Requests that begin.
LEMMA BeginsKeepLeavers ==
  ASSUME LeaversInvariant, NEW s \in Desks,
         \/ \E p \in Folk :
              \/ BeginRegister(s, p) \/ BeginDeactivate(s, p) \/ BeginReactivate(s, p)
              \/ BeginInvite(s, p)
              \/ \E e \in Hires : BeginLinkUser(s, e, p)
         \/ \E i \in Invites : BeginAccept(s, i)
         \/ \E e \in Hires :
              \/ \E p \in Folk \cup {Nothing} : BeginCreateHire(s, e, p)
              \/ BeginGrantLogin(s, e) \/ BeginOffboard(s, e) \/ BeginReinstate(s, e)
         \/ \E d \in Units, e \in Hires \cup {Nothing} : BeginSetHead(s, d, e)
  PROVE  DesksForesee' /\ MoreTypes' /\ MembersHaveAccounts' /\ LeaversAreLockedOut'
<1> DEFINE Done == DesksForesee' /\ MoreTypes' /\ MembersHaveAccounts' /\ LeaversAreLockedOut'
<1>1. \A r : DeskReady(s, r) /\ KnownTodo(r) /\ ForeseenTodo(r) => Done
  BY DeskForeseesReady
<1>2. \A r : r.op \in {"register", "invite", "create", "link", "offboard", "reinstate"}
        => KnownTodo(r) /\ ForeseenTodo(r)
  BY DEF KnownTodo, ForeseenTodo
<1>3. ASSUME NEW p \in Folk, BeginRegister(s, p) PROVE Done
  BY <1>1, <1>2, <1>3 DEF BeginRegister
<1>4. ASSUME NEW p \in Folk, BeginDeactivate(s, p) PROVE Done
  <2> DEFINE r == [op |-> "deactivate", p |-> p]
  <2>1. DeskReady(s, r) /\ account[p]
    BY <1>4 DEF BeginDeactivate, LeaversInvariant, MembersHaveAccounts
  <2>2. KnownTodo(r) /\ ForeseenTodo(r)
    BY <2>1 DEF KnownTodo, ForeseenTodo
  <2> QED BY <1>1, <2>1, <2>2
<1>5. ASSUME NEW p \in Folk, BeginReactivate(s, p) PROVE Done
  <2> DEFINE r == [op |-> "reactivate", p |-> p]
  <2>1. DeskReady(s, r) /\ account[p] /\ \A e \in LinkedTo(p) : hire[e].status # "inactive"
    BY <1>5 DEF BeginReactivate, MayReactivate, LeaversInvariant, MembersHaveAccounts
  <2>2. KnownTodo(r) /\ ForeseenTodo(r)
    BY <2>1 DEF KnownTodo, ForeseenTodo
  <2> QED BY <1>1, <2>1, <2>2
<1>6. ASSUME NEW p \in Folk, NEW e \in Hires \cup {Nothing}, account[p],
             e # Nothing => hire[e].status # "inactive",
             DeskReady(s, [op |-> "add", p |-> p, emp |-> e])
      PROVE  Done
  <2> DEFINE r == [op |-> "add", p |-> p, emp |-> e]
  <2>1. r.op = "add" /\ r.p = p /\ r.emp = e
    OBVIOUS
  <2>2. DeskReady(s, r)
    BY <1>6
  <2> HIDE DEF r
  <2>3. KnownTodo(r) /\ ForeseenTodo(r)
    BY <1>6, <2>1 DEF KnownTodo, ForeseenTodo
  <2> QED BY <1>1, <2>2, <2>3
<1>7. ASSUME NEW p \in Folk, BeginInvite(s, p) PROVE Done
  BY <1>1, <1>2, <1>6, <1>7 DEF BeginInvite
<1>8. ASSUME NEW p \in Folk, NEW e \in Hires, BeginLinkUser(s, e, p) PROVE Done
  BY <1>1, <1>2, <1>8 DEF BeginLinkUser
<1>9. ASSUME NEW i \in Invites, BeginAccept(s, i) PROVE Done
  <2> DEFINE r == [op |-> "accept", i |-> i, links |-> WantsLogin(invite[i].emp)]
  <2>1. DeskReady(s, r) /\ r.op = "accept" /\ r.i = i /\ r.links = WantsLogin(invite[i].emp)
    BY <1>9 DEF BeginAccept
  <2> HIDE DEF r
  <2>2. r.links => hire[invite[r.i].emp].status # "inactive"
    BY <2>1 DEF WantsLogin
  <2>3. KnownTodo(r) /\ ForeseenTodo(r)
    BY <2>1, <2>2 DEF KnownTodo, ForeseenTodo
  <2> QED BY <1>1, <2>1, <2>3
<1>10. ASSUME NEW e \in Hires, NEW p \in Folk \cup {Nothing}, BeginCreateHire(s, e, p) PROVE Done
  BY <1>1, <1>2, <1>10 DEF BeginCreateHire
<1>11. ASSUME NEW e \in Hires, BeginGrantLogin(s, e) PROVE Done
  <2>1. WorkEmail[e] \in Folk
    BY StaffAssumption
  <2> QED BY <1>1, <1>2, <1>6, <1>11, <2>1 DEF BeginGrantLogin
<1>12. ASSUME NEW e \in Hires, BeginOffboard(s, e) \/ BeginReinstate(s, e) PROVE Done
  BY <1>1, <1>2, <1>12 DEF BeginOffboard, BeginReinstate
<1>13. ASSUME NEW d \in Units, NEW e \in Hires \cup {Nothing}, BeginSetHead(s, d, e) PROVE Done
  <2> DEFINE r == [op |-> "head", d |-> d, e |-> e]
  <2>1. DeskReady(s, r) /\ (e # Nothing => hire[e].status # "inactive")
    BY <1>13 DEF BeginSetHead
  <2>2. r.op = "head" /\ r.d = d /\ r.e = e
    OBVIOUS
  <2> HIDE DEF r
  <2>3. KnownTodo(r) /\ ForeseenTodo(r)
    BY <2>1, <2>2 DEF KnownTodo, ForeseenTodo
  <2> QED BY <1>1, <2>1, <2>3
<1> HIDE DEF Done
<1>14. Done
  BY <1>3, <1>4, <1>5, <1>7, <1>8, <1>9, <1>10, <1>11, <1>12, <1>13
<1> QED BY <1>14 DEF Done

\* Every step keeps the invariant.
LEMMA LeaversStep == LeaversInvariant /\ [StaffNext]_staffVars => LeaversInvariant'
<1> SUFFICES ASSUME LeaversInvariant, [StaffNext]_staffVars PROVE LeaversInvariant'
  OBVIOUS
<1> DEFINE Done == DesksForesee' /\ MoreTypes' /\ MembersHaveAccounts' /\ LeaversAreLockedOut'
<1>1. StaffInvariant'
  BY StaffStep DEF LeaversInvariant
<1>2. ASSUME NEW s \in Desks, AbandonDesk(s) PROVE Done
  <2>1. /\ desk' = [desk EXCEPT ![s] = Nothing]
        /\ UNCHANGED <<account, membership, hire, head, invite, staffRaced, accepted, lateLinks>>
    BY <1>2 DEF AbandonDesk
  <2>2. \A t \in Desks : desk'[t] \in {desk[t], Nothing}
    BY <2>1 DEF LeaversInvariant, StaffInvariant, DesksAreSound
  <2>3. DesksForesee'
    BY <2>1, <2>2, SameTodos DEF LeaversInvariant, DesksForesee
  <2> QED BY <2>1, <2>3 DEF LeaversInvariant, MoreTypes, MembersHaveAccounts, LeaversAreLockedOut
<1>3. ASSUME UNCHANGED staffVars PROVE Done
  <2>1. UNCHANGED <<account, membership, hire, head, invite, desk, staffRaced, accepted, lateLinks>>
    BY <1>3 DEF staffVars
  <2>2. DesksForesee'
    BY <2>1, SameTodos DEF LeaversInvariant, DesksForesee
  <2> QED BY <2>1, <2>2 DEF LeaversInvariant, MoreTypes, MembersHaveAccounts, LeaversAreLockedOut
<1>4. ASSUME NEW s \in Desks,
             \/ FinishRegister(s) \/ FinishDeactivate(s) \/ FinishReactivate(s)
             \/ FinishInvite(s) \/ FinishAdd(s) \/ FinishAccept(s)
             \/ FinishCreateHire(s) \/ FinishLinkUser(s)
             \/ FinishOffboard(s) \/ FinishReinstate(s) \/ FinishSetHead(s)
      PROVE  Done
  BY <1>4, MembershipsKeepLeavers, NewRowsKeepLeavers, AddKeepsLeavers, AcceptKeepsLeavers,
     LinkKeepsLeavers, OffboardKeepsLeavers, ReinstateKeepsLeavers, SetHeadKeepsLeavers
<1>5. StaffNext => Done
  <2> SUFFICES ASSUME StaffNext PROVE Done
    OBVIOUS
  <2>1. PICK s \in Desks :
          \/ AbandonDesk(s)
          \/ \E p \in Folk :
               \/ BeginRegister(s, p) \/ BeginDeactivate(s, p) \/ BeginReactivate(s, p)
               \/ BeginInvite(s, p)
               \/ \E e \in Hires : BeginLinkUser(s, e, p)
          \/ \E i \in Invites : BeginAccept(s, i)
          \/ \E e \in Hires :
               \/ \E p \in Folk \cup {Nothing} : BeginCreateHire(s, e, p)
               \/ BeginGrantLogin(s, e) \/ BeginOffboard(s, e) \/ BeginReinstate(s, e)
          \/ \E d \in Units, e \in Hires \cup {Nothing} : BeginSetHead(s, d, e)
          \/ FinishRegister(s) \/ FinishDeactivate(s) \/ FinishReactivate(s)
          \/ FinishInvite(s) \/ FinishAdd(s) \/ FinishAccept(s)
          \/ FinishCreateHire(s) \/ FinishLinkUser(s)
          \/ FinishOffboard(s) \/ FinishReinstate(s) \/ FinishSetHead(s)
    BY DEF StaffNext
  <2> QED BY <1>2, <1>4, <2>1, BeginsKeepLeavers
<1> QED
  BY <1>1, <1>3, <1>5 DEF LeaversInvariant

\* It holds at first.
LEMMA LeaversInitially == StaffInit => LeaversInvariant
<1> SUFFICES ASSUME StaffInit PROVE LeaversInvariant
  OBVIOUS
<1>1. StaffInvariant
  BY StaffAssumption DEF StaffInit, StaffInvariant, TablesOK, DesksAreSound, LinksAreExclusive, OneAcceptedEach,
         OneUnusedEach, Unused
<1>2. MoreTypes /\ MembersHaveAccounts /\ DesksForesee /\ LeaversAreLockedOut
  BY DEF StaffInit, MoreTypes, MembersHaveAccounts, DesksForesee, LeaversAreLockedOut
<1> QED BY <1>1, <1>2 DEF LeaversInvariant

\* It holds in every state.
THEOREM StaffIsInvariant == StaffSpec => []LeaversInvariant
BY LeaversInitially, LeaversStep, PTL DEF StaffSpec

\* Accounts, memberships, employees, invites and requests keep their types.
THEOREM StaffTypes == StaffSpec => []StaffTypeOK
<1>1. LeaversInvariant => StaffTypeOK
  BY DEF LeaversInvariant, StaffInvariant, TablesOK, MoreTypes, StaffTypeOK
<1> QED BY <1>1, StaffIsInvariant, PTL

\* Unless requests overlapped: whoever has left can no longer log in, unless the login was
\* linked after the departure, and heads no department.
THEOREM LeaversStayLockedOut == StaffSpec => []LeaversAreLockedOut
<1>1. LeaversInvariant => LeaversAreLockedOut
  BY DEF LeaversInvariant
<1> QED BY <1>1, StaffIsInvariant, PTL

-----------------------------------------------------------------------------
(***************************************************************************)
(* The suggestions about the chart, for any number of departments,         *)
(* positions, suggestions and concurrent requests: a review takes effect   *)
(* exactly once.                                                           *)
(*                                                                         *)
(* ReviewsTakeEffectOnce is inductive together with the types and with     *)
(* what the requests under way may be about to write: a request that       *)
(* reviews brings one of the two outcomes that take effect.                *)
(***************************************************************************)

\* The part of ChartTypeOK that a review relies on.
QueueTypeOK ==
  /\ suggestion \in [Suggestions -> SuggestionRow \cup {Void}]
  /\ quarter \in Nat
  /\ effects \in [Suggestions -> Nat]

(***************************************************************************)
(* Requests under way                                                      *)
(***************************************************************************)
\* What a request is about to write is about rows that there may be, and a review under
\* way is an approval, edited or not.
SoundReview(r) ==
  /\ r.op = "delete department" => r.d \in Depts
  /\ r.op = "create position" => r.p \in Seats /\ r.d \in Depts /\ r.q \in Seats \cup {Void}
  /\ r.op = "move position" =>
       /\ r.p \in Seats /\ r.d \in Depts /\ r.q \in Seats \cup {Void}
       /\ r.transfers \in BOOLEAN /\ r.reports \in BOOLEAN
  /\ r.op = "delete position" => r.p \in Seats
  /\ r.op \in {"generate", "insert"} => r.x \in Targets
  /\ r.op = "insert" => r.made \in Nat
  /\ r.op = "review" => r.i \in Suggestions /\ r.status \in {"approved", "edited"}

\* The table of requests: two fields each.
ClerksAreSound ==
  /\ clerk = [c \in Clerks |-> clerk[c]]
  /\ \A c \in Clerks : clerk[c] # Void =>
       /\ clerk[c] = [overtaken |-> clerk[c].overtaken, todo |-> clerk[c].todo]
       /\ SoundReview(clerk[c].todo)

\* A request that is free takes up something sound.
LEMMA ReviewsReady ==
  ASSUME ClerksAreSound, NEW c \in Clerks, NEW r, SoundReview(r), ClerkReady(c, r)
  PROVE  ClerksAreSound'
<1>1. clerk' = [clerk EXCEPT ![c] = [overtaken |-> FALSE, todo |-> r]]
  BY DEF ClerkReady, Checked
<1>2. clerk' = [d \in Clerks |-> clerk'[d]]
  BY <1>1 DEF ClerksAreSound
<1>3. clerk'[c] = [overtaken |-> FALSE, todo |-> r] /\ \A d \in Clerks \ {c} : clerk'[d] = clerk[d]
  BY <1>1 DEF ClerksAreSound
<1> QED
  BY <1>2, <1>3 DEF ClerksAreSound

\* A commit leaves every other request with what it was about to write.
LEMMA ReviewsCommit ==
  ASSUME ClerksAreSound, NEW c, clerk' = Committed(clerk, c, Void)
  PROVE  ClerksAreSound'
<1>1. clerk' = [d \in Clerks |-> IF d = c \/ clerk[d] = Void THEN Void
                                 ELSE [clerk[d] EXCEPT !.overtaken = TRUE]]
  BY DEF Committed, ClerksAreSound
<1>2. clerk' = [d \in Clerks |-> clerk'[d]]
  BY <1>1
<1>3. ASSUME NEW d \in Clerks, clerk'[d] # Void
      PROVE  clerk'[d] = [overtaken |-> TRUE, todo |-> clerk[d].todo] /\ SoundReview(clerk[d].todo)
  BY <1>1, <1>3 DEF ClerksAreSound
<1>4. ASSUME NEW d \in Clerks, clerk'[d] # Void
      PROVE  /\ clerk'[d] = [overtaken |-> clerk'[d].overtaken, todo |-> clerk'[d].todo]
             /\ SoundReview(clerk'[d].todo)
  <2>1. clerk'[d] = [overtaken |-> TRUE, todo |-> clerk[d].todo]
    BY <1>3, <1>4
  <2>2. clerk'[d].overtaken = TRUE /\ clerk'[d].todo = clerk[d].todo
    BY <2>1
  <2>3. SoundReview(clerk[d].todo)
    BY <1>3, <1>4
  <2> QED
    BY <2>1, <2>2, <2>3
<1> QED
  BY <1>2, <1>4 DEF ClerksAreSound

\* Every step keeps the requests sound.
LEMMA ClerksStep ==
  ClerksAreSound /\ QueueTypeOK /\ [ChartNext \/ SuggestionsNext]_chartVars => ClerksAreSound'
<1> SUFFICES ASSUME ClerksAreSound, QueueTypeOK, [ChartNext \/ SuggestionsNext]_chartVars
             PROVE  ClerksAreSound'
  OBVIOUS
<1>1. ASSUME NEW c \in Clerks, NEW d \in Depts, BeginDeleteDepartment(c, d) PROVE ClerksAreSound'
  BY <1>1, ReviewsReady DEF BeginDeleteDepartment, SoundReview
<1>2. ASSUME NEW c \in Clerks, NEW p \in Seats, NEW d \in Depts, NEW q \in Seats \cup {Void},
             BeginCreatePosition(c, p, d, q)
      PROVE  ClerksAreSound'
  BY <1>2, ReviewsReady DEF BeginCreatePosition, SoundReview
<1>3. ASSUME NEW c \in Clerks, NEW p \in Seats, NEW d \in Depts, NEW q \in Seats \cup {Void},
             BeginMovePosition(c, p, d, q)
      PROVE  ClerksAreSound'
  BY <1>3, ReviewsReady DEF BeginMovePosition, SoundReview
<1>4. ASSUME NEW c \in Clerks, NEW p \in Seats, BeginDeletePosition(c, p) PROVE ClerksAreSound'
  BY <1>4, ReviewsReady DEF BeginDeletePosition, SoundReview
<1>5. ASSUME NEW c \in Clerks, NEW x \in Targets, BeginGenerate(c, x) PROVE ClerksAreSound'
  BY <1>5, ReviewsReady DEF BeginGenerate, SoundReview
<1>6. ASSUME NEW c \in Clerks, NEW i \in Suggestions, NEW status \in {"approved", "edited"},
             BeginReview(c, i, status)
      PROVE  ClerksAreSound'
  BY <1>6, ReviewsReady DEF BeginReview, SoundReview
<1>7. ASSUME NEW c \in Clerks, CheckEligible(c) PROVE ClerksAreSound'
  <2> DEFINE r == [op |-> "insert", x |-> clerk[c].todo.x, made |-> quarter]
  <2>1. clerk' = [clerk EXCEPT ![c].todo = r]
    BY <1>7 DEF CheckEligible
  <2>2. clerk' = [d \in Clerks |-> clerk'[d]]
    BY <2>1 DEF ClerksAreSound
  <2>3. SoundReview(r)
    BY <1>7 DEF CheckEligible, ClerkDoes, ClerksAreSound, SoundReview, QueueTypeOK
  <2>4. clerk'[c] = [overtaken |-> clerk[c].overtaken, todo |-> r]
    BY <1>7, <2>1 DEF CheckEligible, ClerkDoes, ClerksAreSound
  <2>5. \A d \in Clerks \ {c} : clerk'[d] = clerk[d]
    BY <2>1 DEF ClerksAreSound
  <2> HIDE DEF r
  <2> QED
    BY <2>2, <2>3, <2>4, <2>5 DEF ClerksAreSound
<1>8. ASSUME NEW c \in Clerks, AbandonClerk(c) PROVE ClerksAreSound'
  <2>1. clerk' = [clerk EXCEPT ![c] = Void]
    BY <1>8 DEF AbandonClerk
  <2>2. clerk' = [d \in Clerks |-> clerk'[d]] /\ clerk'[c] = Void
        /\ \A d \in Clerks \ {c} : clerk'[d] = clerk[d]
    BY <2>1 DEF ClerksAreSound
  <2> QED
    BY <2>2 DEF ClerksAreSound
<1>9. ASSUME NEW c, Settles(c) PROVE ClerksAreSound'
  BY <1>9, ReviewsCommit DEF Settles
<1>10. ASSUME SettlesAtOnce PROVE ClerksAreSound'
  BY <1>10, ReviewsCommit DEF SettlesAtOnce
<1>11. CASE UNCHANGED clerk
  BY <1>11 DEF ClerksAreSound
<1>12. CASE ChartNext
  BY <1>12, <1>1, <1>2, <1>3, <1>4, <1>8, <1>9, <1>10
  DEF ChartNext, FinishDeleteDepartment, FinishCreatePosition, FinishMovePosition, FinishDeletePosition,
      CreateDepartment, RenameDepartment, AssignWorker
<1>13. CASE SuggestionsNext
  BY <1>13, <1>5, <1>6, <1>7, <1>9, <1>10, <1>11
  DEF SuggestionsNext, CreatePendingSuggestion, FinishReview, RejectSuggestion, NextQuarter
<1> QED
  BY <1>11, <1>12, <1>13 DEF chartVars

(***************************************************************************)
(* Reviews                                                                 *)
(***************************************************************************)
\* The suggestions, their effects and the quarter.
ReviewInvariant == QueueTypeOK /\ ClerksAreSound /\ ReviewsTakeEffectOnce

\* A row that is there has its fields.
LEMMA RowsHaveFields ==
  ASSUME QueueTypeOK, NEW i \in Suggestions, suggestion[i] # Void
  PROVE  suggestion[i] \in SuggestionRow
BY DEF QueueTypeOK

\* A pending row that is reviewed keeps its fields and is no longer pending.
LEMMA ReviewedRow ==
  ASSUME QueueTypeOK, NEW i \in Suggestions, Pending(i),
         NEW status \in {"approved", "edited", "rejected"},
         suggestion' = [suggestion EXCEPT ![i].status = status, ![i].reviewed = quarter]
  PROVE  /\ suggestion' \in [Suggestions -> SuggestionRow \cup {Void}]
         /\ suggestion'[i] # Void /\ suggestion'[i].status = status
         /\ \A j \in Suggestions \ {i} : suggestion'[j] = suggestion[j]
<1> DEFINE row == [suggestion[i] EXCEPT !.status = status, !.reviewed = quarter]
<1>1. suggestion[i] \in [target : Targets, status : {"pending", "approved", "edited", "rejected"},
                         made : Nat, reviewed : Nat \cup {Void}]
  BY RowsHaveFields DEF Pending, SuggestionRow
<1>2. row \in SuggestionRow /\ row.status = status
  BY <1>1 DEF QueueTypeOK, SuggestionRow
<1>3. suggestion' = [suggestion EXCEPT ![i] = row]
  BY <1>1 DEF QueueTypeOK
<1>4. row # Void
  BY <1>2, ChartAssumption
<1> HIDE DEF row
<1> QED
  BY <1>2, <1>3, <1>4 DEF QueueTypeOK

\* The steps that write no suggestion.
LEMMA QueueAtRest ==
  ASSUME ReviewInvariant, UNCHANGED <<suggestion, effects>>, quarter' \in Nat
  PROVE  QueueTypeOK' /\ ReviewsTakeEffectOnce'
BY DEF ReviewInvariant, QueueTypeOK, ReviewsTakeEffectOnce

\* Every step keeps the invariant: a row is made pending, and only a pending row is
\* reviewed, by one statement that also has its effect.
LEMMA ReviewsStep ==
  ReviewInvariant /\ [ChartNext \/ SuggestionsNext]_chartVars
    => QueueTypeOK' /\ ReviewsTakeEffectOnce'
<1> SUFFICES ASSUME ReviewInvariant, [ChartNext \/ SuggestionsNext]_chartVars
             PROVE  QueueTypeOK' /\ ReviewsTakeEffectOnce'
  OBVIOUS
<1>1. quarter \in Nat /\ quarter + 1 \in Nat
  BY DEF ReviewInvariant, QueueTypeOK
<1>2. ASSUME NEW c \in Clerks, NEW i \in Suggestions, CreatePendingSuggestion(c, i)
      PROVE  QueueTypeOK' /\ ReviewsTakeEffectOnce'
  <2> DEFINE row == [target |-> clerk[c].todo.x, status |-> "pending",
                     made |-> clerk[c].todo.made, reviewed |-> Void]
  <2>1. suggestion' = [suggestion EXCEPT ![i] = row] /\ suggestion[i] = Void
        /\ UNCHANGED <<effects, quarter>>
    BY <1>2 DEF CreatePendingSuggestion, chartHistory
  <2>2. clerk[c].todo.x \in Targets /\ clerk[c].todo.made \in Nat
    BY <1>2 DEF CreatePendingSuggestion, ClerkDoes, ReviewInvariant, ClerksAreSound, SoundReview
  <2>3. row \in SuggestionRow /\ row.status = "pending"
    BY <2>2 DEF SuggestionRow
  <2> HIDE DEF row
  <2>4. effects[i] = 0
    BY <2>1 DEF ReviewInvariant, ReviewsTakeEffectOnce
  <2> QED
    BY <2>1, <2>3, <2>4 DEF ReviewInvariant, QueueTypeOK, ReviewsTakeEffectOnce
<1>3. ASSUME NEW i \in Suggestions, RejectSuggestion(i)
      PROVE  QueueTypeOK' /\ ReviewsTakeEffectOnce'
  <2>1. QueueTypeOK /\ Pending(i) /\ UNCHANGED <<effects, quarter>>
    BY <1>3 DEF RejectSuggestion, ReviewInvariant, chartHistory
  <2>2. /\ suggestion' \in [Suggestions -> SuggestionRow \cup {Void}]
        /\ suggestion'[i] # Void /\ suggestion'[i].status = "rejected"
        /\ \A j \in Suggestions \ {i} : suggestion'[j] = suggestion[j]
    BY <1>3, <2>1, ReviewedRow DEF RejectSuggestion
  <2>3. effects[i] = 0
    BY <2>1 DEF ReviewInvariant, ReviewsTakeEffectOnce, Pending
  <2> QED
    BY <2>1, <2>2, <2>3 DEF ReviewInvariant, QueueTypeOK, ReviewsTakeEffectOnce
<1>4. ASSUME NEW c \in Clerks, FinishReview(c) PROVE QueueTypeOK' /\ ReviewsTakeEffectOnce'
  <2> DEFINE i == clerk[c].todo.i
             status == clerk[c].todo.status
  <2>1. i \in Suggestions /\ status \in {"approved", "edited"}
    BY <1>4 DEF FinishReview, ClerkDoes, ReviewInvariant, ClerksAreSound, SoundReview
  <2>2. /\ QueueTypeOK /\ Pending(i) /\ UNCHANGED quarter
        /\ effects' = [effects EXCEPT ![i] = @ + 1]
        /\ suggestion' = [suggestion EXCEPT ![i].status = status, ![i].reviewed = quarter]
    BY <1>4 DEF FinishReview, Claim, ReviewInvariant
  <2> HIDE DEF i, status
  <2>3. /\ suggestion' \in [Suggestions -> SuggestionRow \cup {Void}]
        /\ suggestion'[i] # Void /\ suggestion'[i].status = status
        /\ \A j \in Suggestions \ {i} : suggestion'[j] = suggestion[j]
    BY <2>1, <2>2, ReviewedRow
  <2>4. effects[i] = 0
    BY <2>1, <2>2 DEF ReviewInvariant, ReviewsTakeEffectOnce, Pending
  <2>5. effects' \in [Suggestions -> Nat] /\ effects'[i] = 1
        /\ \A j \in Suggestions \ {i} : effects'[j] = effects[j]
    BY <2>1, <2>2, <2>4 DEF QueueTypeOK
  <2> QED
    BY <2>1, <2>2, <2>3, <2>5 DEF ReviewInvariant, QueueTypeOK, ReviewsTakeEffectOnce
<1>5. CASE UNCHANGED <<suggestion, effects>> /\ quarter' \in Nat
  BY <1>5, QueueAtRest
<1>6. CASE ChartNext
  <2>1. ASSUME NEW c \in Clerks, NEW p \in Seats, NEW d \in Depts, NEW q \in Seats \cup {Void},
               BeginCreatePosition(c, p, d, q) \/ BeginMovePosition(c, p, d, q)
        PROVE  UNCHANGED <<suggestion, effects, quarter>>
    BY <2>1 DEF BeginCreatePosition, BeginMovePosition, ClerkReady, chartHistory
  <2> QED
    BY <1>1, <1>5, <1>6, <2>1
    DEF ChartNext, FinishDeleteDepartment, FinishCreatePosition, FinishMovePosition, FinishDeletePosition,
        CreateDepartment, RenameDepartment, AssignWorker, AbandonClerk, BeginDeleteDepartment,
        BeginDeletePosition, ClerkReady, chartHistory
<1>7. CASE SuggestionsNext
  BY <1>1, <1>2, <1>3, <1>4, <1>5, <1>7
  DEF SuggestionsNext, BeginGenerate, CheckEligible, BeginReview, NextQuarter, ClerkReady, chartHistory
<1> QED
  BY <1>1, <1>5, <1>6, <1>7 DEF chartVars

\* A suggestion takes effect exactly when it is approved or edited, and once, whatever
\* approvals, edits, rejections, generation runs and changes of the chart race.
THEOREM ReviewsHaveOneEffect == ChartSpec => []ReviewsTakeEffectOnce
<1>1. ChartInit => ReviewInvariant
  BY DEF ChartInit, ReviewInvariant, QueueTypeOK, ClerksAreSound, ReviewsTakeEffectOnce
<1>2. ReviewInvariant /\ [ChartNext \/ SuggestionsNext]_chartVars => ReviewInvariant'
  BY ReviewsStep, ClerksStep DEF ReviewInvariant
<1>3. ReviewInvariant => ReviewsTakeEffectOnce
  BY DEF ReviewInvariant
<1> QED
  BY <1>1, <1>2, <1>3, PTL DEF ChartSpec

-----------------------------------------------------------------------------
(***************************************************************************)
(* The blueprint, for any number of items, batches and concurrent          *)
(* reviews, and any graph in which nothing hangs on itself:                *)
(* ItemsBecomeRealOnce and CapitalStaysAllocated.                          *)
(*                                                                         *)
(* The outcome, the claims and the rows of an approval are recursive       *)
(* functions on the items.  Each is unfolded once, and what is claimed and *)
(* made is then shown by induction from what an item points at to the      *)
(* item.  A review keeps what it has found out until it commits, because   *)
(* statuses are final and rows stay; and what it claims, nobody else has.  *)
(***************************************************************************)

\* What an item points at.
ParentsOf == [i \in Items |-> {Needs[i], Likes[i]} \ {Unborn}]

\* Which are items, and it never leads back to itself.
LEMMA ParentsAreItems ==
  /\ Acyclic(Items, ParentsOf)
  /\ ParentsOf \in [Items -> SUBSET Items]
  /\ \A S \in SUBSET Items : S # {} => \E i \in S : ParentsOf[i] \cap S = {}
<1>1. ParentsOf \in [Items -> SUBSET Items]
  BY BlueprintAssumption DEF ParentsOf
<1>2. ASSUME NEW S \in SUBSET Items, S # {} PROVE \E i \in S : ParentsOf[i] \cap S = {}
  BY <1>2, BlueprintAssumption DEF ParentsOf
<1> QED BY <1>1, <1>2, BlueprintAssumption DEF Acyclic

\* Induction: from what an item points at to the item.
LEMMA FromTheParents ==
  ASSUME NEW P, \A i \in Items : ParentsOf[i] \subseteq P => i \in P
  PROVE  Items \subseteq P
<1> DEFINE S == {i \in Items : i \notin P}
<1>1. ASSUME S # {} PROVE FALSE
  <2>1. PICK i \in S : ParentsOf[i] \cap S = {}
    BY <1>1, ParentsAreItems
  <2> QED BY <2>1, ParentsAreItems
<1> QED BY <1>1

-----------------------------------------------------------------------------
(* What approving an item comes to: the recursive definitions, unfolded. *)

\* What of item j matters to those that point at it, by outcomes f.
Look(st, f, j) ==
  IF j = Unborn THEN "ok"
  ELSE IF st.status[j] = "rejected" THEN "orphan"
  ELSE IF st.status[j] = "pending" THEN f[j] ELSE "ok"

\* The outcome of item i, by outcomes f of what it points at.
OutcomeStep(st, F, f, i) ==
  IF Look(st, f, Needs[i]) # "ok" THEN Look(st, f, Needs[i])
  ELSE IF Look(st, f, Likes[i]) = "refused" \/ i \in F \/ (Needs[i] # Unborn /\ Hollow(st, Needs[i]))
    THEN "refused" ELSE "ok"

\* All there are.
Outcomes == {"ok", "orphan", "refused"}

\* The recursion of Outcome has a solution.
LEMMA OutcomeUnfolds ==
  ASSUME NEW st, NEW F
  PROVE  Outcome(st, F) = [i \in Items |-> OutcomeStep(st, F, Outcome(st, F), i)]
<1> DEFINE Satisfies(f) == f = [i \in Items |-> OutcomeStep(st, F, f, i)]
<1>1. Outcome(st, F) = CHOOSE f : Satisfies(f)
  BY DEF Outcome, OutcomeStep, Look
<1>2. \E f : Satisfies(f)
  <2> DEFINE G == [f \in [Items -> Outcomes] |-> [i \in Items |-> OutcomeStep(st, F, f, i)]]
  <2>1. ASSUME NEW f \in [Items -> Outcomes], NEW i \in Items
        PROVE  OutcomeStep(st, F, f, i) \in Outcomes
    BY <2>1, BlueprintAssumption DEF OutcomeStep, Look, Outcomes
  <2>2. G \in [[Items -> Outcomes] -> [Items -> Outcomes]]
    BY <2>1
  <2>3. ASSUME NEW g \in [Items -> Outcomes], NEW h \in [Items -> Outcomes], NEW i \in Items,
               \A j \in ParentsOf[i] : g[j] = h[j]
        PROVE  G[g][i] = G[h][i]
    BY <2>3 DEF OutcomeStep, Look, ParentsOf
  <2>4. Outcomes # {}
    BY DEF Outcomes
  <2> HIDE DEF G
  <2>5. Recurs(Items, Outcomes, ParentsOf, G)
    BY <2>2, <2>3 DEF Recurs
  <2>6. \E f \in [Items -> Outcomes] : f = G[f]
    BY <2>4, <2>5, ParentsAreItems, RecursiveFunction
  <2> QED BY <2>6 DEF G
<1> HIDE DEF Satisfies
<1>3. Satisfies(CHOOSE f : Satisfies(f))
  BY <1>2
<1> QED BY <1>1, <1>3 DEF Satisfies

\* Every item has an outcome.
LEMMA OutcomeIsOne ==
  ASSUME NEW st, NEW F
  PROVE  Outcome(st, F) \in [Items -> Outcomes]
<1> DEFINE f == Outcome(st, F)  P == {i \in Items : f[i] \in Outcomes}
<1>1. f = [i \in Items |-> OutcomeStep(st, F, f, i)]
  BY OutcomeUnfolds
<1>2. ASSUME NEW i \in Items, ParentsOf[i] \subseteq P PROVE i \in P
  <2> HIDE DEF f
  <2>1. f[i] = OutcomeStep(st, F, f, i)
    BY <1>1
  <2>2. OutcomeStep(st, F, f, i) \in Outcomes
    BY <1>2 DEF OutcomeStep, Look, Outcomes, ParentsOf
  <2> QED BY <2>1, <2>2
<1> HIDE DEF f
<1>3. Items \subseteq P
  <2> HIDE DEF P
  <2> QED BY <1>2, FromTheParents
<1> QED BY <1>1, <1>3 DEF f

\* What approving an item that points at j claims because of j.
ClaimedFrom(st, f, j) == IF j # Unborn /\ st.status[j] = "pending" THEN f[j] ELSE {}

\* Item j is there to be referred to.
Found(st, F, j) ==
  j = Unborn \/ st.status[j] \in Reviewed \/ (st.status[j] = "pending" /\ Outcome(st, F)[j] = "ok")

\* What approving item i claims.
ClaimStep(st, F, f, i) ==
  {i} \cup ClaimedFrom(st, f, Needs[i])
      \cup (IF Found(st, F, Needs[i]) THEN ClaimedFrom(st, f, Likes[i]) ELSE {})

\* The rows that come of j.
MadeFrom(st, F, f, j) ==
  IF j # Unborn /\ st.status[j] = "pending" /\ Outcome(st, F)[j] = "ok" THEN f[j] ELSE {}

\* The rows that come of approving i.
MakeStep(st, F, f, i) == {i} \cup MadeFrom(st, F, f, Needs[i]) \cup MadeFrom(st, F, f, Likes[i])

\* The recursions of Claims and Makes have solutions.
LEMMA ClaimsUnfold ==
  ASSUME NEW st, NEW F
  PROVE  Claims(st, F) = [i \in Items |-> ClaimStep(st, F, Claims(st, F), i)]
<1> DEFINE Satisfies(f) == f = [i \in Items |-> ClaimStep(st, F, f, i)]
<1>1. Claims(st, F) = CHOOSE f : Satisfies(f)
  BY DEF Claims, ClaimStep, ClaimedFrom, Found
<1>2. \E f : Satisfies(f)
  <2> DEFINE V == SUBSET Items
             G == [f \in [Items -> V] |-> [i \in Items |-> ClaimStep(st, F, f, i)]]
  <2>1. ASSUME NEW f \in [Items -> V], NEW i \in Items
        PROVE  ClaimStep(st, F, f, i) \in V
    BY <2>1, BlueprintAssumption DEF ClaimStep, ClaimedFrom
  <2>2. G \in [[Items -> V] -> [Items -> V]]
    BY <2>1
  <2>3. ASSUME NEW g \in [Items -> V], NEW h \in [Items -> V], NEW i \in Items,
               \A j \in ParentsOf[i] : g[j] = h[j]
        PROVE  G[g][i] = G[h][i]
    BY <2>3 DEF ClaimStep, ClaimedFrom, ParentsOf
  <2>4. V # {}
    OBVIOUS
  <2> HIDE DEF G, V
  <2>5. Recurs(Items, V, ParentsOf, G)
    BY <2>2, <2>3 DEF Recurs
  <2>6. \E f \in [Items -> V] : f = G[f]
    BY <2>4, <2>5, ParentsAreItems, RecursiveFunction
  <2> QED BY <2>6 DEF G
<1> HIDE DEF Satisfies
<1>3. Satisfies(CHOOSE f : Satisfies(f))
  BY <1>2
<1> QED BY <1>1, <1>3 DEF Satisfies

\* See ClaimsUnfold.
LEMMA MakesUnfold ==
  ASSUME NEW st, NEW F
  PROVE  Makes(st, F) = [i \in Items |-> MakeStep(st, F, Makes(st, F), i)]
<1> DEFINE Satisfies(f) == f = [i \in Items |-> MakeStep(st, F, f, i)]
<1>1. Makes(st, F) = CHOOSE f : Satisfies(f)
  BY DEF Makes, MakeStep, MadeFrom
<1>2. \E f : Satisfies(f)
  <2> DEFINE V == SUBSET Items
             G == [f \in [Items -> V] |-> [i \in Items |-> MakeStep(st, F, f, i)]]
  <2>1. ASSUME NEW f \in [Items -> V], NEW i \in Items
        PROVE  MakeStep(st, F, f, i) \in V
    BY <2>1, BlueprintAssumption DEF MakeStep, MadeFrom
  <2>2. G \in [[Items -> V] -> [Items -> V]]
    BY <2>1
  <2>3. ASSUME NEW g \in [Items -> V], NEW h \in [Items -> V], NEW i \in Items,
               \A j \in ParentsOf[i] : g[j] = h[j]
        PROVE  G[g][i] = G[h][i]
    BY <2>3 DEF MakeStep, MadeFrom, ParentsOf
  <2>4. V # {}
    OBVIOUS
  <2> HIDE DEF G, V
  <2>5. Recurs(Items, V, ParentsOf, G)
    BY <2>2, <2>3 DEF Recurs
  <2>6. \E f \in [Items -> V] : f = G[f]
    BY <2>4, <2>5, ParentsAreItems, RecursiveFunction
  <2> QED BY <2>6 DEF G
<1> HIDE DEF Satisfies
<1>3. Satisfies(CHOOSE f : Satisfies(f))
  BY <1>2
<1> QED BY <1>1, <1>3 DEF Satisfies


\* What an item that is approved claims: items that wait for their review, of its own
\* batch; an orphan among them needs an item that is rejected, or another orphan.
LEMMA WhatIsClaimed ==
  ASSUME NEW st, NEW F, NEW i \in Items
  PROVE  LET C == Claims(st, F)[i]  says == Outcome(st, F) IN
         /\ i \in C /\ C \subseteq Items
         /\ \A j \in C : (j = i \/ st.status[j] = "pending") /\ BatchOf[j] = BatchOf[i]
         /\ says[i] = "orphan" => \A j \in C : says[j] = "orphan"
         /\ \A j \in C : says[j] = "orphan" =>
              /\ Needs[j] # Unborn
              /\ \/ st.status[Needs[j]] = "rejected"
                 \/ /\ st.status[Needs[j]] = "pending" /\ Needs[j] \in C
                    /\ says[Needs[j]] = "orphan"
<1> DEFINE f == Claims(st, F)  says == Outcome(st, F)
           Fine(k, C) ==
             /\ k \in C /\ C \subseteq Items
             /\ \A j \in C : (j = k \/ st.status[j] = "pending") /\ BatchOf[j] = BatchOf[k]
             /\ says[k] = "orphan" => \A j \in C : says[j] = "orphan"
             /\ \A j \in C : says[j] = "orphan" =>
                  /\ Needs[j] # Unborn
                  /\ \/ st.status[Needs[j]] = "rejected"
                     \/ /\ st.status[Needs[j]] = "pending" /\ Needs[j] \in C
                        /\ says[Needs[j]] = "orphan"
           P == {k \in Items : Fine(k, f[k])}
<1>1. f = [k \in Items |-> ClaimStep(st, F, f, k)]
  BY ClaimsUnfold
<1>2. \A k \in Items : says[k] = OutcomeStep(st, F, says, k)
  BY OutcomeUnfolds
<1>3. ASSUME NEW k \in Items, ParentsOf[k] \subseteq P PROVE k \in P
  <2> HIDE DEF f, says
  <2> DEFINE N == ClaimedFrom(st, f, Needs[k])
             L == IF Found(st, F, Needs[k]) THEN ClaimedFrom(st, f, Likes[k]) ELSE {}
             C == {k} \cup N \cup L
  <2>1. f[k] = C
    BY <1>1 DEF ClaimStep
  <2>2. N # {} => /\ Needs[k] # Unborn /\ st.status[Needs[k]] = "pending"
                  /\ Fine(Needs[k], N) /\ BatchOf[Needs[k]] = BatchOf[k]
    BY <1>3, BlueprintAssumption DEF ParentsOf, ClaimedFrom
  <2>3. L # {} => /\ Likes[k] # Unborn /\ st.status[Likes[k]] = "pending"
                  /\ Fine(Likes[k], L) /\ BatchOf[Likes[k]] = BatchOf[k] /\ Found(st, F, Needs[k])
    BY <1>3, BlueprintAssumption DEF ParentsOf, ClaimedFrom
  <2>4. Needs[k] # Unborn /\ st.status[Needs[k]] = "pending" => Needs[k] \in N
    BY <1>3, BlueprintAssumption DEF ParentsOf, ClaimedFrom
  <2>5. says[k] = "orphan" =>
          /\ Needs[k] # Unborn
          /\ \/ st.status[Needs[k]] = "rejected"
             \/ st.status[Needs[k]] = "pending" /\ says[Needs[k]] = "orphan"
    BY <1>2 DEF OutcomeStep, Look
  <2>6. says[k] = "orphan" => L = {}
    BY <2>5 DEF Found, says, Reviewed
  <2> HIDE DEF N, L
  <2>7. Fine(k, C)
    BY <2>2, <2>3, <2>4, <2>5, <2>6
  <2> QED BY <2>1, <2>7
<1>4. Items \subseteq P
  <2> HIDE DEF P
  <2> QED BY <1>3, FromTheParents
<1> QED BY <1>4

\* The statuses an item may have.
Statuses == {"pending", "rejected", Unborn} \cup Reviewed

\* A batch is there as a whole.
Whole(status) ==
  /\ status \in [Items -> Statuses]
  /\ \A i, j \in Items : BatchOf[i] = BatchOf[j] /\ status[i] = Unborn => status[j] = Unborn

\* What an item that is approved becomes: rows for it and for all it claims but the
\* orphans; and whatever becomes a row has what it needs.
LEMMA WhatIsMade ==
  ASSUME NEW st, Whole(st.status), NEW F, NEW i \in Items, st.status[i] = "pending",
         Outcome(st, F)[i] = "ok"
  PROVE  LET C == Claims(st, F)[i]  M == Makes(st, F)[i]  says == Outcome(st, F) IN
         /\ i \in M /\ M \subseteq C
         /\ \A j \in C : j \in M \/ says[j] = "orphan"
         /\ \A j \in M : says[j] = "ok"
         /\ \A j \in M : Needs[j] # Unborn =>
              Needs[j] \in M \/ (st.status[Needs[j]] \in Reviewed /\ ~Hollow(st, Needs[j]))
<1> DEFINE f == Claims(st, F)  g == Makes(st, F)  says == Outcome(st, F)
           Fine(k, C, M) ==
             /\ k \in M /\ M \subseteq C
             /\ \A j \in C : j \in M \/ says[j] = "orphan"
             /\ \A j \in M : says[j] = "ok"
             /\ \A j \in M : Needs[j] # Unborn =>
                  Needs[j] \in M \/ (st.status[Needs[j]] \in Reviewed /\ ~Hollow(st, Needs[j]))
           P == {k \in Items : st.status[k] = "pending" /\ says[k] = "ok" => Fine(k, f[k], g[k])}
<1>1. /\ f = [k \in Items |-> ClaimStep(st, F, f, k)]
      /\ g = [k \in Items |-> MakeStep(st, F, g, k)]
  BY ClaimsUnfold, MakesUnfold
<1>2. \A k \in Items : says[k] = OutcomeStep(st, F, says, k) /\ says[k] \in Outcomes
  BY OutcomeUnfolds, OutcomeIsOne
<1>3. ASSUME NEW k \in Items, ParentsOf[k] \subseteq P, st.status[k] = "pending", says[k] = "ok"
      PROVE  Fine(k, f[k], g[k])
  <2>1. \A j \in ParentsOf[k] : /\ j \in Items /\ j # Unborn
                               /\ st.status[j] \in {"pending", "rejected"} \cup Reviewed
    BY <1>3, BlueprintAssumption DEF ParentsOf, Whole, Statuses
  <2>2. \A j \in ParentsOf[k] : st.status[j] = "pending" /\ says[j] = "orphan" =>
          \A l \in f[j] : says[l] = "orphan"
    BY <2>1, WhatIsClaimed
  <2> HIDE DEF f, g, says
  <2> DEFINE N == ClaimedFrom(st, f, Needs[k])
             L == ClaimedFrom(st, f, Likes[k])
             NM == MadeFrom(st, F, g, Needs[k])
             LM == MadeFrom(st, F, g, Likes[k])
  <2>3. /\ Look(st, says, Needs[k]) = "ok" /\ Look(st, says, Likes[k]) # "refused"
        /\ Needs[k] # Unborn => ~Hollow(st, Needs[k])
    BY <1>2, <1>3 DEF OutcomeStep
  <2>4. Found(st, F, Needs[k])
    BY <2>1, <2>3 DEF Found, Look, ParentsOf, says, Reviewed
  <2>5. f[k] = {k} \cup N \cup L /\ g[k] = {k} \cup NM \cup LM
    BY <1>1, <2>4 DEF ClaimStep, MakeStep
  <2>6. Needs[k] # Unborn =>
          \/ st.status[Needs[k]] = "pending" /\ Fine(Needs[k], N, NM)
          \/ N = {} /\ NM = {} /\ st.status[Needs[k]] \in Reviewed /\ ~Hollow(st, Needs[k])
    BY <1>3, <2>1, <2>3 DEF Look, ParentsOf, ClaimedFrom, MadeFrom, Reviewed, says
  <2>7. Needs[k] = Unborn => N = {} /\ NM = {}
    BY DEF ClaimedFrom, MadeFrom
  <2>8. \/ Fine(Likes[k], L, LM)
        \/ LM = {} /\ \A l \in L : says[l] = "orphan"
    <3>1. CASE Likes[k] = Unborn \/ st.status[Likes[k]] # "pending"
      BY <3>1 DEF ClaimedFrom, MadeFrom
    <3>2. CASE Likes[k] # Unborn /\ st.status[Likes[k]] = "pending"
      <4>1. Likes[k] \in ParentsOf[k] /\ Likes[k] \in Items /\ L = f[Likes[k]]
        BY <2>1, <3>2 DEF ParentsOf, ClaimedFrom
      <4>2. says[Likes[k]] \in {"ok", "orphan"}
        BY <1>2, <2>3, <3>2, <4>1 DEF Look, Outcomes
      <4>3. CASE says[Likes[k]] = "ok"
        <5>1. LM = g[Likes[k]]
          BY <3>2, <4>3 DEF MadeFrom, says
        <5> QED BY <1>3, <3>2, <4>1, <4>3, <5>1
      <4>4. CASE says[Likes[k]] = "orphan"
        <5>1. LM = {}
          BY <4>4 DEF MadeFrom, says
        <5> QED BY <2>2, <3>2, <4>1, <4>4, <5>1
      <4> QED BY <4>2, <4>3, <4>4
    <3> QED BY <3>1, <3>2
  <2> HIDE DEF N, L, NM, LM
  <2>9. Fine(k, {k} \cup N \cup L, {k} \cup NM \cup LM)
    BY <1>3, <2>6, <2>7, <2>8
  <2> QED BY <2>5, <2>9
<1>4. Items \subseteq P
  <2>1. \A k \in Items : ParentsOf[k] \subseteq P => k \in P
    BY <1>3
  <2> HIDE DEF P
  <2> QED BY <2>1, FromTheParents
<1> HIDE DEF Fine, f, g, says
<1>5. Fine(i, f[i], g[i])
  BY <1>4 DEF says
<1> QED BY <1>5 DEF Fine, f, g, says

-----------------------------------------------------------------------------
(* Reviews under way. *)

\* What the tables are like: an item that was approved and is no row needs one that was
\* rejected, or that is no row either.
ItemsOK ==
  /\ BlueprintTypeOK /\ Whole(item)
  /\ \A i \in Items :
       /\ made[i] <= 1
       /\ made[i] = 1 => item[i] \in Reviewed
       /\ made[i] = 1 /\ Needs[i] # Unborn => made[Needs[i]] = 1
       /\ item[i] \in Reviewed /\ made[i] = 0 =>
            /\ Needs[i] # Unborn
            /\ \/ item[Needs[i]] = "rejected"
               \/ item[Needs[i]] \in Reviewed /\ made[Needs[i]] = 0

\* The state of a review that approves, seen from the committed tables.
Progress(st) ==
  /\ st \in [status : [Items -> Statuses], new : SUBSET Items]
  /\ \A i \in Items : st.status[i] # item[i] => item[i] = "pending" /\ st.status[i] \in Reviewed
  /\ \A i \in st.new :
       /\ item[i] = "pending" /\ st.status[i] \in Reviewed
       /\ Needs[i] # Unborn => Needs[i] \in st.new \/ made[Needs[i]] = 1
  /\ \A i \in Items : item[i] = "pending" /\ st.status[i] \in Reviewed /\ i \notin st.new =>
       /\ Needs[i] # Unborn
       /\ \/ item[Needs[i]] = "rejected"
          \/ /\ item[Needs[i]] = "pending" /\ st.status[Needs[i]] \in Reviewed
             /\ Needs[i] \notin st.new

\* Nothing is reviewed yet.
LEMMA NowIsProgress == ItemsOK => Progress(Now)
BY BlueprintAssumption DEF ItemsOK, Progress, Now, Whole, Statuses, Reviewed

\* One more item approved, with all that comes along.
LEMMA ApprovingProgresses ==
  ASSUME ItemsOK, NEW st, Progress(st), NEW F, NEW i \in Items, st.status[i] = "pending",
         Outcome(st, F)[i] = "ok", NEW how \in Reviewed
  PROVE  Progress(Approves(st, i, F, how))
<1> DEFINE C == Claims(st, F)[i]  M == Makes(st, F)[i]  says == Outcome(st, F)
           new == Approves(st, i, F, how)
<1>1. Whole(st.status)
  BY BlueprintAssumption DEF ItemsOK, Progress, Whole, Statuses, Reviewed
<1>2. /\ i \in C /\ C \subseteq Items /\ \A j \in C : st.status[j] = "pending"
      /\ \A j \in C : says[j] = "orphan" =>
           /\ Needs[j] # Unborn
           /\ \/ st.status[Needs[j]] = "rejected"
              \/ /\ st.status[Needs[j]] = "pending" /\ Needs[j] \in C
                 /\ says[Needs[j]] = "orphan"
  BY WhatIsClaimed
<1>3. /\ i \in M /\ M \subseteq C
      /\ \A j \in C : j \in M \/ says[j] = "orphan"
      /\ \A j \in M : says[j] = "ok"
      /\ \A j \in M : Needs[j] # Unborn =>
           Needs[j] \in M \/ (st.status[Needs[j]] \in Reviewed /\ ~Hollow(st, Needs[j]))
  BY <1>1, WhatIsMade
<1>4. /\ new.status = [j \in Items |-> IF j = i THEN how ELSE IF j \in C THEN "approved" ELSE st.status[j]]
      /\ new.new = st.new \cup M
      /\ new = [status |-> new.status, new |-> new.new]
  BY DEF Approves
<1> HIDE DEF C, M, says, new
<1>5. /\ \A j \in C : new.status[j] \in Reviewed
      /\ \A j \in Items \ C : new.status[j] = st.status[j]
  BY <1>2, <1>4 DEF Reviewed
<1>6. new \in [status : [Items -> Statuses], new : SUBSET Items]
  <2>1. new.status \in [Items -> Statuses]
    BY <1>4 DEF Progress, Statuses, Reviewed
  <2>2. new.new \in SUBSET Items
    BY <1>2, <1>3, <1>4 DEF Progress
  <2> QED BY <1>4, <2>1, <2>2
<1>7. \A j \in C : item[j] = "pending" /\ j \notin st.new
  BY <1>2 DEF Progress, Reviewed
<1>8. \A j \in Items : new.status[j] # item[j] => item[j] = "pending" /\ new.status[j] \in Reviewed
  BY <1>5, <1>7 DEF Progress
<1>9. \A j \in Items : made[j] \in Nat /\ made[j] <= 1
  BY DEF ItemsOK, BlueprintTypeOK
<1>10. \A j \in new.new :
       /\ item[j] = "pending" /\ new.status[j] \in Reviewed
       /\ Needs[j] # Unborn => Needs[j] \in new.new \/ made[Needs[j]] = 1
  <2>1. ASSUME NEW j \in M
        PROVE  /\ item[j] = "pending" /\ new.status[j] \in Reviewed
               /\ Needs[j] # Unborn => Needs[j] \in new.new \/ made[Needs[j]] = 1
    <3>1. item[j] = "pending" /\ new.status[j] \in Reviewed /\ j \in Items
      BY <1>2, <1>3, <1>5, <1>7
    <3>2. ASSUME Needs[j] # Unborn, Needs[j] \notin M PROVE Needs[j] \in st.new \/ made[Needs[j]] = 1
      <4>1. Needs[j] \in Items
        BY <3>1, <3>2, BlueprintAssumption
      <4>2. made[Needs[j]] # 0 \/ Needs[j] \in st.new
        BY <1>3, <3>2 DEF Hollow
      <4> QED BY <1>9, <4>1, <4>2
    <3> QED BY <1>4, <3>1, <3>2
  <2>2. ASSUME NEW j \in st.new
        PROVE  /\ item[j] = "pending" /\ new.status[j] \in Reviewed
               /\ Needs[j] # Unborn => Needs[j] \in new.new \/ made[Needs[j]] = 1
    BY <1>4, <1>5, <1>7, <2>2 DEF Progress
  <2> QED BY <1>4, <2>1, <2>2
<1>11. ASSUME NEW j \in Items, item[j] = "pending", new.status[j] \in Reviewed, j \notin new.new
       PROVE  /\ Needs[j] # Unborn
              /\ \/ item[Needs[j]] = "rejected"
                 \/ /\ item[Needs[j]] = "pending" /\ new.status[Needs[j]] \in Reviewed
                    /\ Needs[j] \notin new.new
  <2>1. CASE j \in C
    <3>1. says[j] = "orphan"
      BY <1>3, <1>4, <1>11, <2>1
    <3>2. Needs[j] # Unborn /\ Needs[j] \in Items
      BY <1>2, <2>1, <3>1, BlueprintAssumption
    <3>3. CASE st.status[Needs[j]] = "rejected"
      BY <3>2, <3>3 DEF Progress, Reviewed
    <3>4. CASE Needs[j] \in C /\ says[Needs[j]] = "orphan"
      BY <1>3, <1>4, <1>5, <1>7, <3>2, <3>4
    <3> QED BY <1>2, <2>1, <3>1, <3>2, <3>3, <3>4
  <2>2. CASE j \notin C
    <3>1. st.status[j] \in Reviewed /\ j \notin st.new
      BY <1>4, <1>5, <1>11, <2>2
    <3>2. /\ Needs[j] # Unborn /\ Needs[j] \in Items
          /\ \/ item[Needs[j]] = "rejected"
             \/ /\ item[Needs[j]] = "pending" /\ st.status[Needs[j]] \in Reviewed
                /\ Needs[j] \notin st.new
      BY <1>11, <3>1, BlueprintAssumption DEF Progress
    <3>3. st.status[Needs[j]] \in Reviewed => Needs[j] \notin C
      BY <1>2 DEF Reviewed
    <3> QED BY <1>3, <1>4, <1>5, <3>2, <3>3
  <2> QED BY <2>1, <2>2
<1> QED BY <1>6, <1>8, <1>10, <1>11 DEF Progress, new

\* The states of a review.
Reviews == [status : [Items -> Statuses], new : SUBSET Items]

\* accept_all keeps to it item by item.
LEMMA AcceptingProgresses ==
  ASSUME ItemsOK, NEW st, Progress(st), NEW F
  PROVE  Progress(AcceptsAll(st, F))
<1> DEFINE n == Len(KindOrder)
           I == SUBSET (1 .. n)
           V == {a \in Reviews : Progress(a)}
           Accept(a, i) == IF a.status[i] = "pending" /\ Outcome(a, F)[i] = "ok"
                             THEN Approves(a, i, F, "approved") ELSE a
           Step(f, s) == IF s = {} THEN st ELSE Accept(f[s \ {Max(s)}], KindOrder[Max(s)])
           Satisfies(f) == f = [s \in I |-> Step(f, s)]
<1>1. n \in Nat /\ DOMAIN KindOrder = 1 .. n /\ \A k \in 1 .. n : KindOrder[k] \in Items
  BY BlueprintAssumption
<1>2. AcceptsAll(st, F) = (CHOOSE f : Satisfies(f))[1 .. n]
  BY <1>1 DEF AcceptsAll, FoldLeft, MapThenFoldSet
<1>3. \A a : Progress(a) => a \in Reviews
  BY DEF Progress, Reviews
<1>4. ASSUME NEW a, Progress(a), NEW i \in Items PROVE Progress(Accept(a, i))
  BY <1>4, ApprovingProgresses DEF Reviewed
<1>5. \A s \in I : s # {} => Max(s) \in s /\ KindOrder[Max(s)] \in Items /\ s \ {Max(s)} \in I
  BY <1>1, GreatestIsOne
<1> HIDE DEF Accept
<1>6. ASSUME NEW f \in [I -> V], NEW s \in I PROVE Step(f, s) \in V
  BY <1>3, <1>4, <1>5
<1>7. \E f : Satisfies(f) /\ f \in [I -> V]
  <2> DEFINE G == [f \in [I -> V] |-> [s \in I |-> Step(f, s)]]
  <2>2. G \in [[I -> V] -> [I -> V]]
    BY <1>6
  <2>3. ASSUME NEW g \in [I -> V], NEW h \in [I -> V], NEW s \in I,
               \A j \in BeforeLast(n)[s] : g[j] = h[j]
        PROVE  G[g][s] = G[h][s]
    BY <2>3 DEF BeforeLast
  <2>4. V # {}
    BY <1>3
  <2>5. Acyclic(I, BeforeLast(n))
    BY <1>1, PlacesAreOrdered
  <2> HIDE DEF G, V, I
  <2>6. Recurs(I, V, BeforeLast(n), G)
    BY <2>2, <2>3 DEF Recurs
  <2>7. \E f \in [I -> V] : f = G[f]
    BY <2>4, <2>5, <2>6, RecursiveFunction
  <2> QED BY <2>7 DEF G
<1> DEFINE run == CHOOSE f : Satisfies(f)
<1> HIDE DEF Step
<1>8. run = [s \in I |-> Step(run, s)]
  <2> HIDE DEF Satisfies
  <2>1. Satisfies(run)
    BY <1>7
  <2> QED BY <2>1 DEF Satisfies
<1>9. \A s \in I : run[s] \in V
  <2> DEFINE P == {s \in I : run[s] \in V}
  <2>1. ASSUME NEW s \in I, \A u \in SUBSET s : u # s => u \in P PROVE s \in P
    <3>1. run[s] = Step(run, s)
      BY <1>8
    <3> HIDE DEF run
    <3>2. CASE s = {}
      BY <1>3, <3>1, <3>2 DEF Step
    <3>3. CASE s # {}
      <4>1. run[s \ {Max(s)}] \in V
        BY <1>5, <2>1, <3>3
      <4> QED BY <1>3, <1>4, <1>5, <3>1, <3>3, <4>1 DEF Step
    <3> QED BY <3>2, <3>3
  <2>2. IsFiniteSet(1 .. n)
    BY <1>1, FS_Interval
  <2> DEFINE N == 1 .. n
  <2>3. \A T \in SUBSET N : (\A U \in SUBSET T : U # T => U \in P) => T \in P
    BY <2>1
  <2> HIDE DEF P, N
  <2>4. \A T \in SUBSET N : T \in P
    BY <2>2, <2>3, SubsetInduction DEF N
  <2> QED BY <2>4 DEF P, N
<1>10. 1 .. n \in I
  OBVIOUS
<1> HIDE DEF run, V
<1> QED BY <1>2, <1>9, <1>10 DEF run, V
-----------------------------------------------------------------------------
(* The requests. *)

\* What a review r is about to write fits these statuses and the rows held: nothing is
\* made that was not approved or lacks what it needs; and what is approved and not made
\* is cut off.
Fits(r, status, held) ==
  /\ r.claimed \in SUBSET Items /\ r.new \in SUBSET r.claimed
  /\ r.status \in [Items -> Statuses]
  /\ r.shares \in [DOMAIN r.shares -> SUBSET Sharers]
  /\ \A i \in r.claimed : r.status[i] \in Reviewed \cup {"rejected"}
  /\ \A i \in r.new :
       /\ r.status[i] \in Reviewed
       /\ Needs[i] # Unborn => Needs[i] \in r.new \/ held[Needs[i]] = 1
  /\ \A i \in r.claimed \ r.new : r.status[i] \in Reviewed =>
       /\ Needs[i] # Unborn
       /\ \/ status[Needs[i]] = "rejected"
          \/ Needs[i] \in r.claimed \ r.new /\ r.status[Needs[i]] \in Reviewed

\* It fits what is committed.
WellReviewed(r) == Fits(r, item, made)

\* Nothing was committed since: it has seen all there is, and splits the capital of
\* the batches it touches among the departments that will not be rejected.
UpToDate(r) ==
  /\ \A i \in Items \ r.claimed : r.status[i] = item[i]
  /\ \A i \in Sharers :
       \/ /\ i \in DOMAIN r.shares <=> made[i] > 0 \/ i \in r.new
          /\ i \in DOMAIN r.shares => r.shares[i] = SharingItems(r.status, BatchOf[i])
       \/ i \notin DOMAIN r.shares /\ \A j \in r.claimed : BatchOf[j] # BatchOf[i]

\* Every review fits what is committed, whoever else has committed since; and it is up
\* to date unless somebody has.
ReviewsOK ==
  /\ DOMAIN review = Reviewers
  /\ \A s \in Reviewers : review[s] # Unborn =>
       review[s] = [overtaken |-> review[s].overtaken, todo |-> review[s].todo]
  /\ \A s \in Reviewers : review[s] # Unborn /\ review[s].todo.op = "review" =>
       /\ WellReviewed(review[s].todo)
       /\ ~review[s].overtaken => UpToDate(review[s].todo)

\* The inductive invariant.
BlueprintInv == ItemsOK /\ ReviewsOK /\ CapitalStaysAllocated

\* It holds at first.
LEMMA BlueprintInitially == BlueprintInit => BlueprintInv
<1> SUFFICES ASSUME BlueprintInit PROVE BlueprintInv
  OBVIOUS
<1>1. \A i \in Items : item[i] = Unborn /\ made[i] = 0
  BY DEF BlueprintInit
<1>2. BlueprintTypeOK
  BY DEF BlueprintInit, BlueprintTypeOK
<1>3. Whole(item)
  BY <1>1, <1>2 DEF BlueprintTypeOK, Whole, Statuses
<1>4. ItemsOK
  BY <1>1, <1>2, <1>3, BlueprintAssumption DEF ItemsOK, Reviewed
<1>5. ReviewsOK
  BY DEF BlueprintInit, ReviewsOK
<1>6. CapitalStaysAllocated
  BY <1>1, BlueprintAssumption DEF CapitalStaysAllocated
<1> QED BY <1>4, <1>5, <1>6 DEF BlueprintInv

\* A request that approves some items is well reviewed when it is made.
LEMMA ProgressIsReviewed ==
  ASSUME ItemsOK, NEW st, Progress(st), NEW B,
         NEW r, r.claimed = {i \in Items : st.status[i] # item[i]},
         r.status = st.status, r.new = st.new,
         \A i \in r.claimed : BatchOf[i] \in B,
         r.shares = [i \in {j \in Sharers : BatchOf[j] \in B /\ (made[j] > 0 \/ j \in st.new)} |->
                       Rebalanced(st, BatchOf[i])[i]]
  PROVE  WellReviewed(r) /\ UpToDate(r)
<1>1. \A i \in Sharers : i \in Items
  BY BlueprintAssumption
<1>2. /\ DOMAIN r.shares = {j \in Sharers : BatchOf[j] \in B /\ (made[j] > 0 \/ j \in st.new)}
      /\ \A i \in DOMAIN r.shares : r.shares[i] = SharingItems(st.status, BatchOf[i])
      /\ r.shares \in [DOMAIN r.shares -> SUBSET Sharers]
  BY <1>1 DEF Rebalanced, SharingItems
<1>3. UpToDate(r)
  BY <1>1, <1>2 DEF UpToDate
<1>4. r.new \in SUBSET r.claimed
  BY DEF Progress, Reviewed
<1>5. \A i \in r.claimed : r.status[i] \in Reviewed /\ item[i] = "pending"
  BY DEF Progress
<1>6. ASSUME NEW i \in r.claimed \ r.new
      PROVE  /\ Needs[i] # Unborn
             /\ \/ item[Needs[i]] = "rejected"
                \/ Needs[i] \in r.claimed \ r.new /\ r.status[Needs[i]] \in Reviewed
  <2>1. /\ Needs[i] # Unborn
        /\ \/ item[Needs[i]] = "rejected"
           \/ /\ item[Needs[i]] = "pending" /\ st.status[Needs[i]] \in Reviewed
              /\ Needs[i] \notin st.new
    BY <1>5 DEF Progress
  <2>2. Needs[i] \in Items
    BY <2>1, BlueprintAssumption
  <2> QED BY <2>1, <2>2 DEF Reviewed
<1> QED BY <1>2, <1>3, <1>4, <1>5, <1>6 DEF WellReviewed, Fits, Progress

\* A request that rejects an item is, too.
LEMMA RejectIsReviewed ==
  ASSUME ItemsOK, NEW i \in Items, item[i] = "pending",
         NEW st, st = [status |-> [item EXCEPT ![i] = "rejected"], new |-> {}],
         NEW r, r.claimed = {j \in Items : st.status[j] # item[j]},
         r.status = st.status, r.new = st.new,
         r.shares = [k \in {j \in Sharers : BatchOf[j] \in {BatchOf[i]} /\ (made[j] > 0 \/ j \in st.new)} |->
                       Rebalanced(st, BatchOf[k])[k]]
  PROVE  WellReviewed(r) /\ UpToDate(r)
<1>1. \A j \in Sharers : j \in Items
  BY BlueprintAssumption
<1>2. /\ DOMAIN r.shares = {j \in Sharers : BatchOf[j] = BatchOf[i] /\ (made[j] > 0 \/ j \in st.new)}
      /\ \A j \in DOMAIN r.shares : r.shares[j] = SharingItems(st.status, BatchOf[j])
      /\ r.shares \in [DOMAIN r.shares -> SUBSET Sharers]
  BY <1>1 DEF Rebalanced, SharingItems
<1>3. item \in [Items -> Statuses]
  BY DEF ItemsOK, BlueprintTypeOK, Statuses
<1>4. /\ r.status \in [Items -> Statuses] /\ r.claimed = {i} /\ r.new = {}
      /\ r.status[i] = "rejected"
  BY <1>3 DEF Statuses
<1>5. UpToDate(r)
  BY <1>1, <1>2, <1>4 DEF UpToDate
<1> QED BY <1>2, <1>4, <1>5 DEF WellReviewed, Fits, Reviewed

\* While the tables stay as they are, requests stay well reviewed and up to date.
LEMMA SameTables ==
  ASSUME UNCHANGED <<item, made>>
  PROVE  \A q : (WellReviewed(q) => WellReviewed(q)') /\ (UpToDate(q) => UpToDate(q)')
<1>1. \A q : WellReviewed(q) => WellReviewed(q)'
  BY DEF WellReviewed, Fits
<1>2. \A q : UpToDate(q) => UpToDate(q)'
  BY DEF UpToDate, SharingItems
<1> QED BY <1>1, <1>2

\* A request that is made leaves the others as they were.
LEMMA MadeReady ==
  ASSUME BlueprintInv, NEW s \in Reviewers, NEW st, NEW B,
         ReviewReady(s, st, B),
         \A r : /\ r.claimed = {i \in Items : st.status[i] # item[i]}
                /\ r.status = st.status /\ r.new = st.new
                /\ r.shares = [i \in {j \in Sharers : BatchOf[j] \in B /\ (made[j] > 0 \/ j \in st.new)} |->
                                 Rebalanced(st, BatchOf[i])[i]]
                => WellReviewed(r) /\ UpToDate(r)
  PROVE  BlueprintInv'
<1>1. UNCHANGED <<item, made, split, dropped, blueprintRaced>>
  BY DEF ReviewReady
<1>2. PICK r : /\ WellReviewed(r) /\ UpToDate(r)
               /\ review' = [review EXCEPT ![s] = [overtaken |-> FALSE, todo |-> r]]
  BY DEF ReviewReady, Checked
<1>3. ItemsOK' /\ CapitalStaysAllocated'
  BY <1>1 DEF BlueprintInv, ItemsOK, CapitalStaysAllocated, BlueprintTypeOK, Whole, SharingItems
<1>4. \A q : (WellReviewed(q) => WellReviewed(q)') /\ (UpToDate(q) => UpToDate(q)')
  BY <1>1, SameTables
<1>6. ReviewsOK'
  BY <1>2, <1>4 DEF BlueprintInv, ReviewsOK
<1> QED BY <1>3, <1>6 DEF BlueprintInv

\* What is committed stays so: what others are about to write still fits.
LEMMA StillReviewed ==
  ASSUME ItemsOK, NEW r, WellReviewed(r),
         \A i \in Items : item[i] = "rejected" => item'[i] = "rejected",
         \A i \in Items : made[i] = 1 => made'[i] = 1
  PROVE  Fits(r, item', made')
BY BlueprintAssumption DEF Fits, WellReviewed

\* Whoever commits, the other reviews are overtaken and still fit.
LEMMA CommitOvertakes ==
  ASSUME BlueprintInv, NEW s,
         review' = Committed(review, s, Unborn),
         \A i \in Items : item[i] = "rejected" => item'[i] = "rejected",
         \A i \in Items : made[i] = 1 => made'[i] = 1
  PROVE  ReviewsOK'
<1>1. DOMAIN review' = Reviewers
  BY DEF BlueprintInv, ReviewsOK, Committed
<1>2. ASSUME NEW t \in Reviewers, review'[t] # Unborn
      PROVE  /\ review[t] # Unborn /\ review'[t].overtaken = TRUE
             /\ review'[t].todo = review[t].todo
             /\ review'[t] = [overtaken |-> review'[t].overtaken, todo |-> review'[t].todo]
  <2>1. review[t] # Unborn /\ review'[t] = [review[t] EXCEPT !.overtaken = TRUE]
    BY <1>2 DEF BlueprintInv, ReviewsOK, Committed
  <2>2. review[t] = [overtaken |-> review[t].overtaken, todo |-> review[t].todo]
    BY <2>1 DEF BlueprintInv, ReviewsOK
  <2>3. review'[t] = [overtaken |-> TRUE, todo |-> review[t].todo]
    BY <2>1, <2>2
  <2>4. review'[t].overtaken = TRUE /\ review'[t].todo = review[t].todo
    BY <2>3
  <2> QED BY <2>1, <2>3, <2>4
<1>3. ASSUME NEW t \in Reviewers, review'[t] # Unborn, review'[t].todo.op = "review"
      PROVE  Fits(review'[t].todo, item', made')
  <2>1. WellReviewed(review[t].todo)
    BY <1>2, <1>3 DEF BlueprintInv, ReviewsOK
  <2> QED BY <1>2, <1>3, <2>1, StillReviewed DEF BlueprintInv
<1> QED BY <1>1, <1>2, <1>3 DEF ReviewsOK, WellReviewed

-----------------------------------------------------------------------------
(* The steps. *)

\* The commit of a review: what was claimed is still pending, so nothing of it was made.
LEMMA FinishingKeeps ==
  ASSUME BlueprintInv, NEW s \in Reviewers, FinishReviewing(s)
  PROVE  BlueprintInv'
<1> DEFINE r == review[s].todo
<1>1. /\ WellReviewed(r)
      /\ ~review[s].overtaken => UpToDate(r)
      /\ StillPending(r.claimed)
      /\ item' = [i \in Items |-> IF i \in r.claimed THEN r.status[i] ELSE item[i]]
      /\ made' = [i \in Items |-> IF i \in r.new THEN made[i] + 1 ELSE made[i]]
      /\ split' = [i \in Sharers |-> IF i \in DOMAIN r.shares THEN r.shares[i] ELSE split[i]]
      /\ review' = Committed(review, s, Unborn)
      /\ blueprintRaced' = (blueprintRaced \/ Overtaken(review, s, Unborn))
      /\ dropped' = dropped
      /\ review[s] # Unborn
  BY DEF FinishReviewing, BlueprintInv, ReviewsOK
<1> HIDE DEF r
<1>2. \A i \in Items : made[i] \in Nat /\ made[i] <= 1 /\ (made[i] = 1 => item[i] \in Reviewed)
  BY DEF BlueprintInv, ItemsOK, BlueprintTypeOK
<1>3. /\ r.claimed \in SUBSET Items /\ r.new \in SUBSET r.claimed
      /\ \A i \in r.claimed : /\ item[i] = "pending" /\ made[i] = 0
                              /\ item'[i] = r.status[i]
                              /\ r.status[i] \in Reviewed \cup {"rejected"}
      /\ \A i \in Items \ r.claimed : item'[i] = item[i] /\ made'[i] = made[i]
      /\ \A i \in r.new : made'[i] = 1
      /\ \A i \in r.claimed \ r.new : made'[i] = 0
  BY <1>1, <1>2 DEF WellReviewed, Fits, StillPending, Reviewed
<1>4. BlueprintTypeOK'
  <2>1. item' \in [Items -> {"pending", "rejected", Unborn} \cup Reviewed]
    BY <1>1, <1>3 DEF BlueprintInv, ItemsOK, BlueprintTypeOK
  <2>2. made' \in [Items -> Nat]
    BY <1>1, <1>2
  <2>3. split' \in [Sharers -> SUBSET Sharers]
    BY <1>1 DEF BlueprintInv, ItemsOK, BlueprintTypeOK, WellReviewed, Fits
  <2>4. dropped' \subseteq Sharers /\ blueprintRaced' \in BOOLEAN
    BY <1>1 DEF BlueprintInv, ItemsOK, BlueprintTypeOK
  <2> QED BY <2>1, <2>2, <2>3, <2>4 DEF BlueprintTypeOK
<1>5. \A i \in Items : (item[i] = Unborn <=> item'[i] = Unborn) /\ item'[i] \in Statuses
  BY <1>3, BlueprintAssumption DEF Reviewed, Statuses, BlueprintInv, ItemsOK, Whole
<1>6. Whole(item)'
  BY <1>5, <1>4 DEF BlueprintInv, ItemsOK, Whole, BlueprintTypeOK, Statuses
<1>7. ASSUME NEW i \in Items
      PROVE  /\ made'[i] <= 1
             /\ made'[i] = 1 => item'[i] \in Reviewed
             /\ made'[i] = 1 /\ Needs[i] # Unborn => made'[Needs[i]] = 1
             /\ item'[i] \in Reviewed /\ made'[i] = 0 =>
                  /\ Needs[i] # Unborn
                  /\ \/ item'[Needs[i]] = "rejected"
                     \/ item'[Needs[i]] \in Reviewed /\ made'[Needs[i]] = 0
  <2>1. Needs[i] # Unborn => Needs[i] \in Items
    BY BlueprintAssumption
  <2>2. /\ made[i] = 1 /\ Needs[i] # Unborn => made[Needs[i]] = 1
        /\ item[i] \in Reviewed /\ made[i] = 0 =>
             /\ Needs[i] # Unborn
             /\ \/ item[Needs[i]] = "rejected"
                \/ item[Needs[i]] \in Reviewed /\ made[Needs[i]] = 0
    BY DEF BlueprintInv, ItemsOK
  <2>3. CASE i \notin r.claimed
    BY <1>2, <1>3, <2>1, <2>2, <2>3 DEF Reviewed
  <2>4. CASE i \in r.new
    <3>1. r.status[i] \in Reviewed /\ (Needs[i] # Unborn => Needs[i] \in r.new \/ made[Needs[i]] = 1)
      BY <1>1, <2>4 DEF WellReviewed, Fits
    <3> QED BY <1>3, <2>1, <2>4, <3>1
  <2>5. CASE i \in r.claimed \ r.new
    <3>1. r.status[i] \in Reviewed =>
            /\ Needs[i] # Unborn
            /\ \/ item[Needs[i]] = "rejected"
               \/ Needs[i] \in r.claimed \ r.new /\ r.status[Needs[i]] \in Reviewed
      BY <1>1, <2>5 DEF WellReviewed, Fits
    <3> QED BY <1>3, <2>1, <2>5, <3>1
  <2> QED BY <2>3, <2>4, <2>5
<1>8. ItemsOK'
  BY <1>4, <1>6, <1>7 DEF ItemsOK
<1>9. ReviewsOK'
  <2>1. /\ \A i \in Items : item[i] = "rejected" => item'[i] = "rejected"
        /\ \A i \in Items : made[i] = 1 => made'[i] = 1
    BY <1>3
  <2> QED BY <1>1, <2>1, CommitOvertakes
<1>10. CapitalStaysAllocated'
  <2> SUFFICES ASSUME ~blueprintRaced', NEW i \in Sharers, made'[i] > 0
               PROVE  split'[i] = SharingItems(item', BatchOf[i])
    BY DEF CapitalStaysAllocated
  <2>1. ~blueprintRaced /\ UpToDate(r)
    BY <1>1 DEF Overtaken
  <2>2. \A j \in Items : item'[j] = r.status[j]
    BY <1>3, <2>1 DEF UpToDate
  <2>3. i \in Items /\ Sharers \subseteq Items
    BY BlueprintAssumption
  <2>4. SharingItems(item', BatchOf[i]) = SharingItems(r.status, BatchOf[i])
    BY <2>2, <2>3 DEF SharingItems
  <2>5. i \in r.new \/ made[i] > 0
    BY <1>3, <2>3
  <2>6. split'[i] = IF i \in DOMAIN r.shares THEN r.shares[i] ELSE split[i]
    BY <1>1
  <2>7. CASE i \in DOMAIN r.shares
    BY <2>1, <2>4, <2>6, <2>7 DEF UpToDate
  <2>8. CASE i \notin DOMAIN r.shares
    <3>1. \A j \in r.claimed : BatchOf[j] # BatchOf[i]
      BY <2>1, <2>5, <2>8 DEF UpToDate
    <3>2. SharingItems(item', BatchOf[i]) = SharingItems(item, BatchOf[i])
      BY <1>3, <2>3, <3>1 DEF SharingItems
    <3>3. made[i] > 0
      BY <1>3, <2>5, <3>1
    <3> QED BY <2>1, <2>6, <2>8, <3>2, <3>3 DEF BlueprintInv, CapitalStaysAllocated
  <2> QED BY <2>7, <2>8
<1> QED BY <1>8, <1>9, <1>10 DEF BlueprintInv

\* The insert of a batch.
LEMMA GeneratingKeeps ==
  ASSUME BlueprintInv, NEW s \in Reviewers, FinishGeneration(s)
  PROVE  BlueprintInv'
<1> DEFINE b == review[s].todo.batch
<1>1. /\ \A i \in Items : BatchOf[i] = b => item[i] = Unborn
      /\ item' = [i \in Items |-> IF BatchOf[i] = b THEN "pending" ELSE item[i]]
      /\ review' = Committed(review, s, Unborn)
      /\ blueprintRaced' = (blueprintRaced \/ Overtaken(review, s, Unborn))
      /\ UNCHANGED <<made, split, dropped>>
  BY DEF FinishGeneration
<1> HIDE DEF b
<1>2. \A i \in Items : /\ item'[i] = item[i] \/ (item[i] = Unborn /\ item'[i] = "pending")
                       /\ item[i] # Unborn => item'[i] = item[i]
                       /\ item'[i] = Unborn => item[i] = Unborn /\ BatchOf[i] # b
                       /\ BatchOf[i] # b => item'[i] = item[i]
  BY <1>1, BlueprintAssumption
<1>3. BlueprintTypeOK'
  BY <1>1 DEF BlueprintInv, ItemsOK, BlueprintTypeOK
<1>4. Whole(item)'
  BY <1>2, <1>3 DEF BlueprintInv, ItemsOK, Whole, BlueprintTypeOK, Statuses
<1>5. ItemsOK'
  <2> SUFFICES ASSUME NEW i \in Items
        PROVE  /\ made[i] <= 1
               /\ made[i] = 1 => item'[i] \in Reviewed
               /\ made[i] = 1 /\ Needs[i] # Unborn => made[Needs[i]] = 1
               /\ item'[i] \in Reviewed /\ made[i] = 0 =>
                    /\ Needs[i] # Unborn
                    /\ \/ item'[Needs[i]] = "rejected"
                       \/ item'[Needs[i]] \in Reviewed /\ made[Needs[i]] = 0
    BY <1>1, <1>3, <1>4 DEF ItemsOK
  <2>1. Needs[i] # Unborn => Needs[i] \in Items
    BY BlueprintAssumption
  <2> QED BY <1>2, <2>1, BlueprintAssumption DEF BlueprintInv, ItemsOK, Reviewed
<1>6. ReviewsOK'
  <2>1. /\ \A i \in Items : item[i] = "rejected" => item'[i] = "rejected"
        /\ \A i \in Items : made[i] = 1 => made'[i] = 1
    BY <1>1, <1>2, BlueprintAssumption
  <2> QED BY <1>1, <2>1, CommitOvertakes
<1>7. CapitalStaysAllocated'
  <2> SUFFICES ASSUME ~blueprintRaced', NEW i \in Sharers, made[i] > 0
               PROVE  split[i] = SharingItems(item', BatchOf[i])
    BY <1>1 DEF CapitalStaysAllocated
  <2>1. i \in Items /\ Sharers \subseteq Items
    BY BlueprintAssumption
  <2>2. item[i] \in Reviewed
    <3>1. made[i] = 1
      BY <2>1 DEF BlueprintInv, ItemsOK, BlueprintTypeOK
    <3> QED BY <2>1, <3>1 DEF BlueprintInv, ItemsOK
  <2>3. BatchOf[i] # b
    BY <1>1, <2>1, <2>2, BlueprintAssumption DEF Reviewed
  <2>4. SharingItems(item', BatchOf[i]) = SharingItems(item, BatchOf[i])
    BY <1>2, <2>1, <2>3 DEF SharingItems
  <2> QED BY <1>1, <2>4 DEF BlueprintInv, CapitalStaysAllocated
<1> QED BY <1>5, <1>6, <1>7 DEF BlueprintInv

\* Every step keeps it.
LEMMA BlueprintStep == BlueprintInv /\ [BlueprintNext]_blueprintVars => BlueprintInv'
<1> SUFFICES ASSUME BlueprintInv, [BlueprintNext]_blueprintVars PROVE BlueprintInv'
  OBVIOUS
<1>1. ASSUME NEW s \in Reviewers, NEW i \in Items, NEW how \in Reviewed, BeginApprove(s, i, how)
      PROVE  BlueprintInv'
  <2> DEFINE st == Approves(Now, i, {}, how)
  <2>1. item[i] = "pending" /\ Outcome(Now, {})[i] = "ok" /\ ReviewReady(s, st, {BatchOf[i]})
    BY <1>1 DEF BeginApprove
  <2>2. Progress(st)
    BY <2>1, NowIsProgress, ApprovingProgresses DEF BlueprintInv, Now
  <2>3. \A j \in Items : st.status[j] # item[j] => BatchOf[j] \in {BatchOf[i]}
    BY <2>1, WhatIsClaimed DEF Approves, Now
  <2> HIDE DEF st
  <2> QED BY <2>1, <2>2, <2>3, ProgressIsReviewed, MadeReady DEF BlueprintInv
<1>2. ASSUME NEW s \in Reviewers, NEW i \in Items, BeginReject(s, i)
      PROVE  BlueprintInv'
  <2> DEFINE st == [status |-> [item EXCEPT ![i] = "rejected"], new |-> {}]
  <2>1. item[i] = "pending" /\ ReviewReady(s, st, {BatchOf[i]})
    BY <1>2 DEF BeginReject
  <2> HIDE DEF st
  <2>2. ItemsOK /\ st = [status |-> [item EXCEPT ![i] = "rejected"], new |-> {}]
    BY DEF BlueprintInv, st
  <2> QED BY <2>1, <2>2, RejectIsReviewed, MadeReady
<1>3. ASSUME NEW s \in Reviewers, NEW F \in SUBSET Clashers, BeginAcceptAll(s, F)
      PROVE  BlueprintInv'
  <2> DEFINE st == AcceptsAll(Now, F)  B == {BatchOf[i] : i \in PendingItems}
  <2>1. ReviewReady(s, st, B)
    BY <1>3 DEF BeginAcceptAll
  <2>2. Progress(st)
    BY NowIsProgress, AcceptingProgresses DEF BlueprintInv
  <2>3. \A j \in Items : st.status[j] # item[j] => BatchOf[j] \in B
    BY <2>2 DEF Progress, PendingItems
  <2> HIDE DEF st, B
  <2> QED BY <2>1, <2>2, <2>3, ProgressIsReviewed, MadeReady DEF BlueprintInv
<1>4. ASSUME NEW s \in Reviewers, NEW b, BeginGeneration(s, b)
      PROVE  BlueprintInv'
  <2>1. /\ review' = [review EXCEPT ![s] = [overtaken |-> FALSE, todo |-> [op |-> "generate", batch |-> b]]]
        /\ UNCHANGED <<item, made, split, dropped, blueprintRaced>>
    BY <1>4 DEF BeginGeneration, Checked
  <2>2. ItemsOK' /\ CapitalStaysAllocated'
    BY <2>1 DEF BlueprintInv, ItemsOK, CapitalStaysAllocated, BlueprintTypeOK, Whole, SharingItems
  <2>3. \A t \in Reviewers : t # s => review'[t] = review[t]
    BY <2>1 DEF BlueprintInv, ReviewsOK
  <2>4. /\ review'[s] = [overtaken |-> FALSE, todo |-> [op |-> "generate", batch |-> b]]
        /\ DOMAIN review' = Reviewers
    BY <2>1 DEF BlueprintInv, ReviewsOK
  <2>5. ReviewsOK'
    BY <2>1, <2>3, <2>4, SameTables DEF BlueprintInv, ReviewsOK
  <2> QED BY <2>2, <2>5 DEF BlueprintInv
<1>5. ASSUME NEW s \in Reviewers, AbandonReview(s)
      PROVE  BlueprintInv'
  <2>1. /\ review' = [review EXCEPT ![s] = Unborn]
        /\ UNCHANGED <<item, made, split, dropped, blueprintRaced>>
    BY <1>5 DEF AbandonReview
  <2>2. ItemsOK' /\ CapitalStaysAllocated'
    BY <2>1 DEF BlueprintInv, ItemsOK, CapitalStaysAllocated, BlueprintTypeOK, Whole, SharingItems
  <2>3. DOMAIN review' = Reviewers /\ \A t \in Reviewers : review'[t] # Unborn => review'[t] = review[t]
    BY <2>1 DEF BlueprintInv, ReviewsOK
  <2>4. ReviewsOK'
    BY <2>1, <2>3, SameTables DEF BlueprintInv, ReviewsOK
  <2> QED BY <2>2, <2>4 DEF BlueprintInv
<1>6. ASSUME NEW i \in Sharers, DropDepartment(i)
      PROVE  BlueprintInv'
  <2>1. /\ dropped' = dropped \cup {i}
        /\ review' = Committed(review, Unborn, Unborn)
        /\ UNCHANGED <<item, made, split, blueprintRaced>>
    BY <1>6 DEF DropDepartment
  <2>2. ItemsOK' /\ CapitalStaysAllocated'
    BY <2>1 DEF BlueprintInv, ItemsOK, CapitalStaysAllocated, BlueprintTypeOK, Whole, SharingItems
  <2>3. ReviewsOK'
    BY <2>1, CommitOvertakes
  <2> QED BY <2>2, <2>3 DEF BlueprintInv
<1>7. CASE UNCHANGED blueprintVars
  <2>1. ItemsOK' /\ CapitalStaysAllocated'
    BY <1>7 DEF blueprintVars, BlueprintInv, ItemsOK, CapitalStaysAllocated, BlueprintTypeOK, Whole, SharingItems
  <2>2. ReviewsOK'
    BY <1>7, SameTables DEF blueprintVars, BlueprintInv, ReviewsOK
  <2> QED BY <2>1, <2>2 DEF BlueprintInv
<1>8. CASE BlueprintNext
  BY <1>1, <1>2, <1>3, <1>4, <1>5, <1>6, <1>8, FinishingKeeps, GeneratingKeeps DEF BlueprintNext
<1> QED BY <1>7, <1>8

\* It holds always.
THEOREM BlueprintInvariant == BlueprintSpec => []BlueprintInv
<1>1. BlueprintInit => BlueprintInv
  BY BlueprintInitially
<1>2. BlueprintInv /\ [BlueprintNext]_blueprintVars => BlueprintInv'
  BY BlueprintStep
<1> QED BY <1>1, <1>2, PTL DEF BlueprintSpec

\* One round of what ItemsBecomeRealOnce calls cut off.
CutOffStep(f, i) ==
  /\ Needs[i] # Unborn
  /\ item[Needs[i]] = "rejected" \/ (made[Needs[i]] = 0 /\ f[Needs[i]])

\* Tables like these promise it, up along what items need.
LEMMA RealOnce == ItemsOK => ItemsBecomeRealOnce
<1> SUFFICES ASSUME ItemsOK PROVE ItemsBecomeRealOnce
  OBVIOUS
<1> DEFINE Satisfies(f) == f = [i \in Items |-> CutOffStep(f, i)]
           cut == CHOOSE f : Satisfies(f)
<1>1. ItemsBecomeRealOnce <=>
        \A i \in Items :
          /\ made[i] <= 1
          /\ made[i] = 1 => item[i] \in Reviewed
          /\ made[i] = 1 /\ Needs[i] # Unborn => made[Needs[i]] = 1
          /\ item[i] \in Reviewed /\ made[i] = 0 => cut[i]
  BY DEF ItemsBecomeRealOnce, CutOffStep
<1>2. \E f : Satisfies(f)
  <2> DEFINE G == [f \in [Items -> BOOLEAN] |-> [i \in Items |-> CutOffStep(f, i)]]
  <2>1. G \in [[Items -> BOOLEAN] -> [Items -> BOOLEAN]]
    BY DEF CutOffStep
  <2>2. ASSUME NEW g \in [Items -> BOOLEAN], NEW h \in [Items -> BOOLEAN], NEW i \in Items,
               \A j \in ParentsOf[i] : g[j] = h[j]
        PROVE  G[g][i] = G[h][i]
    BY <2>2 DEF CutOffStep, ParentsOf
  <2>3. BOOLEAN # {}
    OBVIOUS
  <2> HIDE DEF G
  <2>4. Recurs(Items, BOOLEAN, ParentsOf, G)
    BY <2>1, <2>2 DEF Recurs
  <2>5. \E f \in [Items -> BOOLEAN] : f = G[f]
    BY <2>3, <2>4, ParentsAreItems, RecursiveFunction
  <2> QED BY <2>5 DEF G
<1>3. cut = [i \in Items |-> CutOffStep(cut, i)]
  <2> HIDE DEF Satisfies
  <2>1. Satisfies(cut)
    BY <1>2
  <2> QED BY <2>1 DEF Satisfies
<1> HIDE DEF cut
<1> DEFINE P == {i \in Items : item[i] \in Reviewed /\ made[i] = 0 => cut[i]}
<1>4. ASSUME NEW i \in Items, ParentsOf[i] \subseteq P, item[i] \in Reviewed, made[i] = 0
      PROVE  cut[i]
  <2>1. /\ Needs[i] # Unborn
        /\ \/ item[Needs[i]] = "rejected"
           \/ item[Needs[i]] \in Reviewed /\ made[Needs[i]] = 0
    BY <1>4 DEF ItemsOK
  <2>2. Needs[i] \in P
    BY <1>4, <2>1 DEF ParentsOf
  <2>3. CutOffStep(cut, i)
    BY <2>1, <2>2 DEF CutOffStep
  <2> QED BY <1>3, <2>3
<1>5. Items \subseteq P
  <2>1. \A i \in Items : ParentsOf[i] \subseteq P => i \in P
    BY <1>4
  <2> HIDE DEF P
  <2> QED BY <2>1, FromTheParents
<1> QED BY <1>1, <1>5 DEF ItemsOK

\* An item becomes a real row once at most, only if it was approved, and together with
\* all it needs; and it does unless something it needs was rejected: however approvals,
\* rejections, accept_all and generation runs race, for every graph of items.
THEOREM ItemsBecomeReal == BlueprintSpec => []ItemsBecomeRealOnce
<1>1. BlueprintInv => ItemsBecomeRealOnce
  BY RealOnce DEF BlueprintInv
<1> QED BY <1>1, BlueprintInvariant, PTL

\* Until two reviews overlap, every department made of a batch has a share that was worked
\* out among exactly those that were not rejected.
THEOREM CapitalIsAllocated == BlueprintSpec => []CapitalStaysAllocated
<1>1. BlueprintInv => CapitalStaysAllocated
  BY DEF BlueprintInv
<1> QED BY <1>1, BlueprintInvariant, PTL

-----------------------------------------------------------------------------
(***************************************************************************)
(* The rows of a blueprint batch, whatever labels, weights and links the   *)
(* model proposes, and however many: BatchHangsTogether.                   *)
(*                                                                         *)
(* Every row, once it is read, points at rows that are there and stay, so  *)
(* what has to be shown is that the passes over all rows settle what they  *)
(* are there for: that shares which are rounded add up to the budget with  *)
(* the rest on the first, which makes up for less than a hundredth a row;  *)
(* and that no circle of positions outlives the cuts.  A way up that ends  *)
(* still does when links are removed, so at the last cut all of them end,  *)
(* and in a circle one would go on for ever.                               *)
(***************************************************************************)

(***************************************************************************)
(* Sums that are scaled                                                    *)
(***************************************************************************)
\* The sums of a batch are those of FoldTheorems.
LEMMA TotalIsSum == ASSUME NEW w PROVE Total(w) = SumOver(w, DOMAIN w)
BY DEF Total, SumOver

\* Something to add up, of natural numbers, of which one is positive.
LEMMA SumIsPositive ==
  ASSUME NEW S, IsFiniteSet(S), NEW w, \A i \in S : w[i] \in Nat, NEW y \in S, w[y] > 0
  PROVE  SumOver(w, S) \in Nat \ {0}
<1>1. IsFiniteSet(S \ {y}) /\ \A i \in S \ {y} : w[i] \in Nat
  BY FS_Subset
<1>2. SumOver(w, S \ {y}) \in Nat
  BY ONLY <1>1, SumIsNat
<1>3. \A i \in S : w[i] \in Int
  OBVIOUS
<1>4. SumOver(w, S) = w[y] + SumOver(w, S \ {y})
  BY ONLY <1>3, SumRemove, IsFiniteSet(S), y \in S
<1> QED BY <1>2, <1>4

\* A product doubled.
LEMMA Twice == \A u, b \in Nat : u * b \in Nat /\ 2 * u * b = 2 * (u * b) /\ (2 * b) * u = 2 * (u * b)
<1>1. ASSUME NEW u \in Nat, NEW b \in Nat PROVE u * b \in Nat
  OBVIOUS
<1>2. ASSUME NEW u \in Nat, NEW b \in Nat PROVE 2 * u * b = 2 * (u * b)
  OBVIOUS
<1>3. ASSUME NEW u \in Nat, NEW b \in Nat PROVE (2 * b) * u = 2 * (u * b)
  OBVIOUS
<1> QED BY <1>1, <1>2, <1>3

\* The first of some numbers.
IsFirst(x, S) == x \in S /\ \A i \in S : (\A j \in S : i <= j) <=> i = x

\* normalize_weights spends the budget, and only the first may fall below nothing, by
\* less than there are weights.
LEMMA FairShares ==
  ASSUME NEW S, IsFiniteSet(S), NEW raw \in [S -> Nat], NEW budget \in Nat,
         NEW first \in S, IsFirst(first, S)
  PROVE  /\ NormalizeWeights(raw, budget) \in [S -> Int]
         /\ Total(NormalizeWeights(raw, budget)) = budget
         /\ \A i \in S : NormalizeWeights(raw, budget)[i] < 0 =>
              i = first /\ NormalizeWeights(raw, budget)[i] > -Cardinality(S)
<1> DEFINE used   == IF Total(raw) <= 0 THEN [i \in S |-> 1] ELSE raw
           total  == Total(used)
           scaled == [i \in S |-> (2 * used[i] * budget + total) \div (2 * total)]
           fair   == [i \in S |-> IF \A j \in S : i <= j THEN scaled[i] + (budget - Total(scaled)) ELSE scaled[i]]
<1>1. DOMAIN raw = S /\ NormalizeWeights(raw, budget) = fair
  BY DEF NormalizeWeights
<1>2. IsFiniteSet(S) /\ Cardinality(S) \in Nat
  BY FS_CardinalityType
<1>3. used \in [S -> Nat]
  OBVIOUS
<1>4. total \in Nat \ {0} /\ total = SumOver(used, S)
  <2>1. total = SumOver(used, S)
    BY <1>3, TotalIsSum
  <2>2. CASE Total(raw) <= 0
    <3>1. used = [i \in S |-> 1]
      BY <2>2
    <3>2. \A i \in S : used[i] \in Nat
      BY <3>1
    <3>3. used[first] > 0
      BY <3>1
    <3> HIDE DEF used
    <3>4. SumOver(used, S) \in Nat \ {0}
      BY ONLY <1>2, <3>2, <3>3, first \in S, SumIsPositive
    <3> QED BY <2>1, <3>4
  <2>3. CASE ~(Total(raw) <= 0)
    <3>1. total = Total(raw) /\ Total(raw) = SumOver(raw, S)
      BY <2>3, <1>1, TotalIsSum
    <3>2. SumOver(raw, S) \in Nat
      BY <1>2, SumIsNat
    <3> QED BY <2>1, <2>3, <3>1, <3>2
  <2> QED BY <2>2, <2>3
<1> HIDE DEF used, total
<1>5. ASSUME NEW i \in S
      PROVE  /\ scaled[i] \in Nat /\ used[i] \in Nat
             /\ (2 * total) * scaled[i] <= (2 * budget) * used[i] + total
             /\ (2 * total) * scaled[i] \in Int
  <2> DEFINE k == used[i] * budget
             x == 2 * used[i] * budget + total
             d == 2 * total
             q == x \div d
  <2>1. used[i] \in Nat /\ k \in Nat /\ 2 * used[i] * budget = 2 * k /\ (2 * budget) * used[i] = 2 * k
    <3>1. used[i] \in Nat
      BY <1>3
    <3> QED BY <3>1, Twice
  <2> HIDE DEF k
  <2>2. x \in Nat /\ d \in Nat \ {0} /\ x = 2 * k + total
    BY <1>4, <2>1
  <2>3. scaled[i] = q
    OBVIOUS
  <2>4. q \in Int /\ d * q <= x /\ x < d * q + d
    <3>1. x \in Int /\ d \in Nat \ {0}
      BY <2>2
    <3> HIDE DEF x, d
    <3> QED BY ONLY <3>1, Quotient
  <2>5. d * q \in Int /\ (q < 0 => d * q + d <= 0)
    <3>1. d \in Nat \ {0} /\ q \in Int
      BY <2>2, <2>4
    <3> HIDE DEF d, q
    <3>2. d * q \in Int
      BY <3>1
    <3>3. ASSUME q < 0 PROVE d * q + d <= 0
      <4>1. PICK j \in Nat : q = -1 - j
        <5>1. -1 - q \in Nat /\ q = -1 - (-1 - q)
          BY <3>1, <3>3
        <5> QED BY <5>1
      <4>2. d * q = -d - d * j /\ d * j \in Nat
        BY <3>1, <4>1
      <4> QED BY <3>1, <4>2
    <3> QED BY <3>2, <3>3
  <2>6. q \in Nat
    <3> HIDE DEF x, d, q
    <3> QED BY <2>2, <2>4, <2>5
  <2>7. d * q <= 2 * k + total
    BY <2>2, <2>4
  <2> HIDE DEF q
  <2> QED BY <2>1, <2>3, <2>5, <2>6, <2>7
<1>6. DOMAIN scaled = S
  OBVIOUS
<1> DEFINE sum == Total(scaled)
<1>7. fair = [i \in S |-> IF i = first THEN scaled[i] + (budget - sum) ELSE scaled[i]]
  BY DEF IsFirst
<1> HIDE DEF scaled
<1>8. \A i \in S : scaled[i] \in Nat
  BY <1>5
<1>9. sum = SumOver(scaled, S) /\ sum \in Nat
  <2>1. sum = SumOver(scaled, S)
    BY <1>6, TotalIsSum
  <2>2. SumOver(scaled, S) \in Nat
    BY ONLY <1>2, <1>8, SumIsNat
  <2> QED BY <2>1, <2>2
<1>10. 2 * sum <= 2 * budget + Cardinality(S)
  <2> DEFINE t2 == 2 * total
             b2 == 2 * budget
             n  == Cardinality(S)
  <2>1. t2 \in Int /\ b2 \in Int /\ total \in Int /\ n \in Nat
    BY <1>2, <1>4
  <2>2. \A i \in S : scaled[i] \in Int /\ used[i] \in Int /\ t2 * scaled[i] <= b2 * used[i] + total
    BY <1>5
  <2> HIDE DEF t2, b2
  <2>3. t2 * SumOver(scaled, S) <= b2 * SumOver(used, S) + total * Cardinality(S)
    BY ONLY <1>2, <2>1, <2>2, SumsCompare
  <2>4. t2 * sum <= b2 * total + total * n
    BY <1>4, <1>9, <2>3
  <2> HIDE DEF sum, n
  <2>5. t2 * sum = total * (2 * sum) /\ b2 * total + total * n = total * (b2 + n)
    BY <1>4, <1>9, <2>1 DEF t2, b2
  <2>6. total * (2 * sum) <= total * (b2 + n) /\ 2 * sum \in Int /\ b2 + n \in Int
    BY <1>9, <2>1, <2>4, <2>5
  <2>7. 2 * sum <= b2 + n
    BY ONLY <1>4, <2>6, Cancels
  <2> QED BY <2>7 DEF b2, n
<1> HIDE DEF sum
<1>11. fair[first] = scaled[first] + (budget - sum) /\ \A i \in S : i # first => fair[i] = scaled[i]
  BY <1>7
<1>12. fair \in [S -> Int] /\ DOMAIN fair = S /\ \A i \in S : fair[i] \in Int
  BY <1>7, <1>8, <1>9
<1> HIDE DEF fair
<1>13. Total(fair) = budget
  <2> DEFINE R == S \ {first}
  <2>1. Total(fair) = SumOver(fair, S)
    BY <1>12, TotalIsSum
  <2>2. SumOver(fair, S) = fair[first] + SumOver(fair, R)
    BY ONLY <1>2, <1>12, first \in S, SumRemove
  <2>3. SumOver(scaled, S) = scaled[first] + SumOver(scaled, R)
    <3>1. \A i \in S : scaled[i] \in Int
      BY <1>8
    <3> QED BY ONLY <1>2, <3>1, first \in S, SumRemove
  <2>4. IsFiniteSet(R) /\ (\A i \in R : fair[i] = scaled[i]) /\ (\A i \in R : scaled[i] \in Int)
    BY <1>2, <1>8, <1>11, FS_Subset
  <2> HIDE DEF R
  <2>5. SumOver(fair, R) = SumOver(scaled, R)
    BY ONLY <2>4, SumsAgree
  <2>6. SumOver(scaled, R) \in Int
    BY ONLY <2>4, SumIsInt
  <2>7. scaled[first] \in Int
    BY <1>8
  <2> QED BY <1>9, <1>11, <2>1, <2>2, <2>3, <2>5, <2>6, <2>7
<1>14. Cardinality(S) >= 1
  <2>1. Cardinality(S) # 0
    BY ONLY <1>2, FS_EmptySet, first \in S
  <2> QED BY <1>2, <2>1
<1>15. ASSUME NEW i \in S, fair[i] < 0 PROVE i = first /\ fair[i] > -Cardinality(S)
  <2>1. i = first
    BY <1>8, <1>11, <1>15
  <2>2. scaled[first] \in Nat
    BY <1>8
  <2> QED BY <1>2, <1>9, <1>10, <1>11, <1>14, <2>1, <2>2
<1> QED BY <1>1, <1>12, <1>13, <1>15

(***************************************************************************)
(* Rows, before and after a step                                           *)
(***************************************************************************)

Handles  == Labels \cup OldDepts \cup OldSeats \cup {Absent}
RowKinds == {"department", "position", "objective", "key result", "kpi", "rename", "note"}
PlanRow  == [kind : RowKinds, ref : Handles, in : Handles, up : Handles, weight : Int \cup {Absent}]

\* The labels of the rows of a kind.
LabelsOf(s, kind) == {s[i].ref : i \in {j \in DOMAIN s : s[j].kind = kind}} \ {Absent}

LabelsOnce(s) == \A i, j \in DOMAIN s : s[i].ref = s[j].ref /\ s[i].ref # Absent => i = j

\* What a row r points at is among the rows s, and of the right kind; who has a
\* label has one that is new; and only departments and KPIs have weights.
Points(s, r) ==
  /\ r.kind \in {"position", "kpi"} => r.in \in OldDepts \cup LabelsOf(s, "department")
  /\ r.kind = "objective" => r.in \in OldDepts \cup LabelsOf(s, "department") \cup {Absent}
  /\ r.kind = "position" => r.up \in OldSeats \cup LabelsOf(s, "position") \cup {Absent}
  /\ r.kind = "key result" => r.up \in LabelsOf(s, "objective")
  /\ r.kind = "kpi" => r.up \in LabelsOf(s, "key result") \cup {Absent}
  /\ r.kind = "position" => r.ref \notin OldSeats \cup {Absent}
  /\ r.kind = "objective" => r.ref # Absent
  /\ r.kind = "department" => r.in = Absent
  /\ r.kind \notin {"department", "kpi"} => r.weight = Absent
  /\ r.kind = "kpi" => r.weight \in Int /\ Room(r.in) > 0

Sound(s) == s \in Seq(PlanRow) /\ LabelsOnce(s) /\ \A i \in DOMAIN s : Points(s, s[i])

\* The operators of Plan, of the rows as they are.
LEMMA OperatorsOfRows ==
  ASSUME rows \in Seq(PlanRow)
  PROVE  /\ \A kind : Refs(kind) = LabelsOf(rows, kind)
         /\ UsedRefs = {rows[i].ref : i \in DOMAIN rows} \ {Absent}
BY DEF Refs, UsedRefs, LabelsOf, ToSet

\* A new row with a label of its own fits.
LEMMA AppendIsSound ==
  ASSUME NEW s, Sound(s), NEW r \in PlanRow, Points(s, r),
         r.ref # Absent => \A i \in DOMAIN s : s[i].ref # r.ref
  PROVE  Sound(Append(s, r))
<1> DEFINE t == Append(s, r)
           n == Len(s)
<1>1. /\ t \in Seq(PlanRow) /\ n \in Nat /\ DOMAIN s = 1 .. n /\ DOMAIN t = 1 .. n + 1
      /\ t[n + 1] = r /\ \A i \in 1 .. n : t[i] = s[i]
  BY DEF Sound
<1> HIDE DEF t, n
<1>2. LabelsOnce(t)
  BY <1>1 DEF Sound, LabelsOnce
<1>3. \A kind : LabelsOf(s, kind) \subseteq LabelsOf(t, kind)
  <2> SUFFICES ASSUME NEW kind, NEW l \in LabelsOf(s, kind) PROVE l \in LabelsOf(t, kind)
    OBVIOUS
  <2>1. PICK i \in DOMAIN s : s[i].kind = kind /\ s[i].ref = l /\ l # Absent
    BY DEF LabelsOf
  <2>2. i \in DOMAIN t /\ t[i] = s[i]
    BY <1>1, <2>1
  <2> QED BY <2>1, <2>2 DEF LabelsOf
<1>4. \A q : Points(s, q) => Points(t, q)
  BY <1>3 DEF Points
<1>5. ASSUME NEW i \in DOMAIN t PROVE Points(t, t[i])
  <2>1. CASE i = n + 1
    BY <1>1, <1>4, <2>1
  <2>2. CASE i # n + 1
    <3>1. i \in DOMAIN s /\ t[i] = s[i]
      BY <1>1, <2>2
    <3> QED BY <1>4, <3>1 DEF Sound
  <2> QED BY <2>1, <2>2
<1> QED BY <1>1, <1>2, <1>5 DEF Sound, t

\* Rows stay the same but for bosses and weights.
SameRows(s, t) ==
  /\ DOMAIN t = DOMAIN s
  /\ \A i \in DOMAIN s : t[i].kind = s[i].kind /\ t[i].ref = s[i].ref /\ t[i].in = s[i].in

\* Labels stay the same then.
LEMMA SameLabels ==
  ASSUME NEW s, NEW t, SameRows(s, t)
  PROVE  /\ \A kind : LabelsOf(t, kind) = LabelsOf(s, kind)
         /\ LabelsOnce(s) => LabelsOnce(t)
<1>1. ASSUME NEW kind PROVE LabelsOf(t, kind) = LabelsOf(s, kind)
  <2>1. {j \in DOMAIN t : t[j].kind = kind} = {j \in DOMAIN s : s[j].kind = kind}
    BY DEF SameRows
  <2>2. \A i \in DOMAIN s : t[i].ref = s[i].ref
    BY DEF SameRows
  <2> QED BY <2>1, <2>2 DEF LabelsOf
<1>2. LabelsOnce(s) => LabelsOnce(t)
  BY DEF LabelsOnce, SameRows
<1> QED BY <1>1, <1>2

\* Positions get bosses that are there, or lose them.
LEMMA BossesKeepSound ==
  ASSUME NEW s, Sound(s), NEW t \in Seq(PlanRow), SameRows(s, t),
         \A i \in DOMAIN s :
           /\ t[i].weight = s[i].weight
           /\ s[i].kind = "position" => t[i].up \in OldSeats \cup LabelsOf(s, "position") \cup {Absent}
           /\ s[i].kind \notin {"position", "department"} => t[i].up = s[i].up
  PROVE  Sound(t)
<1>1. LabelsOnce(t) /\ \A kind : LabelsOf(t, kind) = LabelsOf(s, kind)
  BY SameLabels DEF Sound
<1>2. ASSUME NEW i \in DOMAIN t PROVE Points(t, t[i])
  <2>1. /\ i \in DOMAIN s /\ t[i].kind = s[i].kind /\ t[i].ref = s[i].ref /\ t[i].in = s[i].in
        /\ t[i].weight = s[i].weight /\ Points(s, s[i])
    BY DEF SameRows, Sound
  <2>2. /\ t[i].kind = "position" => t[i].up \in OldSeats \cup LabelsOf(t, "position") \cup {Absent}
        /\ t[i].kind \in {"key result", "kpi"} => t[i].up = s[i].up
    BY <1>1, <2>1
  <2> QED BY <1>1, <2>1, <2>2 DEF Points
<1> QED BY <1>1, <1>2 DEF Sound

\* Departments and KPIs get other weights.
LEMMA WeightsKeepSound ==
  ASSUME NEW s, Sound(s), NEW t \in Seq(PlanRow), SameRows(s, t),
         \A i \in DOMAIN s :
           /\ t[i].up = s[i].up
           /\ s[i].kind = "kpi" => t[i].weight \in Int
           /\ s[i].kind \notin {"department", "kpi"} => t[i].weight = s[i].weight
  PROVE  Sound(t)
<1>1. LabelsOnce(t) /\ \A kind : LabelsOf(t, kind) = LabelsOf(s, kind)
  BY SameLabels DEF Sound
<1>2. ASSUME NEW i \in DOMAIN t PROVE Points(t, t[i])
  <2>1. /\ i \in DOMAIN s /\ t[i].kind = s[i].kind /\ t[i].ref = s[i].ref /\ t[i].in = s[i].in
        /\ t[i].up = s[i].up /\ Points(s, s[i])
    BY DEF SameRows, Sound
  <2>2. /\ t[i].kind = "kpi" => t[i].weight \in Int
        /\ t[i].kind \notin {"department", "kpi"} => t[i].weight = s[i].weight
    BY <2>1
  <2> QED BY <1>1, <2>1, <2>2 DEF Points
<1> QED BY <1>1, <1>2 DEF Sound

(***************************************************************************)
(* Shares of the capital, and weights of KPIs                              *)
(***************************************************************************)

Sharing(s) == {i \in DOMAIN s : s[i].kind = "department" /\ s[i].weight # Absent}
WeightsOf(s, group) == Total([i \in group |-> s[i].weight])

\* The rows of a group share a budget; only the first may be below nothing.
Shared(s, group, budget) ==
  /\ group # {} => WeightsOf(s, group) = budget
  /\ \A i \in group : s[i].weight \in Int /\ (s[i].weight < 0 => (\A j \in group : i <= j) /\ s[i].weight > -Len(s))

\* Shares are looked at one group at a time.
LEMMA SharedIsOfGroup ==
  ASSUME NEW s, NEW t, NEW group, NEW budget, Shared(s, group, budget),
         \A i \in group : t[i].weight = s[i].weight,
         Len(s) \in Nat, Len(t) \in Nat, Len(t) >= Len(s)
  PROVE  Shared(t, group, budget)
<1>1. [i \in group |-> t[i].weight] = [i \in group |-> s[i].weight]
  OBVIOUS
<1>2. WeightsOf(t, group) = WeightsOf(s, group)
  BY <1>1 DEF WeightsOf
<1>3. ASSUME NEW i \in group
      PROVE  /\ t[i].weight \in Int
             /\ t[i].weight < 0 => (\A j \in group : i <= j) /\ t[i].weight > -Len(t)
  <2>1. /\ t[i].weight = s[i].weight /\ s[i].weight \in Int
        /\ s[i].weight < 0 => (\A j \in group : i <= j) /\ s[i].weight > -Len(s)
    BY DEF Shared
  <2> QED BY <2>1
<1> QED BY <1>2, <1>3 DEF Shared

\* A group of rows with natural weights, brought to a budget.
LEMMA RescaledIsShared ==
  ASSUME NEW s \in Seq(PlanRow), NEW group \in SUBSET (DOMAIN s), group # {}, NEW budget \in Nat,
         \A i \in group : s[i].weight \in Nat
  PROVE  LET t == Rescaled(s, group, budget) IN
         /\ t \in Seq(PlanRow) /\ Len(t) = Len(s) /\ SameRows(s, t)
         /\ \A i \in DOMAIN s : t[i].up = s[i].up /\ (i \notin group => t[i] = s[i])
         /\ Shared(t, group, budget)
<1> DEFINE n    == Len(s)
           raw  == [i \in group |-> s[i].weight]
           fair == NormalizeWeights(raw, budget)
           t    == [i \in DOMAIN s |-> IF i \in group THEN [s[i] EXCEPT !.weight = fair[i]] ELSE s[i]]
<1>1. Rescaled(s, group, budget) = t
  BY DEF Rescaled
<1>2. n \in Nat /\ DOMAIN s = 1 .. n /\ \A i \in 1 .. n : s[i] \in PlanRow
  OBVIOUS
<1>3. IsFiniteSet(group) /\ Cardinality(group) \in Nat /\ Cardinality(group) <= n
  <2>1. IsFiniteSet(1 .. n) /\ Cardinality(1 .. n) = n
    <3>1. IsFiniteSet(1 .. n)
      BY FS_Interval
    <3>2. Cardinality(1 .. n) = n
      <4>1. 1 \in Int /\ n \in Int /\ 1 <= n + 1
        BY <1>2
      <4>2. Cardinality(1 .. n) = IF 1 <= n THEN n - 1 + 1 ELSE 0
        BY <1>2, FS_Interval
      <4> QED BY <1>2, <4>2
    <3> QED BY <3>1, <3>2
  <2> DEFINE N == 1 .. n
  <2>2. group \in SUBSET N /\ IsFiniteSet(N) /\ Cardinality(N) = n
    BY <1>2, <2>1
  <2> HIDE DEF N, n
  <2>3. IsFiniteSet(group) /\ Cardinality(group) <= Cardinality(N)
    BY ONLY <2>2, FS_Subset
  <2>4. Cardinality(group) \in Nat
    BY ONLY <2>3, FS_CardinalityType
  <2> QED BY <2>2, <2>3, <2>4
<1>4. PICK first \in group : IsFirst(first, group)
  <2>1. group \in SUBSET (0 .. n) /\ n \in Nat /\ group # {}
    BY <1>2
  <2>2. PICK x \in group : \A y \in group : x <= y
    BY ONLY <2>1, LeastIsOne
  <2>3. ASSUME NEW i \in group PROVE (\A j \in group : i <= j) <=> i = x
    <3>1. i \in Int /\ x \in Int
      BY <2>1
    <3>2. ASSUME \A j \in group : i <= j PROVE i = x
      BY <2>2, <3>1, <3>2
    <3> QED BY <2>2, <3>2
  <2> QED BY <2>3 DEF IsFirst
<1>5. raw \in [group -> Nat] /\ budget \in Nat /\ first \in group
  OBVIOUS
<1> HIDE DEF raw
<1>6. /\ fair \in [group -> Int] /\ Total(fair) = budget
      /\ \A i \in group : fair[i] < 0 => i = first /\ fair[i] > -Cardinality(group)
  <2>1. IsFiniteSet(group)
    BY <1>3
  <2> QED BY ONLY <1>4, <1>5, <2>1, FairShares
<1> HIDE DEF fair
<1>7. \A i \in 1 .. n :
        /\ t[i] \in PlanRow /\ t[i].kind = s[i].kind /\ t[i].ref = s[i].ref /\ t[i].in = s[i].in
        /\ t[i].up = s[i].up /\ (i \notin group => t[i] = s[i])
        /\ i \in group => t[i].weight = fair[i]
  <2> SUFFICES ASSUME NEW i \in 1 .. n
               PROVE  /\ t[i] \in PlanRow /\ t[i].kind = s[i].kind /\ t[i].ref = s[i].ref /\ t[i].in = s[i].in
                      /\ t[i].up = s[i].up /\ (i \notin group => t[i] = s[i])
                      /\ i \in group => t[i].weight = fair[i]
    OBVIOUS
  <2>1. s[i] \in PlanRow /\ t[i] = IF i \in group THEN [s[i] EXCEPT !.weight = fair[i]] ELSE s[i]
    BY <1>2
  <2>2. CASE i \in group
    <3>1. fair[i] \in Int
      BY <1>6, <2>2
    <3> QED BY <2>1, <2>2, <3>1 DEF PlanRow
  <2>3. CASE i \notin group
    BY <2>1, <2>3
  <2> QED BY <2>2, <2>3
<1>8. DOMAIN t = 1 .. n
  BY <1>2
<1>9. t \in Seq(PlanRow) /\ Len(t) = n
  <2>1. t \in [1 .. n -> PlanRow]
    BY <1>2, <1>7
  <2> QED BY <1>2, <2>1
<1> HIDE DEF t
<1>10. SameRows(s, t)
  BY <1>2, <1>7, <1>8 DEF SameRows
<1>11. Shared(t, group, budget)
  <2>1. [i \in group |-> t[i].weight] = fair
    BY <1>2, <1>6, <1>7
  <2>2. WeightsOf(t, group) = budget
    BY <1>6, <2>1 DEF WeightsOf
  <2>3. ASSUME NEW i \in group
        PROVE  t[i].weight \in Int /\ (t[i].weight < 0 => (\A j \in group : i <= j) /\ t[i].weight > -Len(t))
    <3>1. t[i].weight = fair[i] /\ fair[i] \in Int
      BY <1>2, <1>6, <1>7
    <3>2. ASSUME fair[i] < 0 PROVE (\A j \in group : i <= j) /\ fair[i] > -Len(t)
      <4>1. i = first /\ fair[i] > -Cardinality(group)
        BY <1>6, <3>2
      <4>2. fair[i] > -n
        BY <1>2, <1>3, <3>1, <4>1
      <4> QED BY <1>4, <1>9, <4>1, <4>2 DEF IsFirst
    <3> QED BY <3>1, <3>2
  <2> QED BY <2>2, <2>3 DEF Shared
<1>12. \A i \in DOMAIN s : t[i].up = s[i].up /\ (i \notin group => t[i] = s[i])
  BY <1>2, <1>7
<1> QED BY <1>1, <1>9, <1>10, <1>11, <1>12

(***************************************************************************)
(* Reporting lines                                                         *)
(***************************************************************************)

\* Nobody reports in a circle of new positions.
NoCircles(s) ==
  \A c \in SUBSET {i \in DOMAIN s : s[i].kind = "position"} :
    c # {} => \E i \in c : s[i].up \notin {s[j].ref : j \in c}

\* Who the boss of a label is, if it is one of a new position.
LEMMA BossOfLabel ==
  ASSUME NEW t, Sound(t), NEW l
  PROVE  /\ NewBoss(t, l) \in Handles
         /\ \A j \in DOMAIN t : t[j].kind = "position" /\ t[j].ref = l =>
              NewBoss(t, l) = IF t[j].up \in OldSeats THEN Absent ELSE t[j].up
         /\ (\A j \in DOMAIN t : t[j].kind = "position" => t[j].ref # l) => NewBoss(t, l) = Absent
<1> DEFINE of   == {j \in DOMAIN t : t[j].kind = "position" /\ t[j].ref = l}
           x    == CHOOSE j \in of : TRUE
           boss == t[x].up
<1>1. NewBoss(t, l) = IF of = {} \/ boss \in OldSeats THEN Absent ELSE boss
  BY DEF NewBoss
<1>2. CASE of = {}
  BY <1>1, <1>2 DEF Handles
<1>3. CASE of # {}
  <2>1. x \in of
    BY <1>3
  <2>2. x \in DOMAIN t /\ t[x] \in PlanRow /\ t[x].kind = "position" /\ t[x].ref = l
    BY <2>1 DEF Sound
  <2> HIDE DEF x
  <2>3. boss \in Handles /\ Absent \in Handles
    BY <2>2 DEF PlanRow, Handles
  <2>4. l # Absent
    BY <2>2 DEF Sound, Points
  <2>5. \A j \in DOMAIN t : t[j].ref = l => j = x
    BY <2>2, <2>4 DEF Sound, LabelsOnce
  <2> QED BY <1>1, <1>3, <2>2, <2>3, <2>5
<1> QED BY <1>2, <1>3

\* The way up from a position, as far as it is followed.
LEMMA WayUp ==
  ASSUME NEW t, Sound(t), NEW i \in DOMAIN t
  PROVE  \E up \in [0 .. MaxReportingDepth -> Handles] :
           /\ up[0] = t[i].ref /\ FarAbove(t, i) = up[MaxReportingDepth]
           /\ \A n \in 1 .. MaxReportingDepth : up[n] = NewBoss(t, up[n - 1])
<1>a. t[i].ref \in Handles
  <2>1. t \in Seq(PlanRow)
    BY DEF Sound
  <2>2. t[i] \in PlanRow
    BY <2>1
  <2> QED BY <2>2 DEF PlanRow
<1> DEFINE D == MaxReportingDepth
           I == 0 .. D
           Step(g) == [n \in I |-> IF n = 0 THEN t[i].ref ELSE NewBoss(t, g[n - 1])]
           Way(g) == g = Step(g)
<1>0. D \in Nat \ {0}
  BY PlanAssumption
<1>1. FarAbove(t, i) = (CHOOSE g : Way(g))[D]
  BY DEF FarAbove
<1>2. \E g \in [I -> Handles] : Way(g)
  <2> DEFINE G == [g \in [I -> Handles] |-> Step(g)]
  <2>1. t[i].ref \in Handles
    BY <1>a
  <2>2. G \in [[I -> Handles] -> [I -> Handles]]
    BY <2>1, BossOfLabel
  <2>3. ASSUME NEW g \in [I -> Handles], NEW h \in [I -> Handles], NEW n \in I,
               \A j \in OneBefore(D)[n] : g[j] = h[j]
        PROVE  G[g][n] = G[h][n]
    BY <2>3 DEF OneBefore
  <2>4. Acyclic(I, OneBefore(D))
    BY <1>0, NumbersAreOrdered
  <2>5. Handles # {}
    BY DEF Handles
  <2> HIDE DEF G, I
  <2>6. Recurs(I, Handles, OneBefore(D), G)
    BY <2>2, <2>3 DEF Recurs
  <2>7. \E g \in [I -> Handles] : g = G[g]
    BY ONLY <2>4, <2>5, <2>6, RecursiveFunction
  <2> QED BY <2>7 DEF G
<1>3. PICK f \in [I -> Handles] : Way(f)
  BY <1>2
<1> DEFINE up == CHOOSE g : Way(g)
<1>4. Way(up)
  <2> HIDE DEF Way
  <2> QED BY <1>3
<1>5. up = Step(up)
  BY <1>4
<1> HIDE DEF up, Way
<1>6. up[0] = t[i].ref /\ \A n \in 1 .. D : up[n] = NewBoss(t, up[n - 1])
  BY <1>0, <1>5
<1>7. up \in [I -> Handles]
  <2>1. t[i].ref \in Handles
    BY <1>a
  <2>2. \A n \in I : Step(up)[n] \in Handles
    BY <2>1, BossOfLabel
  <2>3. Step(up) \in [I -> Handles]
    BY <2>2
  <2> QED BY <1>5, <2>3
<1>8. FarAbove(t, i) = up[D]
  BY <1>1 DEF up
<1> QED BY <1>6, <1>7, <1>8

\* If every way up ends there is no circle: in one it would go on for ever.
LEMMA EndsMeanNoCircles ==
  ASSUME NEW t, Sound(t), \A i \in DOMAIN t : t[i].kind = "position" => FarAbove(t, i) = Absent
  PROVE  NoCircles(t)
<1> SUFFICES ASSUME NEW c \in SUBSET {i \in DOMAIN t : t[i].kind = "position"}, c # {},
                    \A i \in c : t[i].up \in {t[j].ref : j \in c}
             PROVE  FALSE
  BY DEF NoCircles
<1> DEFINE D == MaxReportingDepth
           inside == {t[j].ref : j \in c}
<1>1. PICK i \in c : TRUE
  OBVIOUS
<1>2. i \in DOMAIN t /\ FarAbove(t, i) = Absent
  BY <1>1
<1>3. PICK up \in [0 .. D -> Handles] :
        /\ up[0] = t[i].ref /\ FarAbove(t, i) = up[D]
        /\ \A n \in 1 .. D : up[n] = NewBoss(t, up[n - 1])
  BY <1>2, WayUp
<1>4. \A j \in c : t[j].ref \notin OldSeats \cup {Absent}
  BY DEF Sound, Points
<1>5. ASSUME NEW l \in inside PROVE NewBoss(t, l) \in inside
  <2>1. PICK j \in c : l = t[j].ref
    OBVIOUS
  <2>2. NewBoss(t, l) = IF t[j].up \in OldSeats THEN Absent ELSE t[j].up
    BY <2>1, BossOfLabel
  <2>3. t[j].up \in inside /\ t[j].up \notin OldSeats
    BY <1>4
  <2> QED BY <2>2, <2>3
<1>6. D \in Nat
  BY PlanAssumption
<1> DEFINE P == {n \in 0 .. D : up[n] \in inside}
<1>7. 0 \in P
  BY <1>1, <1>3, <1>6
<1>8. ASSUME NEW n \in 0 .. (D - 1), n \in P PROVE n + 1 \in P
  <2>1. n + 1 \in 1 .. D /\ (n + 1) - 1 = n /\ n + 1 \in 0 .. D
    BY <1>6
  <2>2. up[n] \in inside
    BY <1>8
  <2>3. up[n + 1] = NewBoss(t, up[n])
    BY <1>3, <2>1
  <2> HIDE DEF inside
  <2> QED BY <1>5, <2>1, <2>2, <2>3
<1> HIDE DEF P
<1>9. \A n \in 0 .. D : n \in P
  BY ONLY <1>6, <1>7, <1>8, UpToThere
<1>10. up[D] \in inside
  <2>1. D \in P
    BY <1>6, <1>9
  <2> QED BY <2>1 DEF P
<1> QED BY <1>2, <1>3, <1>4, <1>10

\* Rows are the same, but some positions have lost their bosses.
Fewer(s, t) ==
  /\ t \in Seq(PlanRow) /\ SameRows(s, t)
  /\ \A i \in DOMAIN s :
       /\ t[i].weight = s[i].weight
       /\ t[i].up = s[i].up \/ (s[i].kind = "position" /\ t[i].up = Absent)

\* Rows with fewer bosses fit in as well.
LEMMA FewerIsSound ==
  ASSUME NEW s, Sound(s), NEW t, Fewer(s, t)
  PROVE  Sound(t)
<1>1. ASSUME NEW i \in DOMAIN s
      PROVE  /\ t[i].weight = s[i].weight
             /\ s[i].kind = "position" => t[i].up \in OldSeats \cup LabelsOf(s, "position") \cup {Absent}
             /\ s[i].kind \notin {"position", "department"} => t[i].up = s[i].up
  <2>1. t[i].weight = s[i].weight /\ (t[i].up = s[i].up \/ (s[i].kind = "position" /\ t[i].up = Absent))
    BY DEF Fewer
  <2>2. s[i].kind = "position" => s[i].up \in OldSeats \cup LabelsOf(s, "position") \cup {Absent}
    BY DEF Sound, Points
  <2> QED BY <2>1, <2>2
<1>2. t \in Seq(PlanRow) /\ SameRows(s, t)
  BY DEF Fewer
<1> QED BY <1>1, <1>2, BossesKeepSound

\* A way up that ends does so when links are removed.
LEMMA FewerBosses ==
  ASSUME NEW s, Sound(s), NEW t, Fewer(s, t), NEW i \in DOMAIN s
  PROVE  FarAbove(t, i) \in {FarAbove(s, i), Absent}
<1> DEFINE D == MaxReportingDepth
<1>1. Sound(t) /\ i \in DOMAIN t /\ t[i].ref = s[i].ref
  BY FewerIsSound DEF Fewer, SameRows
<1>2. PICK f \in [0 .. D -> Handles] :
        /\ f[0] = s[i].ref /\ FarAbove(s, i) = f[D]
        /\ \A n \in 1 .. D : f[n] = NewBoss(s, f[n - 1])
  BY WayUp
<1>3. PICK g \in [0 .. D -> Handles] :
        /\ g[0] = t[i].ref /\ FarAbove(t, i) = g[D]
        /\ \A n \in 1 .. D : g[n] = NewBoss(t, g[n - 1])
  BY <1>1, WayUp
<1>4. NewBoss(t, Absent) = Absent
  <2>1. \A j \in DOMAIN t : t[j].kind = "position" => t[j].ref # Absent
    BY <1>1 DEF Sound, Points
  <2> QED BY <1>1, <2>1, BossOfLabel
<1>5. ASSUME NEW l PROVE NewBoss(t, l) \in {NewBoss(s, l), Absent}
  <2>1. CASE \E j \in DOMAIN s : s[j].kind = "position" /\ s[j].ref = l
    <3>1. PICK j \in DOMAIN s : s[j].kind = "position" /\ s[j].ref = l
      BY <2>1
    <3>2. j \in DOMAIN t /\ t[j].kind = "position" /\ t[j].ref = l /\ (t[j].up = s[j].up \/ t[j].up = Absent)
      BY <3>1 DEF Fewer, SameRows
    <3>3. NewBoss(s, l) = IF s[j].up \in OldSeats THEN Absent ELSE s[j].up
      BY <3>1, BossOfLabel
    <3>4. NewBoss(t, l) = IF t[j].up \in OldSeats THEN Absent ELSE t[j].up
      BY <1>1, <3>2, BossOfLabel
    <3> QED BY <3>2, <3>3, <3>4
  <2>2. CASE \A j \in DOMAIN s : s[j].kind = "position" => s[j].ref # l
    <3>1. \A j \in DOMAIN t : t[j].kind = "position" => t[j].ref # l
      BY <2>2 DEF Fewer, SameRows
    <3> QED BY <1>1, <3>1, BossOfLabel
  <2> QED BY <2>1, <2>2
<1>6. D \in Nat
  BY PlanAssumption
<1> DEFINE P == {n \in 0 .. D : g[n] \in {f[n], Absent}}
<1>7. 0 \in P
  BY <1>1, <1>2, <1>3, <1>6
<1>8. ASSUME NEW n \in 0 .. (D - 1), n \in P PROVE n + 1 \in P
  <2>1. n + 1 \in 1 .. D /\ (n + 1) - 1 = n /\ n + 1 \in 0 .. D
    BY <1>6
  <2>2. g[n + 1] = NewBoss(t, g[n]) /\ f[n + 1] = NewBoss(s, f[n])
    BY <1>2, <1>3, <2>1
  <2>3. g[n] = f[n] \/ g[n] = Absent
    BY <1>8
  <2>4. g[n + 1] \in {f[n + 1], Absent}
    BY <1>4, <1>5, <2>2, <2>3
  <2> QED BY <2>1, <2>4
<1> HIDE DEF P
<1>9. \A n \in 0 .. D : n \in P
  BY ONLY <1>6, <1>7, <1>8, UpToThere
<1>10. D \in P
  BY <1>6, <1>9
<1>11. g[D] \in {f[D], Absent}
  BY <1>10 DEF P
<1> QED BY <1>2, <1>3, <1>11

\* Nobody is above a position without a boss.
LEMMA NobodyAbove ==
  ASSUME NEW t, Sound(t), NEW i \in DOMAIN t, t[i].kind = "position", t[i].up = Absent
  PROVE  FarAbove(t, i) = Absent
<1> DEFINE D == MaxReportingDepth
<1>1. PICK g \in [0 .. D -> Handles] :
        /\ g[0] = t[i].ref /\ FarAbove(t, i) = g[D]
        /\ \A n \in 1 .. D : g[n] = NewBoss(t, g[n - 1])
  BY WayUp
<1>2. NewBoss(t, Absent) = Absent
  <2>1. \A j \in DOMAIN t : t[j].kind = "position" => t[j].ref # Absent
    BY DEF Sound, Points
  <2> QED BY <2>1, BossOfLabel
<1>3. NewBoss(t, t[i].ref) = Absent
  <2>1. NewBoss(t, t[i].ref) = IF t[i].up \in OldSeats THEN Absent ELSE t[i].up
    BY BossOfLabel
  <2> QED BY <2>1
<1>4. D \in Nat \ {0}
  BY PlanAssumption
<1> DEFINE P == {n \in 0 .. D : n = 0 \/ g[n] = Absent}
<1>5. 0 \in P
  BY <1>4
<1>6. ASSUME NEW n \in 0 .. (D - 1), n \in P PROVE n + 1 \in P
  <2>1. n + 1 \in 1 .. D /\ (n + 1) - 1 = n /\ n + 1 \in 0 .. D
    BY <1>4
  <2>2. g[n + 1] = NewBoss(t, g[n])
    BY <1>1, <2>1
  <2>3. n = 0 \/ g[n] = Absent
    BY <1>6
  <2>4. CASE n = 0
    BY <1>1, <1>3, <2>1, <2>2, <2>4
  <2>5. CASE g[n] = Absent
    BY <1>2, <2>1, <2>2, <2>5
  <2> QED BY <2>3, <2>4, <2>5
<1> HIDE DEF P
<1>7. \A n \in 0 .. D : n \in P
  <2>1. D \in Nat
    BY <1>4
  <2> QED BY ONLY <2>1, <1>5, <1>6, UpToThere
<1>8. D \in P /\ D # 0
  BY <1>4, <1>7
<1>9. g[D] = Absent
  BY <1>8 DEF P
<1> QED BY <1>1, <1>9

\* _cut_reporting_loops leaves no circle, and takes nothing but bosses.
LEMMA LoopsAreCut ==
  ASSUME NEW s, Sound(s)
  PROVE  Fewer(s, CutReportingLoops(s)) /\ NoCircles(CutReportingLoops(s))
<1> DEFINE n == Len(s)
           I == 0 .. n
           V == [1 .. n -> PlanRow]
           Step(g) == [k \in I |->
             IF k = 0 THEN s
             ELSE IF s[k].kind = "position" /\ FarAbove(g[k - 1], k) # Absent
               THEN [g[k - 1] EXCEPT ![k].up = Absent]
             ELSE g[k - 1]]
           Cuts(g) == g = Step(g)
<1>1. n \in Nat /\ s \in Seq(PlanRow) /\ DOMAIN s = 1 .. n /\ s \in V
  BY DEF Sound
<1>2. CutReportingLoops(s) = (CHOOSE g : Cuts(g))[n]
  BY DEF CutReportingLoops
<1>3. ASSUME NEW t \in V, NEW k \in 1 .. n PROVE [t EXCEPT ![k].up = Absent] \in V
  <2>1. t[k] \in PlanRow
    OBVIOUS
  <2>2. [t[k] EXCEPT !.up = Absent] \in PlanRow
    BY <2>1 DEF PlanRow, Handles
  <2> QED BY <2>2
<1>4. ASSUME NEW g \in [I -> V], NEW k \in I
      PROVE  Step(g)[k] \in V
  <2>1. CASE k = 0
    BY <1>1, <2>1
  <2>2. CASE k # 0
    <3>1. k \in 1 .. n /\ k - 1 \in I /\ g[k - 1] \in V
      BY <1>1, <2>2
    <3>2. [g[k - 1] EXCEPT ![k].up = Absent] \in V
      BY <1>3, <3>1
    <3> HIDE DEF V
    <3> QED BY <2>2, <3>1, <3>2
  <2> QED BY <2>1, <2>2
<1>5. \E g \in [I -> V] : Cuts(g)
  <2> DEFINE G == [g \in [I -> V] |-> Step(g)]
  <2>1. \A g \in [I -> V] : Step(g) \in [I -> V]
    <3> HIDE DEF V
    <3> QED BY <1>4
  <2>2. G \in [[I -> V] -> [I -> V]]
    <3> HIDE DEF V, Step
    <3> QED BY <2>1
  <2>3. ASSUME NEW g \in [I -> V], NEW h \in [I -> V], NEW k \in I,
               \A j \in OneBefore(n)[k] : g[j] = h[j]
        PROVE  G[g][k] = G[h][k]
    <3>1. k # 0 => k - 1 \in OneBefore(n)[k]
      BY DEF OneBefore
    <3>2. k # 0 => g[k - 1] = h[k - 1]
      BY <2>3, <3>1
    <3>3. Step(g)[k] = Step(h)[k]
      BY <3>2
    <3> HIDE DEF Step, V
    <3> QED BY <3>3
  <2>4. Acyclic(I, OneBefore(n))
    BY <1>1, NumbersAreOrdered
  <2>5. V # {}
    BY <1>1
  <2> HIDE DEF G, I, V
  <2>6. Recurs(I, V, OneBefore(n), G)
    BY <2>2, <2>3 DEF Recurs
  <2>7. \E g \in [I -> V] : g = G[g]
    BY ONLY <2>4, <2>5, <2>6, RecursiveFunction
  <2> HIDE DEF Step
  <2> QED BY <2>7 DEF G
<1> DEFINE cut == CHOOSE g : Cuts(g)
<1>6. Cuts(cut)
  <2> HIDE DEF Cuts, V
  <2> QED BY <1>5
<1>7. cut = Step(cut)
  BY <1>6
<1> HIDE DEF cut, Cuts
<1>8. /\ cut[0] = s
      /\ \A k \in 1 .. n :
           cut[k] = IF s[k].kind = "position" /\ FarAbove(cut[k - 1], k) # Absent
                      THEN [cut[k - 1] EXCEPT ![k].up = Absent] ELSE cut[k - 1]
  <2>1. cut[0] = Step(cut)[0] /\ \A k \in 1 .. n : cut[k] = Step(cut)[k]
    <3> HIDE DEF Step
    <3> QED BY <1>7
  <2>2. Step(cut)[0] = s
    BY <1>1
  <2>3. ASSUME NEW k \in 1 .. n
        PROVE  cut[k] = IF s[k].kind = "position" /\ FarAbove(cut[k - 1], k) # Absent
                          THEN [cut[k - 1] EXCEPT ![k].up = Absent] ELSE cut[k - 1]
    <3>1. k \in I /\ k # 0
      BY <1>1
    <3>2. Step(cut)[k] = IF s[k].kind = "position" /\ FarAbove(cut[k - 1], k) # Absent
                           THEN [cut[k - 1] EXCEPT ![k].up = Absent] ELSE cut[k - 1]
      BY <3>1
    <3> QED BY <2>1, <3>2
  <2> HIDE DEF Step
  <2> QED BY <2>1, <2>2, <2>3
<1> HIDE DEF Step
<1> DEFINE Ends(k, i) == s[i].kind = "position" => FarAbove(cut[k], i) = Absent
           P == {k \in 0 .. n : Fewer(s, cut[k]) /\ \A i \in 1 .. k : Ends(k, i)}
<1>9. 0 \in P
  <2>1. Fewer(s, s)
    BY <1>1 DEF Fewer, SameRows
  <2> QED BY <1>1, <1>8, <2>1
<1>10. ASSUME NEW k \in 0 .. (n - 1), k \in P PROVE k + 1 \in P
  <2> DEFINE x == k + 1
             t == cut[k]
             u == cut[x]
  <2>1. x \in 1 .. n /\ x - 1 = k /\ x \in 0 .. n /\ x \in DOMAIN s
    BY <1>1
  <2>2. Fewer(s, t) /\ Sound(t) /\ t \in V
    <3>1. Fewer(s, t)
      BY <1>10
    <3>2. t \in Seq(PlanRow) /\ DOMAIN t = 1 .. n
      BY <1>1, <3>1 DEF Fewer, SameRows
    <3> QED BY <1>1, <3>1, <3>2, FewerIsSound
  <2>3. u = IF s[x].kind = "position" /\ FarAbove(t, x) # Absent THEN [t EXCEPT ![x].up = Absent] ELSE t
    BY <1>8, <2>1
  <2>4. \A i \in 1 .. k : s[i].kind = "position" => FarAbove(t, i) = Absent
    BY <1>10
  <2> HIDE DEF P, t, u, x
  <2>5. CASE s[x].kind = "position" /\ FarAbove(t, x) # Absent
    <3>1. u = [t EXCEPT ![x].up = Absent]
      BY <2>3, <2>5
    <3>2. u \in V
      BY <1>3, <2>1, <2>2, <3>1
    <3>3. u \in Seq(PlanRow) /\ DOMAIN u = 1 .. n /\ DOMAIN t = 1 .. n
      BY <1>1, <2>2, <3>2
    <3>4. ASSUME NEW i \in 1 .. n
          PROVE  /\ u[i].kind = t[i].kind /\ u[i].ref = t[i].ref /\ u[i].in = t[i].in /\ u[i].weight = t[i].weight
                 /\ u[i].up = IF i = x THEN Absent ELSE t[i].up
      <4>1. t[i] \in PlanRow
        BY <2>2
      <4>2. u[i] = IF i = x THEN [t[i] EXCEPT !.up = Absent] ELSE t[i]
        BY <2>1, <2>2, <3>1
      <4> QED BY <4>1, <4>2 DEF PlanRow
    <3>5. t[x].kind = "position"
      BY <2>1, <2>2, <2>5 DEF Fewer, SameRows
    <3>6. Fewer(t, u)
      <4>1. SameRows(t, u)
        BY <3>3, <3>4 DEF SameRows
      <4>2. \A i \in DOMAIN t : /\ u[i].weight = t[i].weight
                                /\ u[i].up = t[i].up \/ (t[i].kind = "position" /\ u[i].up = Absent)
        BY <3>3, <3>4, <3>5
      <4> QED BY <3>3, <4>1, <4>2 DEF Fewer
    <3>7. Fewer(s, u)
      <4>1. SameRows(s, u)
        BY <2>2, <3>6 DEF Fewer, SameRows
      <4>2. ASSUME NEW i \in DOMAIN s
            PROVE  /\ u[i].weight = s[i].weight
                   /\ u[i].up = s[i].up \/ (s[i].kind = "position" /\ u[i].up = Absent)
        <5>1. i \in DOMAIN t /\ t[i].kind = s[i].kind
          BY <2>2 DEF Fewer, SameRows
        <5>2. /\ t[i].weight = s[i].weight
              /\ t[i].up = s[i].up \/ (s[i].kind = "position" /\ t[i].up = Absent)
          BY <2>2 DEF Fewer
        <5>3. /\ u[i].weight = t[i].weight
              /\ u[i].up = t[i].up \/ (t[i].kind = "position" /\ u[i].up = Absent)
          BY <3>6, <5>1 DEF Fewer
        <5> QED BY <5>1, <5>2, <5>3
      <4> QED BY <3>3, <4>1, <4>2 DEF Fewer
    <3>8. Sound(u) /\ x \in DOMAIN u
      BY <2>1, <3>3, <3>7, FewerIsSound
    <3>9. FarAbove(u, x) = Absent
      <4>1. u[x].kind = "position" /\ u[x].up = Absent
        BY <2>1, <3>4, <3>5
      <4> QED BY <3>8, <4>1, NobodyAbove
    <3>10. \A i \in 1 .. x : s[i].kind = "position" => FarAbove(u, i) = Absent
      <4> SUFFICES ASSUME NEW i \in 1 .. x, s[i].kind = "position" PROVE FarAbove(u, i) = Absent
        OBVIOUS
      <4>1. CASE i = x
        BY <3>9, <4>1
      <4>2. CASE i # x
        <5>1. i \in 1 .. k /\ i \in DOMAIN t
          BY <2>1, <3>3, <4>2 DEF x
        <5>2. FarAbove(t, i) = Absent
          BY <2>4, <5>1
        <5>3. FarAbove(u, i) \in {FarAbove(t, i), Absent}
          BY <2>2, <3>6, <5>1, FewerBosses
        <5> QED BY <5>2, <5>3
      <4> QED BY <4>1, <4>2
    <3> QED BY <2>1, <3>7, <3>10 DEF P, u, x
  <2>6. CASE ~(s[x].kind = "position" /\ FarAbove(t, x) # Absent)
    <3>1. u = t
      BY <2>3, <2>6
    <3>2. \A i \in 1 .. x : s[i].kind = "position" => FarAbove(u, i) = Absent
      <4> SUFFICES ASSUME NEW i \in 1 .. x, s[i].kind = "position" PROVE FarAbove(u, i) = Absent
        OBVIOUS
      <4>1. CASE i = x
        BY <2>6, <3>1, <4>1
      <4>2. CASE i # x
        <5>1. i \in 1 .. k
          BY <2>1, <4>2 DEF x
        <5> QED BY <2>4, <3>1, <5>1
      <4> QED BY <4>1, <4>2
    <3> QED BY <2>1, <2>2, <3>1, <3>2 DEF P, u, x
  <2> QED BY <2>5, <2>6
<1> HIDE DEF P
<1>11. \A k \in 0 .. n : k \in P
  BY ONLY <1>1, <1>9, <1>10, UpToThere
<1>12. n \in P
  BY <1>1, <1>11
<1> DEFINE t == cut[n]
<1>13. Fewer(s, t) /\ \A i \in 1 .. n : s[i].kind = "position" => FarAbove(t, i) = Absent
  BY <1>12 DEF P
<1>14. CutReportingLoops(s) = t
  BY <1>2 DEF cut
<1> HIDE DEF t
<1>15. NoCircles(t)
  <2>1. Sound(t)
    BY <1>13, FewerIsSound
  <2>2. \A i \in DOMAIN t : t[i].kind = "position" => FarAbove(t, i) = Absent
    BY <1>1, <1>13 DEF Fewer, SameRows
  <2> QED BY <2>1, <2>2, EndsMeanNoCircles
<1> QED BY <1>13, <1>14, <1>15

(***************************************************************************)
(* The invariant                                                           *)
(***************************************************************************)

Stages == {"departments", "positions", "bosses", "objectives", "kpis", "cleanups", "saved"}
Early  == {"departments", "positions", "bosses"}
Weighed == {"cleanups", "saved"}

Split(s)  == Shared(s, Sharing(s), Hundred)
Filled(s) == \A i \in DOMAIN s : s[i].kind = "kpi" => Shared(s, Group(s, s[i].in), Room(s[i].in))

\* The rows s at a stage: what has been proposed so far fits together, and what a stage
\* settles stays so.
Staged(at, s) ==
  /\ at \in Stages /\ Sound(s)
  /\ at \in Early => \A i \in DOMAIN s : s[i].kind \in {"department", "position"}
  /\ at = "departments" => \A i \in Sharing(s) : s[i].weight \in Nat
  /\ at # "departments" => Split(s)
  /\ at \notin Weighed => \A i \in DOMAIN s : s[i].kind = "kpi" => s[i].weight \in Nat
  /\ at \in Weighed => Filled(s)
  /\ at \notin Early => NoCircles(s)

\* Labels of what is there already mean just that.
AliasesMean ==
  \A k \in DOMAIN alias :
    /\ k[1] = "department" => alias[k] \in OldDepts
    /\ k[1] = "position" => alias[k] \in OldSeats

PlanInvariant == Staged(stage, rows) /\ AliasesMean

\* What departments share depends on their rows alone.
LEMMA SameSharing ==
  ASSUME NEW s \in Seq(PlanRow), NEW t \in Seq(PlanRow), SameRows(s, t),
         \A i \in DOMAIN s : s[i].kind = "department" => t[i].weight = s[i].weight
  PROVE  /\ Sharing(t) = Sharing(s) /\ Len(t) = Len(s)
         /\ Split(s) => Split(t)
<1>1. Sharing(t) = Sharing(s)
  <2>1. DOMAIN t = DOMAIN s /\ \A i \in DOMAIN s : t[i].kind = s[i].kind
    BY DEF SameRows
  <2> QED BY <2>1 DEF Sharing
<1>2. Len(t) = Len(s) /\ Len(s) \in Nat
  BY DEF SameRows
<1>3. ASSUME Split(s) PROVE Split(t)
  <2>1. \A i \in Sharing(s) : t[i].weight = s[i].weight
    BY DEF Sharing
  <2>2. Len(t) \in Nat /\ Len(t) >= Len(s)
    BY <1>2
  <2>3. Shared(s, Sharing(s), Hundred)
    BY <1>3 DEF Split
  <2> DEFINE G == Sharing(s)
  <2> HIDE DEF G
  <2>4. Shared(t, G, Hundred)
    BY <1>2, <2>1, <2>2, <2>3, SharedIsOfGroup DEF G
  <2> QED BY <1>1, <2>4 DEF Split, G
<1> QED BY <1>1, <1>2, <1>3

\* A new row that fits in at its stage.
LEMMA AppendIsStaged ==
  ASSUME NEW at, NEW s, Staged(at, s), NEW r \in PlanRow, Points(s, r),
         r.ref # Absent => \A i \in DOMAIN s : s[i].ref # r.ref,
         r.kind = "department" => at = "departments" /\ r.weight \in Nat \cup {Absent},
         r.kind = "position" => at = "positions",
         r.kind = "kpi" => at = "kpis" /\ r.weight \in Nat,
         r.kind \notin {"department", "position"} => at \notin Early
  PROVE  Staged(at, Append(s, r))
<1> DEFINE t == Append(s, r)
           n == Len(s)
<1>1. /\ s \in Seq(PlanRow) /\ t \in Seq(PlanRow) /\ n \in Nat /\ DOMAIN s = 1 .. n /\ DOMAIN t = 1 .. n + 1
      /\ Len(t) = n + 1 /\ t[n + 1] = r /\ \A i \in 1 .. n : t[i] = s[i]
  BY DEF Staged, Sound
<1>2. Sound(t)
  BY AppendIsSound DEF Staged
<1> HIDE DEF t
<1>3. at \in Early => \A i \in DOMAIN t : t[i].kind \in {"department", "position"}
  BY <1>1 DEF Staged
<1>4. at = "departments" => \A i \in Sharing(t) : t[i].weight \in Nat
  <2> SUFFICES ASSUME at = "departments", NEW i \in Sharing(t) PROVE t[i].weight \in Nat
    OBVIOUS
  <2>1. i \in DOMAIN t /\ t[i].kind = "department" /\ t[i].weight # Absent
    BY DEF Sharing
  <2>2. CASE i = n + 1
    BY <1>1, <2>1, <2>2
  <2>3. CASE i # n + 1
    <3>1. i \in DOMAIN s /\ t[i] = s[i]
      BY <1>1, <2>1, <2>3
    <3> QED BY <2>1, <3>1 DEF Staged, Sharing
  <2> QED BY <2>2, <2>3
<1>5. ASSUME at # "departments" PROVE Split(t)
  <2>1. Sharing(t) = Sharing(s)
    <3>1. r.kind # "department"
      BY <1>5
    <3>2. ASSUME NEW i \in Sharing(t) PROVE i \in Sharing(s)
      BY <1>1, <3>1, <3>2 DEF Sharing
    <3>3. ASSUME NEW i \in Sharing(s) PROVE i \in Sharing(t)
      BY <1>1, <3>3 DEF Sharing
    <3> QED BY <3>2, <3>3
  <2>2. \A i \in Sharing(s) : t[i].weight = s[i].weight
    BY <1>1 DEF Sharing
  <2>3. Shared(s, Sharing(s), Hundred)
    BY <1>5 DEF Staged, Split
  <2>4. Len(s) \in Nat /\ Len(t) \in Nat /\ Len(t) >= Len(s)
    BY <1>1
  <2> DEFINE G == Sharing(s)
  <2> HIDE DEF G
  <2>5. Shared(t, G, Hundred)
    BY <2>2, <2>3, <2>4, SharedIsOfGroup DEF G
  <2> QED BY <2>1, <2>5 DEF Split, G
<1>6. at \notin Weighed => \A i \in DOMAIN t : t[i].kind = "kpi" => t[i].weight \in Nat
  BY <1>1 DEF Staged
<1>7. ASSUME at \in Weighed PROVE Filled(t)
  <2>1. r.kind # "kpi"
    BY <1>7 DEF Weighed
  <2>2. SUFFICES ASSUME NEW i \in DOMAIN t, t[i].kind = "kpi"
                 PROVE  Shared(t, Group(t, t[i].in), Room(t[i].in))
    BY DEF Filled
  <2>3. i \in DOMAIN s /\ t[i] = s[i]
    BY <1>1, <2>1, <2>2
  <2> DEFINE d == s[i].in
             G == Group(s, d)
  <2>4. Group(t, d) = G
    <3>1. ASSUME NEW j \in Group(t, d) PROVE j \in G
      BY <1>1, <2>1, <3>1 DEF Group
    <3>2. ASSUME NEW j \in G PROVE j \in Group(t, d)
      BY <1>1, <3>2 DEF Group
    <3> QED BY <3>1, <3>2
  <2>5. Shared(s, G, Room(d))
    BY <1>7, <2>2, <2>3 DEF Staged, Filled
  <2>6. \A j \in G : t[j].weight = s[j].weight
    BY <1>1 DEF Group
  <2>7. Len(s) \in Nat /\ Len(t) \in Nat /\ Len(t) >= Len(s)
    BY <1>1
  <2> HIDE DEF G, d
  <2>8. Shared(t, G, Room(d))
    BY <2>5, <2>6, <2>7, SharedIsOfGroup
  <2> QED BY <2>3, <2>4, <2>8 DEF d
<1>8. ASSUME at \notin Early PROVE NoCircles(t)
  <2>1. r.kind # "position"
    BY <1>8 DEF Early
  <2>2. \A i : i \in DOMAIN t /\ t[i].kind = "position" => i \in DOMAIN s /\ t[i] = s[i]
    BY <1>1, <2>1
  <2>3. SUFFICES ASSUME NEW c \in SUBSET {i \in DOMAIN t : t[i].kind = "position"}, c # {}
                 PROVE  \E i \in c : t[i].up \notin {t[j].ref : j \in c}
    BY DEF NoCircles
  <2>4. c \in SUBSET {i \in DOMAIN s : s[i].kind = "position"}
    BY <2>2
  <2>5. PICK i \in c : s[i].up \notin {s[j].ref : j \in c}
    BY <1>8, <2>3, <2>4 DEF Staged, NoCircles
  <2>6. \A j \in c : t[j] = s[j]
    BY <2>2
  <2> QED BY <2>5, <2>6
<1> QED BY <1>2, <1>3, <1>4, <1>5, <1>6, <1>7, <1>8 DEF Staged, t

\* What labels mean.
LEMMA FindMeans ==
  ASSUME PlanInvariant, NEW l
  PROVE  /\ Find("department", l) \in OldDepts \cup LabelsOf(rows, "department") \cup {Absent}
         /\ Find("position", l) \in OldSeats \cup LabelsOf(rows, "position") \cup {Absent}
         /\ LabelsOf(rows, "department") \subseteq Handles /\ LabelsOf(rows, "position") \subseteq Handles
         /\ Find("department", l) \in Handles /\ Find("position", l) \in Handles
<1>1. rows \in Seq(PlanRow) /\ AliasesMean
  BY DEF PlanInvariant, Staged, Sound
<1>2. \A kind : Refs(kind) = LabelsOf(rows, kind)
  BY <1>1, OperatorsOfRows
<1>3. Old("department") = OldDepts /\ Old("position") = OldSeats
  BY DEF Old
<1>4. \A kind : LabelsOf(rows, kind) \subseteq Handles
  <2> SUFFICES ASSUME NEW kind, NEW i \in DOMAIN rows PROVE rows[i].ref \in Handles
    BY DEF LabelsOf
  <2>1. rows[i] \in PlanRow
    BY <1>1
  <2> QED BY <2>1 DEF PlanRow
<1>5. Find("department", l) \in OldDepts \cup LabelsOf(rows, "department") \cup {Absent}
  <2>1. <<"department", l>> \in DOMAIN alias => alias[<<"department", l>>] \in OldDepts
    BY <1>1 DEF AliasesMean
  <2> QED BY <1>2, <1>3, <2>1 DEF Find
<1>6. Find("position", l) \in OldSeats \cup LabelsOf(rows, "position") \cup {Absent}
  <2>1. <<"position", l>> \in DOMAIN alias => alias[<<"position", l>>] \in OldSeats
    BY <1>1 DEF AliasesMean
  <2> QED BY <1>2, <1>3, <2>1 DEF Find
<1> QED BY <1>4, <1>5, <1>6 DEF Handles

\* A proposal becomes a row.
LEMMA RowAdded ==
  ASSUME PlanInvariant, NEW r \in PlanRow, Points(rows, r), r.ref \notin UsedRefs,
         rows' = Append(rows, r), UNCHANGED <<stage, alias>>,
         r.kind = "department" => stage = "departments" /\ r.weight \in Nat \cup {Absent},
         r.kind = "position" => stage = "positions",
         r.kind = "kpi" => stage = "kpis" /\ r.weight \in Nat,
         r.kind \notin {"department", "position"} => stage \notin Early
  PROVE  PlanInvariant'
<1>1. Staged(stage, rows) /\ rows \in Seq(PlanRow)
  BY DEF PlanInvariant, Staged, Sound
<1>2. r.ref # Absent => \A i \in DOMAIN rows : rows[i].ref # r.ref
  <2>1. UsedRefs = {rows[i].ref : i \in DOMAIN rows} \ {Absent}
    BY <1>1, OperatorsOfRows
  <2> QED BY <2>1
<1>3. Staged(stage, Append(rows, r))
  BY <1>1, <1>2, AppendIsStaged
<1>4. AliasesMean'
  BY DEF PlanInvariant, AliasesMean
<1> QED BY <1>3, <1>4 DEF PlanInvariant

\* A proposal is dropped, or the rows are complete so far.
LEMMA RowsStay ==
  ASSUME PlanInvariant, UNCHANGED <<stage, rows, alias>>
  PROVE  PlanInvariant'
BY DEF PlanInvariant, AliasesMean

\* Before anything is read.
LEMMA PlanBegins == PlanInit => PlanInvariant
<1> SUFFICES ASSUME PlanInit PROVE PlanInvariant
  OBVIOUS
<1>1. rows = << >> /\ rows \in Seq(PlanRow) /\ DOMAIN rows = {} /\ DOMAIN alias = {} /\ stage = "departments"
  BY DEF PlanInit
<1>2. Sound(rows)
  BY <1>1 DEF Sound, LabelsOnce
<1>3. Staged(stage, rows)
  BY <1>1, <1>2 DEF Staged, Stages, Sharing, Early, Weighed
<1> QED BY <1>1, <1>3 DEF PlanInvariant, AliasesMean

\* A proposal of a department is dropped, is one that is there, or becomes a row.
LEMMA DepartmentRead ==
  ASSUME PlanInvariant, NEW l \in Handles, NEW same \in OldDepts \cup {Absent}, NEW share \in Proposals \cup {Absent},
         ReadDepartment(l, same, share)
  PROVE  PlanInvariant'
<1>1. stage = "departments" /\ stage' = stage
  BY DEF ReadDepartment, Reads
<1>2. CASE IsTaken("department", l)
  BY <1>1, <1>2, RowsStay DEF ReadDepartment
<1>3. CASE ~IsTaken("department", l) /\ same # Absent
  <2>1. Means("department", l, same) /\ rows' = rows
    BY <1>3 DEF ReadDepartment
  <2>2. AliasesMean'
    BY <1>3, <2>1 DEF PlanInvariant, AliasesMean, Means
  <2> QED BY <1>1, <2>1, <2>2 DEF PlanInvariant
<1>4. CASE ~IsTaken("department", l) /\ same = Absent
  <2> DEFINE r == Row("department", l, Absent, Absent, share)
  <2>1. rows' = Append(rows, r) /\ UNCHANGED alias
    BY <1>4 DEF ReadDepartment
  <2>2. share \in Nat \cup {Absent}
    BY PlanAssumption
  <2>3. r \in PlanRow
    BY <2>2 DEF Row, PlanRow, RowKinds, Handles
  <2>4. r.kind = "department" /\ r.ref = l /\ r.in = Absent /\ r.weight = share
    BY DEF Row
  <2>5. l \notin UsedRefs
    BY <1>4 DEF IsTaken
  <2> HIDE DEF r
  <2>6. Points(rows, r)
    BY <2>4 DEF Points
  <2> QED BY <1>1, <2>1, <2>2, <2>3, <2>4, <2>5, <2>6, RowAdded
<1> QED BY <1>2, <1>3, <1>4

\* A proposal of a position is dropped, is one that is there, or becomes a row.
LEMMA PositionRead ==
  ASSUME PlanInvariant, NEW l \in Handles, NEW at, NEW same \in OldSeats \cup {Absent}, ReadPosition(l, at, same)
  PROVE  PlanInvariant'
<1> DEFINE d == Find("department", at)
<1>1. stage = "positions" /\ stage' = stage
  BY DEF ReadPosition, Reads
<1>2. CASE IsTaken("position", l) \/ d = Absent
  BY <1>1, <1>2, RowsStay DEF ReadPosition
<1>3. CASE ~(IsTaken("position", l) \/ d = Absent) /\ same # Absent /\ PlaceOf[same] = d
  <2>1. Means("position", l, same) /\ rows' = rows
    BY <1>3 DEF ReadPosition
  <2>2. AliasesMean'
    BY <1>3, <2>1 DEF PlanInvariant, AliasesMean, Means
  <2> QED BY <1>1, <2>1, <2>2 DEF PlanInvariant
<1>4. CASE ~(IsTaken("position", l) \/ d = Absent) /\ ~(same # Absent /\ PlaceOf[same] = d)
  <2> DEFINE r == Row("position", l, d, Absent, Absent)
  <2>1. rows' = Append(rows, r) /\ UNCHANGED alias
    BY <1>4 DEF ReadPosition
  <2>2. d \in OldDepts \cup LabelsOf(rows, "department") /\ d \in Handles
    BY <1>4, FindMeans
  <2> HIDE DEF d
  <2>3. r \in PlanRow
    BY <2>2 DEF Row, PlanRow, RowKinds, Handles
  <2>4. r.kind = "position" /\ r.ref = l /\ r.in = d /\ r.up = Absent /\ r.weight = Absent
    BY DEF Row
  <2>5. l \notin UsedRefs /\ l # Absent /\ l \notin OldSeats
    BY <1>4 DEF IsTaken, Old
  <2> HIDE DEF r
  <2>6. Points(rows, r)
    BY <2>2, <2>4, <2>5 DEF Points
  <2> QED BY <1>1, <2>1, <2>3, <2>4, <2>5, <2>6, RowAdded
<1> QED BY <1>2, <1>3, <1>4

\* An objective is dropped or becomes a row.
LEMMA ObjectiveRead ==
  ASSUME PlanInvariant, NEW l \in Handles, NEW at, ReadObjective(l, at)
  PROVE  PlanInvariant'
<1> DEFINE d == Find("department", at)
           drops == l \in UsedRefs \cup {Absent} \/ (at # Absent /\ d = Absent)
<1>1. stage = "objectives" /\ stage' = stage /\ UNCHANGED alias
  BY DEF ReadObjective, Reads
<1>2. CASE drops
  BY <1>1, <1>2, RowsStay DEF ReadObjective
<1>3. CASE ~drops
  <2> DEFINE r == Row("objective", l, d, Absent, Absent)
  <2>1. rows' = Append(rows, r)
    BY <1>3 DEF ReadObjective
  <2>2. d \in OldDepts \cup LabelsOf(rows, "department") \cup {Absent} /\ d \in Handles
    BY FindMeans
  <2> HIDE DEF d
  <2>3. r \in PlanRow
    BY <2>2 DEF Row, PlanRow, RowKinds, Handles
  <2>4. r.kind = "objective" /\ r.ref = l /\ r.in = d /\ r.weight = Absent
    BY DEF Row
  <2>5. l \notin UsedRefs /\ l # Absent
    BY <1>3
  <2> HIDE DEF r
  <2>6. Points(rows, r)
    BY <2>2, <2>4, <2>5 DEF Points
  <2> QED BY <1>1, <2>1, <2>3, <2>4, <2>5, <2>6, RowAdded DEF Early
<1> QED BY <1>2, <1>3

\* A key result becomes a row of the objective that the last row is of.
LEMMA KeyResultRead ==
  ASSUME PlanInvariant, NEW l \in Handles, ReadKeyResult(l)
  PROVE  PlanInvariant'
<1> DEFINE ref  == IF l \in UsedRefs THEN Absent ELSE l
           last == rows[Len(rows)]
           goal == IF last.kind = "objective" THEN last.ref ELSE last.up
           r    == Row("key result", ref, Absent, goal, Absent)
<1>1. /\ stage = "objectives" /\ stage' = stage /\ UNCHANGED alias
      /\ rows # << >> /\ last.kind \in {"objective", "key result"} /\ rows' = Append(rows, r)
  BY DEF ReadKeyResult, Reads, Last
<1>2. rows \in Seq(PlanRow) /\ Len(rows) \in DOMAIN rows
  <2>1. rows \in Seq(PlanRow) /\ rows # << >>
    BY <1>1 DEF PlanInvariant, Staged, Sound
  <2>2. rows # << >> => Len(rows) \in DOMAIN rows
    BY ONLY <2>1
  <2> QED BY ONLY <2>1, <2>2
<1>3. last \in PlanRow /\ Points(rows, last)
  BY <1>2 DEF PlanInvariant, Staged, Sound
<1>4. goal \in LabelsOf(rows, "objective")
  <2>1. CASE last.kind = "objective"
    <3>1. last.ref # Absent
      BY <1>3, <2>1 DEF Points
    <3> QED BY <1>2, <2>1, <3>1 DEF LabelsOf
  <2>2. CASE last.kind = "key result"
    BY <1>3, <2>2 DEF Points
  <2> QED BY <1>1, <2>1, <2>2
<1>5. goal \in Handles
  BY <1>3 DEF PlanRow
<1>6. ref \in Handles /\ ref \notin UsedRefs
  BY DEF UsedRefs, Handles
<1> HIDE DEF ref, goal
<1>7. r \in PlanRow
  BY <1>5, <1>6 DEF Row, PlanRow, RowKinds, Handles
<1>8. r.kind = "key result" /\ r.ref = ref /\ r.up = goal /\ r.weight = Absent
  BY DEF Row
<1> HIDE DEF r
<1>9. Points(rows, r)
  BY <1>4, <1>8 DEF Points
<1> QED BY <1>1, <1>6, <1>7, <1>8, <1>9, RowAdded DEF Early

\* A KPI is dropped, or becomes a row of a department that has room.
LEMMA KpiRead ==
  ASSUME PlanInvariant, NEW at, NEW measures \in Handles, NEW weight \in Proposals, ReadKpi(at, measures, weight)
  PROVE  PlanInvariant'
<1> DEFINE d  == Find("department", at)
           up == IF measures \in Refs("key result") THEN measures ELSE Absent
           drops == d = Absent \/ Room(d) <= 0 \/ Cardinality(Group(rows, d)) >= MaxGroup
<1>1. stage = "kpis" /\ stage' = stage /\ UNCHANGED alias
  BY DEF ReadKpi, Reads
<1>2. CASE drops
  BY <1>1, <1>2, RowsStay DEF ReadKpi
<1>3. CASE ~drops
  <2> DEFINE r == Row("kpi", Absent, d, up, weight)
  <2>1. rows' = Append(rows, r)
    BY <1>3 DEF ReadKpi
  <2>2. d \in OldDepts \cup LabelsOf(rows, "department") /\ d \in Handles /\ ~(Room(d) <= 0)
    BY <1>3, FindMeans
  <2>3. Room(d) \in Int
    BY PlanAssumption DEF Room, Hundred
  <2>4. up \in LabelsOf(rows, "key result") \cup {Absent}
    <3>1. rows \in Seq(PlanRow)
      BY DEF PlanInvariant, Staged, Sound
    <3>2. Refs("key result") = LabelsOf(rows, "key result")
      BY <3>1, OperatorsOfRows
    <3> QED BY <3>2
  <2>5. weight \in Nat /\ up \in Handles
    BY PlanAssumption DEF Handles
  <2>6. Absent \notin UsedRefs
    BY DEF UsedRefs
  <2> HIDE DEF d, up
  <2>7. r \in PlanRow
    BY <2>2, <2>5 DEF Row, PlanRow, RowKinds, Handles
  <2>8. r.kind = "kpi" /\ r.ref = Absent /\ r.in = d /\ r.up = up /\ r.weight = weight
    BY DEF Row
  <2> HIDE DEF r
  <2>9. Points(rows, r)
    <3>1. weight \in Int /\ Room(d) > 0
      BY <2>2, <2>3, <2>5
    <3> QED BY <2>2, <2>4, <2>8, <3>1 DEF Points
  <2> QED BY <1>1, <2>1, <2>5, <2>6, <2>7, <2>8, <2>9, RowAdded DEF Early
<1> QED BY <1>2, <1>3

\* A new name or a remark is of what is there, or dropped.
LEMMA CleanupRead ==
  ASSUME PlanInvariant, NEW l \in Handles, NEW kind \in {"rename", "note"}, ReadCleanup(l, kind)
  PROVE  PlanInvariant'
<1>1. stage = "cleanups" /\ stage' = stage /\ UNCHANGED alias
  BY DEF ReadCleanup, Reads
<1>2. CASE l \notin OldDepts \cup OldSeats
  BY <1>1, <1>2, RowsStay DEF ReadCleanup
<1>3. CASE l \in OldDepts \cup OldSeats
  <2> DEFINE r == Row(kind, Absent, l, Absent, Absent)
  <2>1. rows' = Append(rows, r)
    BY <1>3 DEF ReadCleanup
  <2>2. r \in PlanRow
    BY DEF Row, PlanRow, RowKinds, Handles
  <2>3. r.kind = kind /\ r.ref = Absent /\ r.weight = Absent
    BY DEF Row
  <2> HIDE DEF r
  <2>4. Points(rows, r)
    BY <2>3 DEF Points
  <2>5. Absent \notin UsedRefs
    BY DEF UsedRefs
  <2> QED BY <1>1, <2>1, <2>2, <2>3, <2>4, <2>5, RowAdded DEF Early
<1> QED BY <1>2, <1>3


\* A position gets its boss.
LEMMA BossRead ==
  ASSUME PlanInvariant, NEW l, ReadBoss(l)
  PROVE  PlanInvariant'
<1> DEFINE i    == Cardinality(Refs("department")) + read + 1
           boss == Find("position", l)
           up   == IF boss = rows[i].ref THEN Absent ELSE boss
           t    == [rows EXCEPT ![i].up = up]
<1>1. stage = "bosses" /\ stage' = stage /\ UNCHANGED alias /\ rows' = t
  BY DEF ReadBoss
<1>2. /\ Staged("bosses", rows) /\ Sound(rows) /\ rows \in Seq(PlanRow) /\ Split(rows)
      /\ \A j \in DOMAIN rows : rows[j].kind \in {"department", "position"}
  BY <1>1 DEF PlanInvariant, Staged, Sound, Early
<1>3. up \in OldSeats \cup LabelsOf(rows, "position") \cup {Absent} /\ up \in Handles
  BY FindMeans DEF Handles
<1> HIDE DEF up, i
<1>4. ASSUME NEW j \in DOMAIN rows
      PROVE  /\ t[j] \in PlanRow
             /\ t[j].kind = rows[j].kind /\ t[j].ref = rows[j].ref /\ t[j].in = rows[j].in
             /\ t[j].weight = rows[j].weight /\ t[j].up \in {up, rows[j].up}
  <2>1. rows[j] \in PlanRow
    BY <1>2
  <2>2. CASE j = i
    <3>1. t[j] = [rows[j] EXCEPT !.up = up]
      BY <2>2
    <3> HIDE DEF t
    <3> QED BY <1>3, <2>1, <3>1 DEF PlanRow
  <2>3. CASE j # i
    BY <2>1, <2>3
  <2> QED BY <2>2, <2>3
<1>5. t \in Seq(PlanRow) /\ SameRows(rows, t)
  <2>1. DOMAIN t = DOMAIN rows /\ DOMAIN rows = 1 .. Len(rows) /\ Len(rows) \in Nat
    BY <1>2
  <2>2. t \in [1 .. Len(rows) -> PlanRow]
    BY <1>4, <2>1
  <2> HIDE DEF t
  <2> QED BY <1>4, <2>1, <2>2 DEF SameRows
<1> HIDE DEF t
<1>6. Sound(t)
  <2>1. ASSUME NEW j \in DOMAIN rows
        PROVE  /\ t[j].weight = rows[j].weight
               /\ rows[j].kind = "position" => t[j].up \in OldSeats \cup LabelsOf(rows, "position") \cup {Absent}
               /\ rows[j].kind \notin {"position", "department"} => t[j].up = rows[j].up
    <3>1. Points(rows, rows[j])
      BY <1>2 DEF Sound
    <3> QED BY <1>2, <1>3, <1>4, <3>1 DEF Points
  <2> QED BY <1>2, <1>5, <2>1, BossesKeepSound
<1>7. Split(t)
  BY <1>2, <1>4, <1>5, SameSharing
<1>8. \A j \in DOMAIN t : t[j].kind \in {"department", "position"}
  BY <1>2, <1>4, <1>5 DEF SameRows
<1>9. Staged("bosses", t)
  BY <1>6, <1>7, <1>8 DEF Staged, Stages, Early, Weighed
<1> QED BY <1>1, <1>9 DEF PlanInvariant, AliasesMean

\* The capital is split.
LEMMA DepartmentsEnded ==
  ASSUME PlanInvariant, EndDepartments
  PROVE  PlanInvariant'
<1> DEFINE s == rows
           t == SplitCapital(s)
           G == Sharing(s)
<1>1. stage = "departments" /\ stage' = "positions" /\ UNCHANGED alias /\ rows' = t
  BY DEF EndDepartments, TurnsTo
<1>2. /\ Sound(s) /\ s \in Seq(PlanRow)
      /\ \A i \in DOMAIN s : s[i].kind \in {"department", "position"}
      /\ \A i \in G : s[i].weight \in Nat
  BY <1>1 DEF PlanInvariant, Staged, Sound, Early
<1>3. G = {i \in DOMAIN s : s[i].weight # Absent}
  <2>1. \A i \in DOMAIN s : s[i].kind # "department" => s[i].weight = Absent
    BY <1>2 DEF Sound, Points
  <2> QED BY <2>1 DEF Sharing
<1>4. t = IF G = {} THEN s ELSE Rescaled(s, G, Hundred)
  BY <1>3 DEF SplitCapital
<1>5. G \in SUBSET (DOMAIN s) /\ Hundred \in Nat
  BY DEF Sharing, Hundred
<1> HIDE DEF G, t, s
<1>6. CASE G = {}
  <2>1. Split(s)
    BY <1>6 DEF Split, Shared, G
  <2> QED BY <1>1, <1>2, <1>4, <1>6, <2>1 DEF PlanInvariant, AliasesMean, Staged, Stages, Early, Weighed
<1>7. CASE G # {}
  <2>1. /\ t \in Seq(PlanRow) /\ Len(t) = Len(s) /\ SameRows(s, t)
        /\ \A i \in DOMAIN s : t[i].up = s[i].up /\ (i \notin G => t[i] = s[i])
        /\ Shared(t, G, Hundred)
    BY <1>2, <1>4, <1>5, <1>7, RescaledIsShared
  <2>2. DOMAIN t = DOMAIN s /\ \A i \in DOMAIN s : t[i].kind = s[i].kind
    BY <2>1 DEF SameRows
  <2>3. Sound(t)
    <3>1. ASSUME NEW i \in DOMAIN s
          PROVE  /\ s[i].kind = "kpi" => t[i].weight \in Int
                 /\ s[i].kind \notin {"department", "kpi"} => t[i].weight = s[i].weight
      <4>1. s[i].kind # "department" => i \notin G
        BY DEF G, Sharing
      <4> QED BY <1>2, <2>1, <4>1
    <3> QED BY <1>2, <2>1, <3>1, WeightsKeepSound
  <2>4. Sharing(t) = G
    <3>1. ASSUME NEW i \in G PROVE i \in Sharing(t)
      <4>1. i \in DOMAIN s /\ s[i].kind = "department"
        BY DEF G, Sharing
      <4>2. t[i].weight \in Int
        BY <2>1 DEF Shared
      <4> QED BY <2>2, <4>1, <4>2, PlanAssumption DEF Sharing
    <3>2. ASSUME NEW i \in Sharing(t), i \notin G PROVE FALSE
      <4>1. i \in DOMAIN t /\ t[i].kind = "department" /\ t[i].weight # Absent
        BY DEF Sharing
      <4>2. i \in DOMAIN s /\ t[i] = s[i]
        BY <2>1, <2>2, <3>2, <4>1
      <4> QED BY <3>2, <4>1, <4>2 DEF G, Sharing
    <3> QED BY <3>1, <3>2
  <2>5. Split(t)
    BY <2>1, <2>4 DEF Split
  <2>6. \A i \in DOMAIN t : t[i].kind \in {"department", "position"}
    BY <1>2, <2>2
  <2> QED BY <1>1, <2>3, <2>5, <2>6 DEF PlanInvariant, AliasesMean, Staged, Stages, Early, Weighed
<1> QED BY <1>6, <1>7

\* The second pass, the KPIs, and the end: the rows are as they were.
LEMMA StageTurned ==
  ASSUME PlanInvariant, EndPositions \/ EndObjectives \/ SaveRows
  PROVE  PlanInvariant'
<1>1. UNCHANGED <<rows, alias>>
  BY DEF EndPositions, EndObjectives, SaveRows, TurnsTo
<1>2. CASE stage = "positions" /\ stage' = "bosses"
  BY <1>1, <1>2 DEF PlanInvariant, AliasesMean, Staged, Stages, Early, Weighed
<1>3. CASE stage = "objectives" /\ stage' = "kpis"
  BY <1>1, <1>3 DEF PlanInvariant, AliasesMean, Staged, Stages, Early, Weighed
<1>4. CASE stage = "cleanups" /\ stage' = "saved"
  BY <1>1, <1>4 DEF PlanInvariant, AliasesMean, Staged, Stages, Early, Weighed
<1> QED BY <1>2, <1>3, <1>4 DEF EndPositions, EndObjectives, SaveRows, TurnsTo

\* No circle is left.
LEMMA BossesEnded ==
  ASSUME PlanInvariant, EndBosses
  PROVE  PlanInvariant'
<1> DEFINE t == CutReportingLoops(rows)
<1>1. stage = "bosses" /\ stage' = "objectives" /\ UNCHANGED alias /\ rows' = t
  BY DEF EndBosses, TurnsTo
<1>2. /\ Sound(rows) /\ rows \in Seq(PlanRow) /\ Split(rows)
      /\ \A i \in DOMAIN rows : rows[i].kind \in {"department", "position"}
  BY <1>1 DEF PlanInvariant, Staged, Sound, Early
<1>3. Fewer(rows, t) /\ NoCircles(t)
  BY <1>2, LoopsAreCut
<1> HIDE DEF t
<1>4. Sound(t)
  BY <1>2, <1>3, FewerIsSound
<1>5. /\ t \in Seq(PlanRow) /\ SameRows(rows, t)
      /\ \A i \in DOMAIN rows : rows[i].kind = "department" => t[i].weight = rows[i].weight
  BY <1>3 DEF Fewer
<1>6. Split(t)
  BY <1>2, <1>5, SameSharing
<1>7. \A i \in DOMAIN t : t[i].kind \in {"department", "position"}
  BY <1>2, <1>5 DEF SameRows
<1>8. Staged("objectives", t)
  BY <1>3, <1>4, <1>6, <1>7 DEF Staged, Stages, Early, Weighed
<1> QED BY <1>1, <1>8 DEF PlanInvariant, AliasesMean

\* Circles are of kinds, labels and bosses alone.
LEMMA SameCircles ==
  ASSUME NEW s, NEW t, SameRows(s, t), \A i \in DOMAIN s : t[i].up = s[i].up, NoCircles(s)
  PROVE  NoCircles(t)
<1> SUFFICES ASSUME NEW c \in SUBSET {i \in DOMAIN t : t[i].kind = "position"}, c # {}
             PROVE  \E i \in c : t[i].up \notin {t[j].ref : j \in c}
  BY DEF NoCircles
<1>1. \A i \in c : i \in DOMAIN s /\ s[i].kind = "position" /\ t[i].up = s[i].up /\ t[i].ref = s[i].ref
  BY DEF SameRows
<1>2. PICK i \in c : s[i].up \notin {s[j].ref : j \in c}
  <2>1. c \in SUBSET {i \in DOMAIN s : s[i].kind = "position"}
    BY <1>1
  <2> QED BY <2>1 DEF NoCircles
<1> QED BY <1>1, <1>2

\* The KPIs of a department, whose weights are brought to its room.
LEMMA GroupFills ==
  ASSUME NEW s, Sound(s), \A i \in DOMAIN s : s[i].kind = "kpi" => s[i].weight \in Nat,
         NEW i \in DOMAIN s, s[i].kind = "kpi", NEW G, G = Group(s, s[i].in), NEW b, b = Room(s[i].in)
  PROVE  LET t == Rescaled(s, G, b) IN
         /\ t \in Seq(PlanRow) /\ Len(t) = Len(s) /\ SameRows(s, t) /\ Shared(t, G, b)
         /\ \A j \in DOMAIN s : t[j].up = s[j].up
         /\ i \in G /\ \A j \in G : j \in DOMAIN s /\ s[j].kind = "kpi" /\ s[j].in = s[i].in
<1>1. s \in Seq(PlanRow) /\ b \in Nat
  <2>1. Points(s, s[i]) /\ Room(s[i].in) > 0
    BY DEF Sound, Points
  <2>2. s[i].in \in OldDepts => RoomOf[s[i].in] \in Int
    BY PlanAssumption
  <2>3. Room(s[i].in) \in Int
    BY <2>2 DEF Room, Hundred
  <2> QED BY <2>1, <2>3 DEF Sound
<1>2. \A j \in G : j \in DOMAIN s /\ s[j].kind = "kpi" /\ s[j].in = s[i].in
  BY DEF Group
<1>3. i \in G
  BY DEF Group
<1>4. G \in SUBSET (DOMAIN s) /\ G # {} /\ \A j \in G : s[j].weight \in Nat
  BY <1>2, <1>3
<1> QED BY <1>1, <1>2, <1>3, <1>4, RescaledIsShared

\* Each department's room is filled.
LEMMA KpisEnded ==
  ASSUME PlanInvariant, EndKpis
  PROVE  PlanInvariant'
<1> DEFINE s    == rows
           u(i) == Rescaled(s, Group(s, s[i].in), Room(s[i].in))
           t    == [i \in DOMAIN s |-> IF s[i].kind = "kpi" THEN u(i)[i] ELSE s[i]]
<1>1. stage = "kpis" /\ stage' = "cleanups" /\ UNCHANGED alias /\ rows' = t
  BY DEF EndKpis, TurnsTo
<1>2. /\ Sound(s) /\ s \in Seq(PlanRow) /\ Split(s) /\ NoCircles(s)
      /\ \A i \in DOMAIN s : s[i].kind = "kpi" => s[i].weight \in Nat
  BY <1>1 DEF PlanInvariant, Staged, Sound, Early, Weighed
<1>3. DOMAIN t = DOMAIN s /\ \A i \in DOMAIN s : t[i] = IF s[i].kind = "kpi" THEN u(i)[i] ELSE s[i]
  OBVIOUS
<1> HIDE DEF t
<1>4. ASSUME NEW i \in DOMAIN s, s[i].kind = "kpi"
      PROVE  /\ u(i) \in Seq(PlanRow) /\ Len(u(i)) = Len(s) /\ SameRows(s, u(i))
             /\ Shared(u(i), Group(s, s[i].in), Room(s[i].in))
             /\ \A j \in DOMAIN s : u(i)[j].up = s[j].up
             /\ i \in Group(s, s[i].in)
             /\ \A j \in Group(s, s[i].in) : j \in DOMAIN s /\ s[j].kind = "kpi" /\ s[j].in = s[i].in
  BY <1>2, <1>4, GroupFills
<1> HIDE DEF u, s
<1>5. ASSUME NEW i \in DOMAIN s
      PROVE  /\ t[i] \in PlanRow
             /\ t[i].kind = s[i].kind /\ t[i].ref = s[i].ref /\ t[i].in = s[i].in /\ t[i].up = s[i].up
             /\ s[i].kind = "kpi" => t[i].weight \in Int
             /\ s[i].kind # "kpi" => t[i] = s[i]
  <2>1. s[i] \in PlanRow
    BY <1>2
  <2>2. CASE s[i].kind = "kpi"
    <3>1. t[i] = u(i)[i]
      BY <1>3, <2>2
    <3>2. u(i)[i] \in PlanRow
      <4>1. u(i) \in Seq(PlanRow) /\ DOMAIN u(i) = DOMAIN s
        BY <1>4, <2>2 DEF SameRows
      <4> QED BY <4>1
    <3>3. u(i)[i].weight \in Int
      BY <1>4, <2>2 DEF Shared
    <3> QED BY <1>4, <2>2, <3>1, <3>2, <3>3 DEF SameRows
  <2>3. CASE s[i].kind # "kpi"
    BY <1>3, <2>1, <2>3
  <2> QED BY <2>2, <2>3
<1>6. t \in Seq(PlanRow) /\ Len(t) = Len(s) /\ Len(s) \in Nat /\ SameRows(s, t)
  <2>1. DOMAIN s = 1 .. Len(s) /\ Len(s) \in Nat
    BY <1>2
  <2>2. t \in [1 .. Len(s) -> PlanRow]
    <3>1. t = [i \in DOMAIN s |-> t[i]]
      BY DEF t
    <3> QED BY <1>5, <2>1, <3>1
  <2> QED BY <1>3, <1>5, <2>1, <2>2 DEF SameRows
<1>7. Sound(t)
  <2>1. ASSUME NEW i \in DOMAIN s
        PROVE  /\ t[i].up = s[i].up
               /\ s[i].kind = "kpi" => t[i].weight \in Int
               /\ s[i].kind \notin {"department", "kpi"} => t[i].weight = s[i].weight
    BY <1>5
  <2> QED BY <1>2, <1>6, <2>1, WeightsKeepSound
<1>8. Split(t)
  <2>1. \A i \in DOMAIN s : s[i].kind = "department" => t[i].weight = s[i].weight
    BY <1>5
  <2> QED BY <1>2, <1>6, <2>1, SameSharing
<1>9. NoCircles(t)
  BY <1>2, <1>5, <1>6, SameCircles
<1>10. ASSUME NEW i \in DOMAIN t, t[i].kind = "kpi"
       PROVE  Shared(t, Group(t, t[i].in), Room(t[i].in))
  <2> DEFINE G == Group(s, s[i].in)
             b == Room(s[i].in)
             v == u(i)
  <2>1. i \in DOMAIN s /\ s[i].kind = "kpi" /\ t[i].in = s[i].in
    BY <1>3, <1>5, <1>10
  <2>2. Group(t, t[i].in) = G
    <3>1. \A j \in DOMAIN s : t[j].kind = s[j].kind /\ t[j].in = s[j].in
      BY <1>5
    <3> QED BY <1>3, <2>1, <3>1 DEF Group
  <2>3. Shared(v, G, b) /\ Len(v) = Len(s)
    BY <1>4, <2>1
  <2>4. ASSUME NEW j \in G PROVE t[j].weight = v[j].weight
    <3>1. j \in DOMAIN s /\ s[j].kind = "kpi" /\ s[j].in = s[i].in
      BY <1>4, <2>1
    <3>2. u(j) = u(i)
      BY <3>1 DEF u
    <3> QED BY <1>3, <3>1, <3>2
  <2>5. Len(v) \in Nat /\ Len(t) \in Nat /\ Len(t) >= Len(v)
    BY <1>6, <2>3
  <2> HIDE DEF G, b, v
  <2>6. Shared(t, G, b)
    BY <2>3, <2>4, <2>5, SharedIsOfGroup
  <2> QED BY <2>1, <2>2, <2>6 DEF b
<1>11. Filled(t)
  BY <1>10 DEF Filled
<1>12. Staged("cleanups", t)
  BY <1>7, <1>8, <1>9, <1>11 DEF Staged, Stages, Early, Weighed
<1> QED BY <1>1, <1>12 DEF PlanInvariant, AliasesMean

\* What the invariant says of a batch that is saved.
LEMMA SavedHangsTogether ==
  ASSUME PlanInvariant
  PROVE  BatchHangsTogether
<1> SUFFICES ASSUME stage = "saved" PROVE BatchHangsTogether
  BY DEF BatchHangsTogether
<1> DEFINE R == ToSet(rows)
           known == OldDepts \cup Refs("department")
           sharing == {i \in DOMAIN rows : rows[i].kind = "department" /\ rows[i].weight # Absent}
<1>1. /\ Sound(rows) /\ rows \in Seq(PlanRow) /\ LabelsOnce(rows) /\ \A i \in DOMAIN rows : Points(rows, rows[i])
      /\ Split(rows) /\ Filled(rows) /\ NoCircles(rows)
  BY DEF PlanInvariant, Staged, Sound, Early, Weighed
<1>2. \A kind : Refs(kind) = LabelsOf(rows, kind)
  BY <1>1, OperatorsOfRows
<1>3. ASSUME NEW r \in R PROVE \E i \in DOMAIN rows : r = rows[i]
  BY <1>1 DEF ToSet
<1>4. \A i \in DOMAIN rows : rows[i] \in R
  BY <1>1 DEF ToSet
<1> HIDE DEF R
<1>5. \A i, j \in DOMAIN rows : rows[i].ref = rows[j].ref /\ rows[i].ref # Absent => i = j
  BY <1>1 DEF LabelsOnce
<1>6. ASSUME NEW r \in R
      PROVE  /\ r.kind \in {"position", "kpi"} => r.in \in known
             /\ r.kind = "objective" => r.in \in known \cup {Absent}
             /\ r.kind = "position" => r.up \in OldSeats \cup Refs("position") \cup {Absent}
             /\ r.kind = "key result" => r.up \in Refs("objective")
             /\ r.kind = "kpi" => r.up \in Refs("key result") \cup {Absent}
  <2>1. Points(rows, r)
    BY <1>1, <1>3
  <2> QED BY <1>2, <2>1 DEF Points
<1>7. ASSUME NEW circle \in SUBSET {r \in R : r.kind = "position"}, circle # {}
      PROVE  \E r \in circle : r.up \notin {q.ref : q \in circle}
  <2> DEFINE c == {i \in DOMAIN rows : rows[i] \in circle}
  <2>1. c \in SUBSET {i \in DOMAIN rows : rows[i].kind = "position"}
    OBVIOUS
  <2>2. \A q \in circle : \E i \in c : q = rows[i]
    BY <1>3
  <2>3. PICK i \in c : rows[i].up \notin {rows[j].ref : j \in c}
    BY <1>1, <1>7, <2>1, <2>2 DEF NoCircles
  <2> QED BY <2>2, <2>3
<1>8. ASSUME sharing # {} PROVE WeightOf(sharing) = Hundred
  BY <1>1, <1>8 DEF Split, Shared, Sharing, WeightsOf, WeightOf
<1>9. ASSUME NEW i \in DOMAIN rows, rows[i].weight # Absent, rows[i].weight < 0
      PROVE  /\ \A j \in 1 .. i - 1 :
                  rows[j].kind = rows[i].kind /\ rows[j].in = rows[i].in => rows[j].weight = Absent
             /\ rows[i].weight > -Len(rows)
  <2>1. rows[i].kind \in {"department", "kpi"}
    BY <1>1, <1>9 DEF Points
  <2>2. DOMAIN rows = 1 .. Len(rows) /\ Len(rows) \in Nat
    BY <1>1
  <2>3. CASE rows[i].kind = "department"
    <3>1. i \in Sharing(rows) /\ Shared(rows, Sharing(rows), Hundred)
      BY <1>1, <1>9, <2>3 DEF Sharing, Split
    <3>2. (\A j \in Sharing(rows) : i <= j) /\ rows[i].weight > -Len(rows)
      BY <1>9, <3>1 DEF Shared
    <3>3. ASSUME NEW j \in 1 .. i - 1, rows[j].kind = rows[i].kind, rows[j].weight # Absent PROVE FALSE
      <4>1. j \in DOMAIN rows /\ j \in Int /\ i \in Int /\ j < i
        BY <2>2
      <4>2. j \in Sharing(rows)
        BY <2>3, <3>3, <4>1 DEF Sharing
      <4> QED BY <3>2, <4>1, <4>2
    <3> QED BY <3>2, <3>3
  <2>4. CASE rows[i].kind = "kpi"
    <3> DEFINE G == Group(rows, rows[i].in)
    <3>1. i \in G /\ Shared(rows, G, Room(rows[i].in))
      BY <1>1, <2>4 DEF Group, Filled
    <3>2. (\A j \in G : i <= j) /\ rows[i].weight > -Len(rows)
      BY <1>9, <3>1 DEF Shared
    <3>3. ASSUME NEW j \in 1 .. i - 1, rows[j].kind = rows[i].kind, rows[j].in = rows[i].in PROVE FALSE
      <4>1. j \in DOMAIN rows /\ j \in Int /\ i \in Int /\ j < i
        BY <2>2
      <4>2. j \in G
        BY <2>4, <3>3, <4>1 DEF Group
      <4> QED BY <3>2, <4>1, <4>2
    <3> QED BY <3>2, <3>3
  <2> QED BY <2>1, <2>3, <2>4
<1>10. ASSUME NEW r \in R, r.kind = "kpi" PROVE WeightOf(Group(rows, r.in)) = Room(r.in)
  <2>1. PICK i \in DOMAIN rows : r = rows[i]
    BY <1>3
  <2> DEFINE G == Group(rows, r.in)
  <2>2. i \in G /\ Shared(rows, G, Room(r.in))
    BY <1>1, <1>10, <2>1 DEF Group, Filled
  <2> HIDE DEF G
  <2>3. WeightsOf(rows, G) = Room(r.in)
    BY <2>2 DEF Shared
  <2> QED BY <2>3 DEF WeightsOf, WeightOf, G
<1> QED BY <1>5, <1>6, <1>7, <1>8, <1>9, <1>10 DEF BatchHangsTogether, R

\* Every step keeps the invariant.
LEMMA PlanGoesOn ==
  ASSUME PlanInvariant, [PlanNext]_planVars
  PROVE  PlanInvariant'
<1>1. ASSUME NEW l \in Handles, NEW same \in OldDepts \cup {Absent}, NEW share \in Proposals \cup {Absent},
             ReadDepartment(l, same, share)
      PROVE  PlanInvariant'
  BY <1>1, DepartmentRead
<1>2. ASSUME NEW l \in Handles, NEW at \in Handles, NEW same \in OldSeats \cup {Absent}, ReadPosition(l, at, same)
      PROVE  PlanInvariant'
  BY <1>2, PositionRead
<1>3. ASSUME NEW l \in Handles, ReadBoss(l) PROVE PlanInvariant'
  BY <1>3, BossRead
<1>4. ASSUME NEW l \in Handles, NEW at \in Handles, ReadObjective(l, at) PROVE PlanInvariant'
  BY <1>4, ObjectiveRead
<1>5. ASSUME NEW l \in Handles, ReadKeyResult(l) PROVE PlanInvariant'
  BY <1>5, KeyResultRead
<1>6. ASSUME NEW l \in Handles, NEW kind \in {"rename", "note"}, ReadCleanup(l, kind) PROVE PlanInvariant'
  BY <1>6, CleanupRead
<1>7. ASSUME NEW at \in Handles, NEW measures \in Handles, NEW weight \in Proposals, ReadKpi(at, measures, weight)
      PROVE  PlanInvariant'
  BY <1>7, KpiRead
<1>8. CASE EndDepartments
  BY <1>8, DepartmentsEnded
<1>9. CASE EndPositions \/ EndObjectives \/ SaveRows
  BY <1>9, StageTurned
<1>10. CASE EndBosses
  BY <1>10, BossesEnded
<1>11. CASE EndKpis
  BY <1>11, KpisEnded
<1>12. CASE UNCHANGED planVars
  BY <1>12, RowsStay DEF planVars
<1> QED BY <1>1, <1>2, <1>3, <1>4, <1>5, <1>6, <1>7, <1>8, <1>9, <1>10, <1>11, <1>12 DEF PlanNext, Handles

\* build_item_rows: whatever the model answers, the batch that is saved hangs together.
THEOREM BatchesHangTogether == PlanSpec => []BatchHangsTogether
<1>1. PlanInit => PlanInvariant
  BY PlanBegins
<1>2. PlanInvariant /\ [PlanNext]_planVars => PlanInvariant'
  BY PlanGoesOn
<1>3. PlanInvariant => BatchHangsTogether
  BY SavedHangsTogether
<1> QED BY <1>1, <1>2, <1>3, PTL DEF PlanSpec

===============================================================================
