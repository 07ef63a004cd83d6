-------------------------------- MODULE Staff --------------------------------
(***************************************************************************)
(* The people of one organization: accounts, memberships, invites,         *)
(* employee records and department heads.  An employee record is a row of  *)
(* its own; a login is attached to it later, through an invite or by hand, *)
(* and offboarding finds the login to switch off through that link.        *)
(*                                                                         *)
(* Handlers check first and write later, and hardly anything is checked    *)
(* again: what protects the tables is unique indexes.  A request is        *)
(* therefore two steps, what it reads and what it writes and commits.      *)
(***************************************************************************)
EXTENDS Integers, FiniteSets, Requests

CONSTANTS
  Folk,          \* people, by their e-mail address
  Owner,         \* the one who registered the organization
  Hires,         \* the pool of employee ids
  WorkEmail,     \* the e-mail address on each employee record
  Units,         \* departments
  Invites,       \* the pool of invite ids
  Desks,         \* concurrent requests
  Nothing        \* null, and an idle request

VARIABLES
  account,       \* users: which e-mail addresses have an account (unique)
  membership,    \* memberships of this organization: one per account, unique
  hire,          \* employees
  head,          \* departments.head_employee_id
  invite,        \* invites
  desk,          \* what each request has read and is about to write
  staffRaced,         \* history: a request committed after another one got in between
  accepted,      \* history: the invites that were accepted
  lateLinks      \* history: logins linked by hand to somebody who had left

staffVars == <<account, membership, hire, head, invite, desk, staffRaced, accepted, lateLinks>>

HireRow   == [status : {"active", "inactive"}, user : Folk \cup {Nothing}]
InviteRow == [email : Folk, emp : Hires \cup {Nothing}, used : BOOLEAN]

ASSUME StaffAssumption ==
  /\ Owner \in Folk
  /\ WorkEmail \in [Hires -> Folk]
  /\ Nothing \notin Folk \cup Hires
  /\ Nothing \notin HireRow
  /\ Nothing \notin InviteRow

StaffTypeOK ==
  /\ account \in [Folk -> BOOLEAN]
  /\ membership \in [Folk -> {"none", "active", "deactivated"}]
  /\ hire \in [Hires -> HireRow \cup {Nothing}]
  /\ head \in [Units -> Hires \cup {Nothing}]
  /\ invite \in [Invites -> InviteRow \cup {Nothing}]
  /\ staffRaced \in BOOLEAN
  /\ accepted \subseteq Invites
  /\ lateLinks \subseteq Hires

StaffInit ==
  /\ account = [p \in Folk |-> p = Owner]
  /\ membership = [p \in Folk |-> IF p = Owner THEN "active" ELSE "none"]
  /\ hire = [e \in Hires |-> Nothing]
  /\ head = [d \in Units |-> Nothing]
  /\ invite = [i \in Invites |-> Nothing]
  /\ desk = [s \in Desks |-> Nothing]
  /\ staffRaced = FALSE /\ accepted = {} /\ lateLinks = {}

(***************************************************************************)
(* Requests                                                                *)
(***************************************************************************)
\* A request has read what it needs and is about to write r.
DeskReady(s, r) ==
  /\ desk[s] = Nothing
  /\ desk' = Checked(desk, s, r)
  /\ UNCHANGED <<account, membership, hire, head, invite, staffRaced, accepted, lateLinks>>

\* The rest of the step of a request that commits: others under way have now
\* been overtaken, and it is on record if this one had been.
DeskCommits(s) ==
  /\ desk' = Committed(desk, s, Nothing)
  /\ staffRaced' = (staffRaced \/ Overtaken(desk, s, Nothing))

DeskDoing(s, op) == desk[s] # Nothing /\ desk[s].todo.op = op

\* An exception, also of the database (IntegrityError), or a lost connection.
AbandonDesk(s) ==
  /\ desk[s] # Nothing
  /\ desk' = [desk EXCEPT ![s] = Nothing]
  /\ UNCHANGED <<account, membership, hire, head, invite, staffRaced, accepted, lateLinks>>

\* get_employee_by_user_id: the employee records a login is linked to.
LinkedTo(p) == {e \in Hires : hire[e] # Nothing /\ hire[e].user = p}

\* get_pending_invite, without its complaint if there are several.
UnusedInvites(p) == {i \in Invites : invite[i] # Nothing /\ invite[i].email = p /\ ~invite[i].used}

\* _validate_user_link: an active member whose login no employee has yet.
MayLink(p) == membership[p] = "active" /\ LinkedTo(p) = {}

(***************************************************************************)
(* Accounts and memberships                                                *)
(***************************************************************************)
\* register, for an organization of one's own: what matters here is that the
\* address has an account from then on.
BeginRegister(s, p) == ~account[p] /\ DeskReady(s, [op |-> "register", p |-> p])

FinishRegister(s) ==
  /\ DeskDoing(s, "register")
  /\ LET p == desk[s].todo.p IN
       /\ ~account[p]                      \* users.email is unique
       /\ account' = [account EXCEPT ![p] = TRUE]
  /\ DeskCommits(s)
  /\ UNCHANGED <<membership, hire, head, invite, accepted, lateLinks>>

\* update_membership, the only change of it that the API accepts besides the role:
\* deactivation, of anybody but the owner.
BeginDeactivate(s, p) ==
  /\ membership[p] # "none" /\ p # Owner
  /\ DeskReady(s, [op |-> "deactivate", p |-> p])

FinishDeactivate(s) ==
  /\ DeskDoing(s, "deactivate")
  /\ membership' = [membership EXCEPT ![desk[s].todo.p] = "deactivated"]
  /\ DeskCommits(s)
  /\ UNCHANGED <<account, hire, head, invite, accepted, lateLinks>>

\* reactivate_membership, refused while the person's employee record is inactive.
MayReactivate(p) ==
  /\ membership[p] = "deactivated"
  /\ \A e \in LinkedTo(p) : hire[e].status # "inactive"

BeginReactivate(s, p) == MayReactivate(p) /\ DeskReady(s, [op |-> "reactivate", p |-> p])

FinishReactivate(s) ==
  /\ DeskDoing(s, "reactivate")
  /\ membership' = [membership EXCEPT ![desk[s].todo.p] = "active"]
  /\ DeskCommits(s)
  /\ UNCHANGED <<account, hire, head, invite, accepted, lateLinks>>

(***************************************************************************)
(* Invites                                                                 *)
(***************************************************************************)
\* invite_teammate: a stranger gets an invite; somebody with an account and no
\* membership here is added at once; a member, active or not, is refused.
BeginInvite(s, p) ==
  \/ /\ ~account[p]
     /\ Cardinality(UnusedInvites(p)) <= 1
     /\ DeskReady(s, [op |-> "invite", p |-> p, emp |-> Nothing, old |-> UnusedInvites(p)])
  \/ /\ account[p] /\ membership[p] = "none"
     /\ DeskReady(s, [op |-> "add", p |-> p, emp |-> Nothing])

\* create_invite: the pending invite that was found is spent, the new one takes
\* its place.
FinishInvite(s) ==
  /\ DeskDoing(s, "invite")
  /\ \E i \in Invites :
       /\ invite[i] = Nothing
       /\ invite' = [j \in Invites |->
            IF j = i
              THEN [email |-> desk[s].todo.p, emp |-> desk[s].todo.emp, used |-> FALSE]
            ELSE IF j \in desk[s].todo.old THEN [invite[j] EXCEPT !.used = TRUE]
            ELSE invite[j]]
  /\ DeskCommits(s)
  /\ UNCHANGED <<account, membership, hire, head, accepted, lateLinks>>

\* Mutant of Attach: without the unique index.
AttachAnyway(e, p) == hire' = [hire EXCEPT ![e].user = p]

\* The table of employees once login p is attached to e (_attach_user), unless it
\* is somebody else's by now (the unique index on organization and user).
Attach(e, p) ==
  /\ LinkedTo(p) \subseteq {e}
  /\ hire' = [hire EXCEPT ![e].user = p]

\* The "added" outcome: a membership, and the link if it was asked for an employee.
FinishAdd(s) ==
  /\ DeskDoing(s, "add")
  /\ LET p == desk[s].todo.p   e == desk[s].todo.emp IN
       /\ membership[p] = "none"                   \* memberships are unique
       /\ membership' = [membership EXCEPT ![p] = "active"]
       /\ IF e = Nothing THEN UNCHANGED hire ELSE Attach(e, p)
  /\ DeskCommits(s)
  /\ UNCHANGED <<account, head, invite, accepted, lateLinks>>

\* Mutant of WantsLogin: it forgets that the employee may have left.
WantsLoginEvenIfGone(e) == e # Nothing /\ hire[e].user = Nothing

\* link_accepted_invite decides whether the employee still wants this login.
WantsLogin(e) == e # Nothing /\ hire[e].user = Nothing /\ hire[e].status # "inactive"

\* accept_invite, of a link that is still good (that links expire only means that
\* some are never accepted): account, membership and link are made together.
BeginAccept(s, i) ==
  /\ invite[i] # Nothing /\ ~invite[i].used
  /\ ~account[invite[i].email]
  /\ DeskReady(s, [op |-> "accept", i |-> i, links |-> WantsLogin(invite[i].emp)])

FinishAccept(s) ==
  /\ DeskDoing(s, "accept")
  /\ LET i == desk[s].todo.i   p == invite[i].email IN
       /\ ~account[p]                      \* users.email is unique
       /\ account' = [account EXCEPT ![p] = TRUE]
       /\ membership' = [membership EXCEPT ![p] = "active"]
       /\ IF desk[s].todo.links THEN Attach(invite[i].emp, p) ELSE UNCHANGED hire
       /\ invite' = [invite EXCEPT ![i].used = TRUE]
       /\ accepted' = accepted \cup {i}
  /\ DeskCommits(s)
  /\ UNCHANGED <<head, lateLinks>>

(***************************************************************************)
(* Employees                                                               *)
(***************************************************************************)
\* create_employee, with a login of a member or without one.
BeginCreateHire(s, e, p) ==
  /\ hire[e] = Nothing
  /\ p \in {q \in Folk : MayLink(q)} \cup {Nothing}
  /\ DeskReady(s, [op |-> "create", e |-> e, p |-> p])

FinishCreateHire(s) ==
  /\ DeskDoing(s, "create")
  /\ LET e == desk[s].todo.e   p == desk[s].todo.p IN
       /\ hire[e] = Nothing
       /\ p \in {q \in Folk : LinkedTo(q) = {}} \cup {Nothing}   \* the unique index
       /\ hire' = [hire EXCEPT ![e] = [status |-> "active", user |-> p]]
  /\ DeskCommits(s)
  /\ UNCHANGED <<account, membership, head, invite, accepted, lateLinks>>

\* link_user: an employee without a login, whatever their status, gets one.
BeginLinkUser(s, e, p) ==
  /\ hire[e] # Nothing /\ hire[e].user = Nothing
  /\ MayLink(p)
  /\ DeskReady(s, [op |-> "link", e |-> e, p |-> p])

FinishLinkUser(s) ==
  /\ DeskDoing(s, "link")
  /\ LET e == desk[s].todo.e IN
       /\ Attach(e, desk[s].todo.p)
       /\ lateLinks' = IF hire[e].status = "inactive" THEN lateLinks \cup {e} ELSE lateLinks
  /\ DeskCommits(s)
  /\ UNCHANGED <<account, membership, head, invite, accepted>>

\* grant_login: an active employee without a login.  A member is linked, somebody
\* with an account is added, anybody else is invited for this employee.
BeginGrantLogin(s, e) ==
  /\ hire[e] # Nothing /\ hire[e].user = Nothing /\ hire[e].status # "inactive"
  /\ LET p == WorkEmail[e] IN
       \/ /\ membership[p] = "active" /\ MayLink(p)
          /\ DeskReady(s, [op |-> "link", e |-> e, p |-> p])
       \/ /\ membership[p] = "none" /\ account[p]
          /\ DeskReady(s, [op |-> "add", p |-> p, emp |-> e])
       \/ /\ ~account[p]
          /\ Cardinality(UnusedInvites(p)) <= 1
          /\ DeskReady(s, [op |-> "invite", p |-> p, emp |-> e, old |-> UnusedInvites(p)])

\* _clear_department_headships: e is the head of no department any more.
HeadshipsCleared(e) == [d \in Units |-> IF head[d] = e THEN Nothing ELSE head[d]]

\* offboard_employee: inactive, the login switched off (refused for the owner), no
\* department headed any more.
BeginOffboard(s, e) ==
  /\ hire[e] # Nothing /\ hire[e].status # "inactive"
  /\ DeskReady(s, [op |-> "offboard", e |-> e])

FinishOffboard(s) ==
  /\ DeskDoing(s, "offboard")
  /\ LET e == desk[s].todo.e   p == hire[e].user IN
       /\ ~(p = Owner /\ membership[Owner] = "active")
       /\ hire' = [hire EXCEPT ![e].status = "inactive"]
       /\ membership' = IF p # Nothing /\ membership[p] = "active"
                          THEN [membership EXCEPT ![p] = "deactivated"] ELSE membership
       /\ head' = HeadshipsCleared(e)
  /\ DeskCommits(s)
  /\ UNCHANGED <<account, invite, accepted, lateLinks>>

\* reinstate_employee: the way back for both.
BeginReinstate(s, e) ==
  /\ hire[e] # Nothing /\ hire[e].status # "active"
  /\ DeskReady(s, [op |-> "reinstate", e |-> e])

FinishReinstate(s) ==
  /\ DeskDoing(s, "reinstate")
  /\ LET e == desk[s].todo.e   p == hire[e].user IN
       /\ hire' = [hire EXCEPT ![e].status = "active"]
       /\ membership' = IF p # Nothing /\ membership[p] = "deactivated"
                          THEN [membership EXCEPT ![p] = "active"] ELSE membership
       /\ lateLinks' = lateLinks \ {e}
  /\ DeskCommits(s)
  /\ UNCHANGED <<account, head, invite, accepted>>

\* update_department with a head: an active employee, or nobody.
BeginSetHead(s, d, e) ==
  /\ e \in {f \in Hires : hire[f] # Nothing /\ hire[f].status # "inactive"} \cup {Nothing}
  /\ DeskReady(s, [op |-> "head", d |-> d, e |-> e])

FinishSetHead(s) ==
  /\ DeskDoing(s, "head")
  /\ head' = [head EXCEPT ![desk[s].todo.d] = desk[s].todo.e]
  /\ DeskCommits(s)
  /\ UNCHANGED <<account, membership, hire, invite, accepted, lateLinks>>

StaffNext ==
  \/ \E s \in Desks :
       \/ AbandonDesk(s)
       \/ \E p \in Folk :
            \/ BeginRegister(s, p) \/ BeginDeactivate(s, p) \/ BeginReactivate(s, p)
            \/ BeginInvite(s, p)
            \/ \E e \in Hires : BeginLinkUser(s, e, p)
       \/ \E i \in Invites : BeginAccept(s, i)
       \/ \E e \in Hires :
            \/ \E p \in Folk \cup {Nothing} : BeginCreateHire(s, e, p)
            \/ BeginGrantLogin(s, e) \/ BeginOffboard(s, e) \/ BeginReinstate(s, e)
       \/ \E d \in Units, e \in Hires \cup {Nothing} : BeginSetHead(s, d, e)
       \/ FinishRegister(s) \/ FinishDeactivate(s) \/ FinishReactivate(s)
       \/ FinishInvite(s) \/ FinishAdd(s) \/ FinishAccept(s)
       \/ FinishCreateHire(s) \/ FinishLinkUser(s)
       \/ FinishOffboard(s) \/ FinishReinstate(s) \/ FinishSetHead(s)

StaffSpec == StaffInit /\ [][StaffNext]_staffVars

(***************************************************************************)
(* What the people's records promise                                       *)
(***************************************************************************)
\* One person, one login, one employee record, one invite.  However links, invites and
\* additions interleave, a login belongs to one employee at most, and is the login of a
\* member (uq index on employees, models.py); one person accepts one invite, also if
\* two requests sent them one each and both links are opened at once; and a new invite
\* replaces the old one ("the old link stops working") unless two requests overlapped.
LoginsAreExclusive ==
  /\ \A e, f \in Hires :
       hire[e] # Nothing /\ hire[e].user # Nothing =>
         /\ membership[hire[e].user] # "none"
         /\ hire[f] # Nothing /\ hire[f].user = hire[e].user => e = f
  /\ \A p \in Folk :
       /\ Cardinality({i \in accepted : invite[i].email = p}) <= 1
       /\ ~staffRaced => Cardinality(UnusedInvites(p)) <= 1

\* Employee status and login "never disagree" (reactivate_membership): whoever left
\* has no active membership and heads no department.  Two exceptions are the code's
\* own: requests that overlapped, and a login linked by hand to somebody who had
\* left, which link_user does not refuse.
LeaversAreLockedOut ==
  ~staffRaced => \A e \in Hires :
    hire[e] # Nothing /\ hire[e].status = "inactive" =>
      /\ hire[e].user # Nothing /\ e \notin lateLinks => membership[hire[e].user] # "active"
      /\ \A d \in Units : head[d] # e

=============================================================================
