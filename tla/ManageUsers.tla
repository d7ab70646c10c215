------------------------------- MODULE ManageUsers -------------------------------
(* The accounts: the owner's panel that lists, creates, resets and deletes users   *)
(* and the row that changes one's own password (UserMgmt), the server's routes     *)
(* behind them (routes/auth), and another owner at work in another browser.        *)
(*                                                                                 *)
(* A list that was read before a change may arrive after it, and the end of a      *)
(* request acts on whichever form is open by then.                                 *)
EXTENDS Naturals, FiniteSets

CONSTANTS
  Names,        \* the accounts, the two owners' own apart
  MaxUserJobs,  \* bound: requests on their way
  MaxUserReads, \* bound: lists on their way
  NoUser        \* no form is open; no dialog; nothing loaded

ASSUME ManageUsersAssumption ==
  NoUser \notin Names /\ {MaxUserJobs, MaxUserReads} \subseteq Nat

Accounts == [Names -> {"none", "member", "owner"}]

VARIABLES
  accounts,     \* the users table: no account, a family or viewer account, an owner's
  userReads,    \* lists on their way: what they read
  users,        \* the panel's list, or NoUser before the first
  usersFailed,    \* the panel shows an error in the list's place
  addOpen,      \* the form of a new user shows
  resetOpenFor, \* the user whose password form is open
  userJobs,     \* requests on their way; whether the form they came from still shows
  userDialog,   \* the user the confirmation on screen would delete
  pwOpen, pwFilled,  \* the password row: its form shows; its fields hold a text
  pwJob              \* its request; it is `submitting` for as long as there is one

panelUserVars == <<userReads, users, usersFailed, addOpen, resetOpenFor, userJobs, userDialog>>
pwVars == <<pwOpen, pwFilled, pwJob>>
userVars == <<accounts, panelUserVars, pwVars>>

Panel == userDialog = NoUser
Listed(name) == users # NoUser /\ ~usersFailed /\ users[name] # "none"

\* Forms that leave the screen are forgotten by their requests, which go on.
FormsLeft(jobs, addStays, resetStays) ==
  {IF \/ job.kind = "create" /\ ~addStays
      \/ job.kind = "reset" /\ ~resetStays
     THEN [job EXCEPT !.form = "gone"] ELSE job : job \in jobs}

-------------------------------------------------------------------------------
(* The list *)

\* bound: lists on their way
Refresh ==
  /\ Cardinality(userReads \cup {accounts}) <= MaxUserReads
  /\ userReads' = userReads \cup {accounts}

\* refresh and the first load: the answer that arrives last is the one that shows.
UsersListed(read) ==
  /\ userReads' = userReads \ {read} /\ users' = read /\ usersFailed' = FALSE
  /\ userJobs' = FormsLeft(userJobs, TRUE,
                           resetOpenFor # NoUser /\ read[resetOpenFor] # "none")
  /\ UNCHANGED <<accounts, addOpen, resetOpenFor, userDialog, pwVars>>

UsersNotListed(read) ==
  /\ userReads' = userReads \ {read} /\ usersFailed' = TRUE
  /\ userJobs' = FormsLeft(userJobs, TRUE, FALSE)
  /\ UNCHANGED <<accounts, users, addOpen, resetOpenFor, userDialog, pwVars>>

\* Another page and back.
ReopenPanel ==
  /\ Panel
  /\ userReads' = {accounts} /\ users' = NoUser /\ usersFailed' = FALSE
  /\ addOpen' = FALSE /\ resetOpenFor' = NoUser
  /\ userJobs' = {[job EXCEPT !.form = "closed"] : job \in userJobs}
  /\ UNCHANGED <<accounts, userDialog, pwVars>>

-------------------------------------------------------------------------------
(* Forms and requests *)

\* "Add user" and "Cancel", the header's and the form's: not held up by a request.
ToggleAdd ==
  /\ Panel /\ addOpen' = ~addOpen
  /\ userJobs' = FormsLeft(userJobs, FALSE, TRUE)
  /\ UNCHANGED <<accounts, userReads, users, usersFailed, resetOpenFor, userDialog, pwVars>>

\* "Set new password", its "Close" and the form's "Cancel".
ToggleReset(name) ==
  /\ Panel /\ Listed(name)
  /\ resetOpenFor' = IF resetOpenFor = name THEN NoUser ELSE name
  /\ userJobs' = FormsLeft(userJobs, TRUE, FALSE)
  /\ UNCHANGED <<accounts, userReads, users, usersFailed, addOpen, userDialog, pwVars>>

\* bound: requests on their way, and one of a kind
UserJobSent(kind, name, role) ==
  LET job == [kind |-> kind, name |-> name, role |-> role, form |-> "open", at |-> "sent"] IN
  /\ Cardinality(userJobs) < MaxUserJobs /\ job \notin userJobs
  /\ userJobs' = userJobs \cup {job}

Submitting(kind) == \E job \in userJobs : job.kind = kind /\ job.form = "open"

CreateUser(name, role) ==
  /\ Panel /\ addOpen /\ ~Submitting("create")
  /\ UserJobSent("create", name, role)
  /\ UNCHANGED <<accounts, userReads, users, usersFailed, addOpen, resetOpenFor, userDialog,
                 pwVars>>

ResetPassword(name) ==
  /\ Panel /\ Listed(name) /\ resetOpenFor = name /\ ~Submitting("reset")
  /\ UserJobSent("reset", name, "none")
  /\ UNCHANGED <<accounts, userReads, users, usersFailed, addOpen, resetOpenFor, userDialog,
                 pwVars>>

\* The button is disabled by the role the list shows, which may be an old one.
AskDeleteUser(name) ==
  /\ Panel /\ Listed(name) /\ users[name] # "owner"
  /\ userDialog' = name
  /\ UNCHANGED <<accounts, userReads, users, usersFailed, addOpen, resetOpenFor, userJobs,
                 pwVars>>

DeleteUserConfirmed(yes) ==
  /\ ~Panel /\ userDialog' = NoUser
  /\ IF yes THEN UserJobSent("delete", userDialog, "none") ELSE UNCHANGED userJobs
  /\ UNCHANGED <<accounts, userReads, users, usersFailed, addOpen, resetOpenFor, pwVars>>

-------------------------------------------------------------------------------
(* The server *)

\* admin_create_user: 409. admin_reset_password: 404. admin_delete_user: 404, and 400
\* for a privileged account, in the transaction that deletes (delete_user_atomic).
Verdict(job) ==
  CASE job.kind = "create" /\ accounts[job.name] # "none" -> "refused"
    [] job.kind # "create" /\ accounts[job.name] = "none" -> "missing"
    [] job.kind = "delete" /\ accounts[job.name] = "owner" -> "refused"
    [] OTHER -> "done"

UserJobServed(job) ==
  /\ job.at = "sent"
  /\ userJobs' = (userJobs \ {job}) \cup {[job EXCEPT !.at = Verdict(job)]}
  /\ accounts' = IF Verdict(job) = "done" /\ job.kind # "reset"
                   THEN [accounts EXCEPT ![job.name] = job.role] ELSE accounts
  /\ UNCHANGED <<userReads, users, usersFailed, addOpen, resetOpenFor, userDialog, pwVars>>

\* The other owner's browser, under the same routes.
AnotherOwner(name, role) ==
  /\ IF role = "none" THEN accounts[name] = "member" ELSE accounts[name] = "none"
  /\ accounts' = [accounts EXCEPT ![name] = role]
  /\ UNCHANGED <<panelUserVars, pwVars>>

-------------------------------------------------------------------------------
(* The ends of the requests *)

\* onCreated and onResetSaved close the form that is open now, not the one they are of;
\* a deletion that found nobody reads the list again as well.
UserJobSucceeds(job) ==
  LET rest == userJobs \ {job}
      again == job.at = "done" \/ (job.kind = "delete" /\ job.at = "missing") IN
  /\ again /\ job.form # "closed"
  /\ addOpen' = (addOpen /\ job.kind # "create")
  /\ resetOpenFor' = IF job.kind = "reset" THEN NoUser ELSE resetOpenFor
  /\ userJobs' = FormsLeft(rest, job.kind # "create", job.kind # "reset")
  /\ Refresh
  /\ UNCHANGED <<accounts, users, usersFailed, userDialog, pwVars>>

\* Refused, not there, or lost, and its form is free again; or of a panel that is gone.
UserJobEnds(job) ==
  /\ userJobs' = userJobs \ {job}
  /\ UNCHANGED <<accounts, userReads, users, usersFailed, addOpen, resetOpenFor, userDialog,
                 pwVars>>

-------------------------------------------------------------------------------
(* ChangePasswordRow: the one component lives on behind its closed form, so a request *)
(* keeps it `submitting`, and its success closes and wipes the form opened since.     *)

TogglePassword ==
  /\ pwOpen' = ~pwOpen /\ pwFilled' = FALSE
  /\ UNCHANGED <<accounts, panelUserVars, pwJob>>

FillPassword ==
  /\ pwOpen /\ ~pwFilled /\ pwFilled' = TRUE
  /\ UNCHANGED <<accounts, panelUserVars, pwOpen, pwJob>>

ChangePassword ==
  /\ pwOpen /\ pwFilled /\ pwJob = "none" /\ pwJob' = "sent"
  /\ UNCHANGED <<accounts, panelUserVars, pwOpen, pwFilled>>

PasswordAnswered(ok) ==
  /\ pwJob = "sent" /\ pwJob' = "none"
  /\ pwOpen' = (pwOpen /\ ~ok) /\ pwFilled' = (pwFilled /\ ~ok)
  /\ UNCHANGED <<accounts, panelUserVars>>

-------------------------------------------------------------------------------
ManageUsersInit ==
  /\ accounts = [n \in Names |-> "none"]
  /\ userReads = {accounts} /\ users = NoUser /\ usersFailed = FALSE
  /\ addOpen = FALSE /\ resetOpenFor = NoUser /\ userJobs = {} /\ userDialog = NoUser
  /\ pwOpen = FALSE /\ pwFilled = FALSE /\ pwJob = "none"

UsersPanelNext ==
  \/ \E read \in userReads : UsersListed(read) \/ UsersNotListed(read)
  \/ ReopenPanel \/ ToggleAdd
  \/ \E name \in Names, role \in {"member", "owner"} : CreateUser(name, role)
  \/ \E name \in Names, role \in {"none", "member", "owner"} : AnotherOwner(name, role)
  \/ \E name \in Names : ToggleReset(name) \/ ResetPassword(name) \/ AskDeleteUser(name)
  \/ \E yes \in BOOLEAN : DeleteUserConfirmed(yes)
  \/ \E job \in userJobs : UserJobServed(job) \/ UserJobSucceeds(job) \/ UserJobEnds(job)

PasswordNext ==
  \/ TogglePassword \/ FillPassword \/ ChangePassword
  \/ \E ok \in BOOLEAN : PasswordAnswered(ok)

ManageUsersNext == UsersPanelNext \/ PasswordNext

ManageUsersSpec == ManageUsersInit /\ [][ManageUsersNext]_userVars

-------------------------------------------------------------------------------
ManageUsersTypeOK ==
  /\ accounts \in Accounts /\ userReads \subseteq Accounts
  /\ users \in Accounts \cup {NoUser}
  /\ {usersFailed, addOpen, pwOpen, pwFilled} \subseteq BOOLEAN
  /\ {resetOpenFor, userDialog} \subseteq Names \cup {NoUser}
  /\ userJobs \subseteq
       [kind : {"create", "delete", "reset"}, name : Names, role : {"none", "member", "owner"},
        form : {"open", "gone", "closed"}, at : {"sent", "done", "refused", "missing"}]
  /\ pwJob \in {"none", "sent"}

===============================================================================
