------------------------------ MODULE Accounts ------------------------------
(***************************************************************************)
(* Users, their roles, passwords and API tokens: the handlers of          *)
(* /auth and /users with the middleware in front of them, the commands of *)
(* mirror-cli that call them, with the token file of each home, and       *)
(* admin-cli, which writes the same database beside the server.           *)
(*                                                                         *)
(* A request is several statements, and none of them runs in a            *)
(* transaction with another (AssignRoleToUser is one statement here, it   *)
(* has a transaction of its own).  Of the four roles two are told apart:  *)
(* admin, the only one with the permissions of /users, and the rest.      *)
(* A password is its number: the n-th the user has had.  Deleting a user  *)
(* deletes tokens and role with it (ON DELETE CASCADE); rows are found by *)
(* their id, so that a name that is used again is another user.           *)
(***************************************************************************)
EXTENDS Naturals, FiniteSets

CONSTANTS
  User, Root,     \* users that may exist; the first, who is not deleted
  Cli,            \* shells with a home and a token file
  NoToken,        \* an empty token file
  MaxTokens,      \* bound: tokens issued
  MaxCalls,       \* bound: requests
  MaxPassword,    \* bound: passwords a user has had
  MaxFailures     \* bound: statements that fail, processes that die

ASSUME AccountsAssumption ==
  /\ Root \in User
  /\ MaxTokens \in Nat /\ MaxCalls \in Nat
  /\ MaxPassword \in Nat \ {0} /\ MaxFailures \in Nat

Role == {"admin", "operator"}
Managing == {"add", "set-role", "delete", "reset-password"}

VARIABLES
  accounts,   \* users that exist
  role,       \* user_roles: a role, or "none"; "gone" once deleted
  password,   \* the number of the user's password
  tokens,     \* api_tokens: [id, of, pw], pw the password it goes back to
  home,       \* the token in each home, or NoToken
  call,       \* what each shell's request does and how far it is
  issued,     \* tokens issued so far
  spent,      \* requests and failures so far
  kept,       \* history: users whose tokens outlived a password
  late,       \* history: tokens issued for a password that was changed
  bare        \* history: users nobody is left to give a role

dataVars    == <<accounts, role, password, tokens>>
accountHistory == <<kept, late, bare>>
accountVars == <<dataVars, home, call, issued, spent, accountHistory>>

Token == [id : 1 .. MaxTokens, of : User, pw : 1 .. MaxPassword]

NoCall == [op |-> "none", stage |-> "idle", by |-> Root, to |-> Root,
           pw |-> 1, role |-> "operator"]

Stages == {"idle", "sent", "verified", "user", "permitted", "checked",
           "created", "updated", "revoked"}

AccountsTypeOK ==
  /\ accounts \in SUBSET User
  /\ role \in [User -> Role \cup {"none", "gone"}]
  /\ password \in [User -> 1 .. MaxPassword]
  /\ tokens \in SUBSET Token
  /\ home \in [Cli -> Token \cup {NoToken}]
  /\ call \in [Cli ->
       [op : Managing \cup {"none", "login", "change-password", "reset-token"},
        stage : Stages, by : User, to : User, pw : 1 .. MaxPassword,
        role : Role]]
  /\ issued \in 0 .. MaxTokens
  /\ spent \in [calls : 0 .. MaxCalls, failures : 0 .. MaxFailures]
  /\ kept \in SUBSET User /\ late \in SUBSET Token
  /\ bare \in SUBSET User

(* The program is bootstrapped with one admin.                            *)
AccountsInit ==
  /\ accounts = {Root}
  /\ role = [u \in User |-> IF u = Root THEN "admin" ELSE "none"]
  /\ password = [u \in User |-> 1]
  /\ tokens = {} /\ home = [c \in Cli |-> NoToken]
  /\ call = [c \in Cli |-> NoCall]
  /\ issued = 0 /\ spent = [calls |-> 0, failures |-> 0]
  /\ kept = {} /\ late = {} /\ bare = {}

Calls == /\ spent.calls < MaxCalls
         /\ spent' = [spent EXCEPT !.calls = @ + 1]
Fails == /\ spent.failures < MaxFailures
         /\ spent' = [spent EXCEPT !.failures = @ + 1]

At(c, op, stage) == call[c].op = op /\ call[c].stage = stage
GoTo(c, stage)   == call' = [call EXCEPT ![c].stage = stage]
Finish(c)        == call' = [call EXCEPT ![c] = NoCall]

(* Between the row of a new user and its role, and between the update of  *)
(* a password and the revocation.                                         *)
Adding(u)   == \E c \in Cli : At(c, "add", "created") /\ call[c].to = u
Updating(u) == \E c \in Cli : call[c].stage = "updated" /\ call[c].to = u

(* The user of a request, and whom it is about.                           *)
By(c) == call[c].by
To(c) == call[c].to

TokensOf(u) == {t \in tokens : t.of = u}

(* CreateApiToken: a new row for user u, which the foreign key refuses for *)
(* a user who is gone.                                                     *)
CreateApiToken(u, pw) ==
  LET t == [id |-> issued + 1, of |-> u, pw |-> pw]
  IN IF u \in accounts
       THEN /\ issued < MaxTokens /\ issued' = issued + 1
            /\ tokens' = tokens \cup {t}
            /\ late' = IF pw < password[u] THEN late \cup {t} ELSE late
       ELSE UNCHANGED <<tokens, issued, late>>

(* SaveToken: what was created, over the token that was in the home.       *)
SaveToken(c) ==
  home' = IF tokens' = tokens THEN home
          ELSE [home EXCEPT ![c] = CHOOSE t \in tokens' : t \notin tokens]

Issue(c, u, pw) == CreateApiToken(u, pw) /\ SaveToken(c)

(* ClearToken.                                                             *)
ClearToken(c) == home' = [home EXCEPT ![c] = NoToken]

(* RevokeAllUserTokens; void tokens stay in the files of other homes.      *)
RevokeAllUserTokens(u) ==
  /\ tokens' = tokens \ TokensOf(u)
  /\ kept' = kept \ {u}

(* AssignRoleToUser, of a user there is.                                   *)
AssignRoleToUser(u, r) ==
  role' = IF u \in accounts THEN [role EXCEPT ![u] = r] ELSE role

(* UserHasPermission, for the permissions of /users.                       *)
UserHasPermission(u) == role[u] = "admin"

(* UpdateUserPassword.                                                     *)
UpdateUserPassword(u) ==
  /\ password[u] < MaxPassword
  /\ password' = IF u \in accounts THEN [password EXCEPT ![u] = @ + 1]
                 ELSE password

(* database.DeleteUser: the user goes, with tokens and role.               *)
RemoveRow(u) ==
  /\ accounts' = accounts \ {u}
  /\ role' = [role EXCEPT ![u] = "gone"]
  /\ tokens' = tokens \ TokensOf(u)
  /\ kept' = kept \ {u}

-----------------------------------------------------------------------------
(* The client.                                                            *)

(* login: the handler reads the user and verifies the password ...        *)
Login(c, u) ==
  /\ call[c] = NoCall /\ u \in accounts /\ Calls
  /\ call' = [call EXCEPT ![c] = [NoCall EXCEPT
       !.op = "login", !.stage = "verified", !.by = u, !.pw = password[u]]]
  /\ UNCHANGED <<dataVars, home, issued, accountHistory>>

(* ... and creates the token, which SaveToken writes over the old one.    *)
LoginIssues(c) ==
  /\ At(c, "login", "verified")
  /\ Issue(c, By(c), call[c].pw)
  /\ Finish(c)
  /\ UNCHANGED <<accounts, role, password, spent, kept, bare>>

Logout(c) ==
  /\ call[c] = NoCall /\ home[c] # NoToken
  /\ ClearToken(c)
  /\ UNCHANGED <<dataVars, call, issued, spent, kept, late, bare>>

(* The token is loaded from the file; what it is good for the server says. *)
LoadToken(c) == home[c] # NoToken
Me(c)        == home[c].of

(* A token with a row; the day after which it expires does not pass here. *)
ValidateApiToken(token) == token \in tokens

(* fetchMe, which the server answers to a token it knows.                  *)
FetchMe(c) == ValidateApiToken(home[c]) /\ role[Me(c)] \in Role

SendCall(c, op, to, newRole, pw) ==
  /\ call[c] = NoCall /\ LoadToken(c) /\ Calls
  /\ call' = [call EXCEPT ![c] = [op |-> op, stage |-> "sent",
       by |-> Me(c), to |-> to, role |-> newRole, pw |-> pw]]
  /\ UNCHANGED <<dataVars, home, issued, accountHistory>>

(* The commands; what each checks before it sends anything is asked of the *)
(* caller's own profile.                                                   *)
UsersAdd(c, u, r) ==
  /\ SendCall(c, "add", u, r, 1) /\ FetchMe(c)
  /\ r = "admin" => role[Me(c)] = "admin"

UsersSetRole(c, u, r) ==
  SendCall(c, "set-role", u, r, 1) /\ FetchMe(c) /\ u # Me(c)

UsersDelete(c, u) == SendCall(c, "delete", u, "operator", 1)

UsersResetPassword(c, u) ==
  /\ SendCall(c, "reset-password", u, "operator", 1) /\ FetchMe(c)
  /\ role[Me(c)] = "admin" /\ u # Me(c)

UsersChangePassword(c) ==
  SendCall(c, "change-password", Me(c), "operator", 1)

UsersResetToken(c) ==
  SendCall(c, "reset-token", Me(c), "operator", home[c].pw)

-----------------------------------------------------------------------------
(* The middleware.                                                        *)

(* AuthRequired: a token that is not there is refused.                    *)
Authenticate(c) ==
  /\ call[c].stage = "sent"
  /\ IF ValidateApiToken(home[c]) THEN GoTo(c, "user") ELSE Finish(c)
  /\ UNCHANGED <<dataVars, home, issued, spent, accountHistory>>

(* PermissionRequired, on the routes that have it.                        *)
Permit(c) ==
  /\ call[c].stage = "user" /\ call[c].op \in Managing
  /\ IF UserHasPermission(By(c)) THEN GoTo(c, "permitted") ELSE Finish(c)
  /\ UNCHANGED <<dataVars, home, issued, spent, accountHistory>>

-----------------------------------------------------------------------------
(* handleCreateUser: the requester's role is read again, then the user is *)
(* created, then the role assigned.                                       *)

AddUser(c) ==
  /\ At(c, "add", "permitted")
  /\ IF \/ role[By(c)] \notin Role
        \/ call[c].role = "admin" /\ role[By(c)] # "admin"
        \/ role[To(c)] # "none" \/ To(c) \in accounts
       THEN Finish(c) /\ UNCHANGED accounts
       ELSE accounts' = accounts \cup {To(c)} /\ GoTo(c, "created")
  /\ UNCHANGED <<role, password, tokens, home, issued, spent,
                 accountHistory>>

AddAssigns(c) ==
  /\ At(c, "add", "created")
  /\ AssignRoleToUser(To(c), call[c].role)
  /\ Finish(c)
  /\ UNCHANGED <<accounts, password, tokens, home, issued, spent,
                 accountHistory>>

(* The assignment fails, and the error is returned at once.               *)
AddFailsBare(c) ==
  /\ At(c, "add", "created") /\ Fails
  /\ Finish(c)
  /\ UNCHANGED <<dataVars, home, issued, accountHistory>>

(* The assignment fails, and the new user is deleted.                     *)
AddFails(c) ==
  /\ At(c, "add", "created") /\ Fails
  /\ RemoveRow(To(c))
  /\ Finish(c)
  /\ UNCHANGED <<password, home, issued, late, bare>>

(* So does that DeleteUser, whose error is dropped: the user stays.       *)
RollbackFails(c) ==
  /\ At(c, "add", "created") /\ Fails
  /\ bare' = bare \cup {To(c)}
  /\ Finish(c)
  /\ UNCHANGED <<dataVars, home, issued, kept, late>>

(* The server dies, and with it every request between two statements.     *)
ServerDies ==
  /\ Fails
  /\ call' = [c \in Cli |-> NoCall]
  /\ bare' = bare \cup {u \in User : Adding(u)}
  /\ kept' = kept \cup {u \in User : Updating(u)}
  /\ UNCHANGED <<dataVars, home, issued, late>>

-----------------------------------------------------------------------------
(* handleDeleteUser and handleUpdateUserRole: the checks, then the write. *)

DeleteChecks(c) ==
  /\ At(c, "delete", "permitted")
  /\ IF /\ To(c) \in accounts \ {Root, By(c)}
        /\ role[By(c)] \in Role /\ role[To(c)] \in Role
        /\ role[To(c)] = "admin" => role[By(c)] = "admin"
       THEN GoTo(c, "checked") ELSE Finish(c)
  /\ UNCHANGED <<dataVars, home, issued, spent, accountHistory>>

DeleteUser(c) ==
  /\ At(c, "delete", "checked")
  /\ RemoveRow(To(c))
  /\ Finish(c)
  /\ UNCHANGED <<password, home, issued, spent, late, bare>>

SetRoleChecks(c) ==
  /\ At(c, "set-role", "permitted")
  /\ IF To(c) \in accounts THEN GoTo(c, "checked") ELSE Finish(c)
  /\ UNCHANGED <<dataVars, home, issued, spent, accountHistory>>

SetRole(c) ==
  /\ At(c, "set-role", "checked")
  /\ AssignRoleToUser(To(c), call[c].role)
  /\ Finish(c)
  /\ UNCHANGED <<accounts, password, tokens, home, issued, spent,
                 accountHistory>>

-----------------------------------------------------------------------------
(* Passwords and tokens.                                                  *)

(* handleChangePassword: the old password is compared with the row that   *)
(* AuthRequired read, here by a client who knows it.                      *)
ChangePassword(c) ==
  /\ At(c, "change-password", "user")
  /\ UpdateUserPassword(By(c))
  /\ GoTo(c, "updated")
  /\ UNCHANGED <<accounts, role, tokens, home, issued, spent,
                 accountHistory>>

(* handleResetUserPassword asks once more for an admin.                   *)
ResetPassword(c) ==
  /\ At(c, "reset-password", "permitted")
  /\ IF role[By(c)] = "admin" /\ To(c) \in accounts \ {By(c)}
       THEN UpdateUserPassword(To(c)) /\ GoTo(c, "updated")
       ELSE Finish(c) /\ UNCHANGED password
  /\ UNCHANGED <<accounts, role, tokens, home, issued, spent,
                 accountHistory>>

(* A handler that leaves the tokens alone.                                *)
RevokeNothing(c) ==
  /\ call[c].op \in {"change-password", "reset-password"}
  /\ call[c].stage = "updated"
  /\ IF call[c].op = "change-password" THEN ClearToken(c) ELSE UNCHANGED home
  /\ Finish(c)
  /\ UNCHANGED <<dataVars, issued, spent, accountHistory>>

(* After an update all tokens of the user are revoked; on its answer the  *)
(* change-password command clears its file.                               *)
RevokeAfterUpdate(c) ==
  /\ call[c].op \in {"change-password", "reset-password"}
  /\ call[c].stage = "updated"
  /\ RevokeAllUserTokens(To(c))
  /\ IF call[c].op = "change-password" THEN ClearToken(c) ELSE UNCHANGED home
  /\ Finish(c)
  /\ UNCHANGED <<accounts, role, password, issued, spent, late, bare>>

(* The revocation fails, which is logged: the answer is success.          *)
RevokeFails(c) ==
  /\ call[c].op \in {"change-password", "reset-password"}
  /\ call[c].stage = "updated" /\ Fails
  /\ kept' = kept \cup {To(c)}
  /\ IF call[c].op = "change-password" THEN ClearToken(c) ELSE UNCHANGED home
  /\ Finish(c)
  /\ UNCHANGED <<dataVars, issued, late, bare>>

(* handleResetOwnToken: revoke, then create; the token goes back to the   *)
(* password of the one it was asked with.                                 *)
ResetOwnToken(c) ==
  /\ At(c, "reset-token", "user")
  /\ RevokeAllUserTokens(By(c))
  /\ GoTo(c, "revoked")
  /\ UNCHANGED <<accounts, role, password, home, issued, spent, late,
                 bare>>

ResetIssues(c) ==
  /\ At(c, "reset-token", "revoked")
  /\ Issue(c, By(c), call[c].pw)
  /\ Finish(c)
  /\ UNCHANGED <<accounts, role, password, spent, kept, bare>>

(* The create fails: the home keeps a token that is revoked.              *)
ResetFails(c) ==
  /\ At(c, "reset-token", "revoked") /\ Fails
  /\ Finish(c)
  /\ UNCHANGED <<dataVars, home, issued, kept, late, bare>>

-----------------------------------------------------------------------------
(* admin-cli, on the host of the server, writes without asking anybody.   *)

(* users add: a row of users, without a role.                             *)
AdminAdds(u) ==
  /\ u \notin accounts /\ role[u] = "none" /\ Fails
  /\ accounts' = accounts \cup {u}
  /\ bare' = bare \cup {u}
  /\ UNCHANGED <<role, password, tokens, home, call, issued, kept, late>>

(* reset-admin-password: the initial user's, and no token is revoked.     *)
AdminResetsPassword ==
  /\ Fails
  /\ UpdateUserPassword(Root) /\ kept' = kept \cup {Root}
  /\ UNCHANGED <<accounts, role, tokens, home, call, issued, late, bare>>

(* tokens generate: a token nobody had to know a password for; it is       *)
(* printed, and in nobody's home.                                          *)
TokensGenerate(u) ==
  /\ u \in accounts /\ Fails
  /\ CreateApiToken(u, password[u])
  /\ UNCHANGED <<accounts, role, password, home, call, kept, bare>>

(* tokens reset revokes first, and then does the same; here its first half. *)
TokensReset(u) ==
  /\ TokensOf(u) # {} /\ Fails
  /\ RevokeAllUserTokens(u)
  /\ UNCHANGED <<accounts, role, password, home, call, issued, late, bare>>

AccountsNext ==
  \/ \E c \in Cli :
       \/ \E u \in User : Login(c, u)
       \/ \E u \in User, r \in Role : UsersAdd(c, u, r) \/ UsersSetRole(c, u, r)
       \/ \E u \in User : UsersDelete(c, u) \/ UsersResetPassword(c, u)
       \/ UsersChangePassword(c) \/ UsersResetToken(c)
       \/ LoginIssues(c) \/ Logout(c) \/ Authenticate(c) \/ Permit(c)
       \/ AddUser(c) \/ AddAssigns(c) \/ AddFails(c) \/ RollbackFails(c)
       \/ DeleteChecks(c) \/ DeleteUser(c) \/ SetRoleChecks(c) \/ SetRole(c)
       \/ ChangePassword(c) \/ ResetPassword(c)
       \/ RevokeAfterUpdate(c) \/ RevokeFails(c)
       \/ ResetOwnToken(c) \/ ResetIssues(c) \/ ResetFails(c)
  \/ \E u \in User : AdminAdds(u) \/ TokensGenerate(u) \/ TokensReset(u)
  \/ AdminResetsPassword
  \/ ServerDies

AccountsSpec == AccountsInit /\ [][AccountsNext]_accountVars

-----------------------------------------------------------------------------
(* A token that goes back to a password that is no longer the user's was  *)
(* issued to a request that had begun before the change, or its           *)
(* revocation is still to come, or it failed or died with the server, or  *)
(* the change was made with admin-cli, which revokes nothing.             *)
OldTokensOverlap ==
  \A t \in tokens :
    t.pw < password[t.of] => t \in late \/ t.of \in kept \/ Updating(t.of)

(* A user without a role makes the list of users fail for everyone: such  *)
(* a user is being created right now, or was added with admin-cli, or the *)
(* creation was cut short twice over, by a role that could not be given   *)
(* and a user who could not be deleted, or by the death of the server.    *)
RolelessIsTemporary ==
  \A u \in accounts : role[u] \notin Role => Adding(u) \/ u \in bare
=============================================================================
