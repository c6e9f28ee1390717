------------------------ MODULE Administration_proofs ------------------------
(***************************************************************************)
(* Proofs about what administrators rely on: Accounts, for any users,      *)
(* shells and bounds, and Compliance, for hours, days and weeks of any     *)
(* length and any bounds.                                                  *)
(***************************************************************************)
EXTENDS Accounts, Compliance, TLAPS

-----------------------------------------------------------------------------
(* Which tokens can outlive a password, and which users can be without a   *)
(* role.                                                                   *)

(* Who changes a password changes the own one.                             *)
OwnPassword == \A c \in Cli : call[c].op = "change-password" => To(c) = By(c)

AccountsInv ==
  AccountsTypeOK /\ OwnPassword /\ OldTokensOverlap /\ RolelessIsTemporary
-----------------------------------------------------------------------------
(* The requests in flight.                                                 *)
CallType == [op : Managing \cup {"none", "login", "change-password", "reset-token"},
             stage : Stages, by : User, to : User, pw : 1 .. MaxPassword,
             role : Role]

LEMMA CallTypes ==
  ASSUME AccountsTypeOK, NEW c \in Cli
  PROVE  /\ call[c] \in CallType /\ NoCall \in CallType
         /\ \A s \in Stages : [call[c] EXCEPT !.stage = s] \in CallType
         /\ By(c) \in User /\ To(c) \in User
         /\ call[c].pw \in 1 .. MaxPassword /\ call[c].role \in Role
<1>1. call[c] \in CallType
  BY DEF AccountsTypeOK, CallType
<1>2. NoCall \in CallType
  BY AccountsAssumption DEF NoCall, CallType, Stages, Role
<1> QED
  BY <1>1, <1>2 DEF CallType, By, To

(* A step of a request to another stage, or to its end.                    *)
LEMMA Moved ==
  ASSUME AccountsTypeOK, OwnPassword, NEW c \in Cli, NEW s \in Stages,
         GoTo(c, s) \/ Finish(c)
  PROVE  /\ call' \in [Cli -> CallType] /\ OwnPassword'
         /\ \A d \in Cli : d # c => call'[d] = call[d]
         /\ GoTo(c, s) => /\ call'[c].stage = s /\ call'[c].op = call[c].op
                          /\ call'[c].to = call[c].to
<1>1. /\ call \in [Cli -> CallType] /\ NoCall \in CallType
      /\ [call[c] EXCEPT !.stage = s] \in CallType
  BY CallTypes DEF AccountsTypeOK, CallType
<1>2. /\ call' \in [Cli -> CallType]
      /\ \A d \in Cli : d # c => call'[d] = call[d]
      /\ call'[c] = NoCall \/ call'[c] = [call[c] EXCEPT !.stage = s]
      /\ GoTo(c, s) => call'[c] = [call[c] EXCEPT !.stage = s]
  BY <1>1 DEF GoTo, Finish
<1>3. OwnPassword'
  BY <1>1, <1>2 DEF OwnPassword, NoCall, By, To, CallType
<1> QED
  BY <1>1, <1>2, <1>3 DEF CallType

(* CreateApiToken and the file it is saved in.                             *)
LEMMA Created ==
  ASSUME AccountsTypeOK, NEW u \in User, NEW pw \in 1 .. MaxPassword,
         CreateApiToken(u, pw)
  PROVE  /\ tokens' \in SUBSET Token /\ issued' \in 0 .. MaxTokens
         /\ late' \in SUBSET Token /\ tokens \subseteq tokens'
         /\ late \subseteq late'
         /\ \A t \in tokens' : \/ t \in tokens \/ t \in late'
                               \/ t.of = u /\ t.pw = pw /\ ~(pw < password[u])
<1> DEFINE t == [id |-> issued + 1, of |-> u, pw |-> pw]
<1>1. CASE u \in accounts
  <2>1. issued + 1 \in 1 .. MaxTokens /\ issued' = issued + 1
    BY <1>1, AccountsAssumption DEF CreateApiToken, AccountsTypeOK
  <2>2. t \in Token /\ t.of = u /\ t.pw = pw
    BY <2>1 DEF Token
  <2>3. /\ tokens' = tokens \cup {t}
        /\ late' = IF pw < password[u] THEN late \cup {t} ELSE late
    BY <1>1 DEF CreateApiToken
  <2>4. issued' \in 0 .. MaxTokens
    BY <2>1
  <2> HIDE DEF t
  <2> QED
    BY <2>2, <2>3, <2>4 DEF AccountsTypeOK
<1>2. CASE u \notin accounts
  BY <1>2 DEF CreateApiToken, AccountsTypeOK
<1> QED
  BY <1>1, <1>2

LEMMA SavedToken ==
  ASSUME AccountsTypeOK, NEW c \in Cli, SaveToken(c),
         tokens' \in SUBSET Token, tokens \subseteq tokens'
  PROVE  home' \in [Cli -> Token \cup {NoToken}]
<1>1. CASE tokens' = tokens
  BY <1>1 DEF SaveToken, AccountsTypeOK
<1>2. CASE tokens' # tokens
  <2>1. \E t \in tokens' : t \notin tokens
    BY <1>2
  <2> DEFINE new == CHOOSE t \in tokens' : t \notin tokens
  <2>2. new \in Token
    BY <2>1
  <2>3. home' = [home EXCEPT ![c] = new]
    BY <1>2 DEF SaveToken
  <2> HIDE DEF new
  <2> QED
    BY <2>2, <2>3 DEF AccountsTypeOK
<1> QED
  BY <1>1, <1>2
-----------------------------------------------------------------------------
(* What lets tokens outlive a password, and a user be without a role.      *)
Outlived(u) == u \in kept \/ Updating(u)

LEMMA OldTokensKept ==
  ASSUME OldTokensOverlap, late \subseteq late',
         \A t \in tokens' : \/ t \in tokens \/ t \in late'
                            \/ ~(t.pw < password'[t.of]),
         \A t \in tokens' : t \in tokens => \/ password'[t.of] = password[t.of]
                                            \/ Outlived(t.of)',
         \A t \in tokens' : Outlived(t.of) => Outlived(t.of)'
  PROVE  OldTokensOverlap'
BY DEF OldTokensOverlap, Outlived

LEMMA RolelessKept ==
  ASSUME RolelessIsTemporary,
         \A u \in accounts' :
           \/ role'[u] \in Role \/ Adding(u)' \/ u \in bare'
           \/ /\ u \in accounts /\ role'[u] = role[u] /\ bare \subseteq bare'
              /\ Adding(u) => Adding(u)'
  PROVE  RolelessIsTemporary'
BY DEF RolelessIsTemporary

(* A request that goes on leaves what the others are at.                   *)
LEMMA Witnesses ==
  ASSUME NEW c \in Cli, NEW u, \A d \in Cli : d # c => call'[d] = call[d]
  PROVE  /\ call[c].stage # "updated" \/ To(c) # u =>
              (Outlived(u) => u \in kept \/ Updating(u)')
         /\ call[c].stage # "created" \/ To(c) # u => (Adding(u) => Adding(u)')
BY DEF Outlived, Adding, Updating, At, To

(* Steps that only read, of the shells and of the server.                  *)
LEMMA ReadsKept ==
  ASSUME AccountsInv, NEW c \in Cli, NEW s \in Stages,
         GoTo(c, s) \/ Finish(c), call[c].stage \notin {"updated", "created"},
         UNCHANGED <<dataVars, home, issued, spent, accountHistory>>
  PROVE  AccountsInv'
<1> USE DEF AccountsInv, dataVars, accountHistory
<1>1. /\ call' \in [Cli -> CallType] /\ OwnPassword'
      /\ \A d \in Cli : d # c => call'[d] = call[d]
  BY Moved
<1>2. AccountsTypeOK'
  BY <1>1 DEF AccountsTypeOK, CallType
<1>3. \A u : (Outlived(u) => Outlived(u)') /\ (Adding(u) => Adding(u)')
  BY <1>1, Witnesses DEF Outlived
<1>4. OldTokensOverlap'
  BY <1>3, OldTokensKept
<1>5. RolelessIsTemporary'
  BY <1>3, RolelessKept
<1> QED
  BY <1>1, <1>2, <1>4, <1>5

(* Steps by which a shell sends a request.                                 *)
LEMMA SendsKept ==
  ASSUME AccountsInv, NEW c \in Cli, NEW r \in CallType,
         call[c] = NoCall, call' = [call EXCEPT ![c] = r], Calls,
         r.op = "change-password" => r.to = r.by,
         UNCHANGED <<dataVars, home, issued, accountHistory>>
  PROVE  AccountsInv'
<1> USE DEF AccountsInv, dataVars, accountHistory
<1>0. call \in [Cli -> CallType]
  BY DEF AccountsTypeOK, CallType
<1>1. /\ call' \in [Cli -> CallType] /\ call'[c] = r
      /\ \A d \in Cli : d # c => call'[d] = call[d]
  BY <1>0
<1>2. spent' \in [calls : 0 .. MaxCalls, failures : 0 .. MaxFailures]
  BY AccountsAssumption DEF AccountsTypeOK, Calls
<1>3. AccountsTypeOK'
  BY <1>1, <1>2 DEF AccountsTypeOK, CallType
<1>4. OwnPassword'
  BY <1>1 DEF OwnPassword, By, To
<1>5. call[c].stage \notin {"updated", "created"}
  BY DEF NoCall
<1>6. \A u : (Outlived(u) => Outlived(u)') /\ (Adding(u) => Adding(u)')
  BY <1>1, <1>5, Witnesses DEF Outlived
<1>7. OldTokensOverlap'
  BY <1>6, OldTokensKept
<1>8. RolelessIsTemporary'
  BY <1>6, RolelessKept
<1> QED
  BY <1>3, <1>4, <1>7, <1>8

LEMMA FailureTypes ==
  ASSUME AccountsTypeOK, Fails \/ UNCHANGED spent
  PROVE  spent' \in [calls : 0 .. MaxCalls, failures : 0 .. MaxFailures]
BY AccountsAssumption DEF AccountsTypeOK, Fails
-----------------------------------------------------------------------------
(* Steps of a request that write; those of admin-cli follow.               *)
LEMMA ShellKept ==
  ASSUME AccountsInv, NEW c \in Cli,
         \/ \E u \in User : Login(c, u)
         \/ \E u \in User, r \in Role : UsersAdd(c, u, r) \/ UsersSetRole(c, u, r)
         \/ \E u \in User : UsersDelete(c, u) \/ UsersResetPassword(c, u)
         \/ UsersChangePassword(c) \/ UsersResetToken(c)
  PROVE  AccountsInv'
<1>1. CASE \E u \in User : Login(c, u)
  <2>1. PICK u \in User : Login(c, u)
    BY <1>1
  <2> DEFINE r == [NoCall EXCEPT !.op = "login", !.stage = "verified",
                                 !.by = u, !.pw = password[u]]
  <2>2. r \in CallType /\ r.op = "login"
    BY AccountsAssumption
       DEF AccountsInv, AccountsTypeOK, NoCall, CallType, Stages, Role
  <2> HIDE DEF r
  <2> QED
    BY <2>1, <2>2, SendsKept DEF Login, r
<1>2. ASSUME NEW op \in Managing \cup {"change-password", "reset-token"},
             NEW u \in User, NEW r \in Role, NEW pw,
             LoadToken(c) => pw \in 1 .. MaxPassword,
             SendCall(c, op, u, r, pw),
             op = "change-password" => u = Me(c)
      PROVE  AccountsInv'
  <2>1. home[c] \in Token /\ Me(c) \in User /\ pw \in 1 .. MaxPassword
    BY <1>2 DEF SendCall, LoadToken, AccountsInv, AccountsTypeOK, Me, Token
  <2> DEFINE req == [op |-> op, stage |-> "sent", by |-> Me(c), to |-> u,
                     role |-> r, pw |-> pw]
  <2>2. req \in CallType
    BY <1>2, <2>1 DEF CallType, Stages
  <2>3. req.op = "change-password" => req.to = req.by
    BY <1>2
  <2>4. /\ call[c] = NoCall /\ call' = [call EXCEPT ![c] = req] /\ Calls
        /\ UNCHANGED <<dataVars, home, issued, accountHistory>>
    BY <1>2 DEF SendCall
  <2> HIDE DEF req
  <2> QED
    BY <2>2, <2>3, <2>4, SendsKept
<1>3. 1 \in 1 .. MaxPassword /\ "operator" \in Role
  BY AccountsAssumption DEF Role
<1>4. LoadToken(c) => Me(c) \in User /\ home[c].pw \in 1 .. MaxPassword
  BY DEF LoadToken, AccountsInv, AccountsTypeOK, Me, Token
<1>5. ASSUME NEW u \in User, NEW r \in Role,
             UsersAdd(c, u, r) \/ UsersSetRole(c, u, r)
      PROVE  AccountsInv'
  BY <1>2, <1>3, <1>5 DEF UsersAdd, UsersSetRole, Managing
<1>6. ASSUME NEW u \in User, UsersDelete(c, u) \/ UsersResetPassword(c, u)
      PROVE  AccountsInv'
  BY <1>2, <1>3, <1>6 DEF UsersDelete, UsersResetPassword, Managing
<1>7. ASSUME UsersChangePassword(c) \/ UsersResetToken(c)
      PROVE  AccountsInv'
  <2>1. LoadToken(c)
    BY <1>7 DEF UsersChangePassword, UsersResetToken, SendCall
  <2> QED
    BY <1>2, <1>3, <1>4, <1>7, <2>1 DEF UsersChangePassword, UsersResetToken
<1> QED
  BY <1>1, <1>5, <1>6, <1>7

(* Steps that end a request, or bring it to the stage "updated", "created" *)
(* or "revoked".                                                           *)
LEMMA HandlerKept ==
  ASSUME AccountsInv, NEW c \in Cli,
         \/ LoginIssues(c) \/ AddUser(c) \/ AddAssigns(c) \/ AddFails(c)
         \/ RollbackFails(c) \/ DeleteUser(c) \/ SetRole(c) \/ ChangePassword(c)
         \/ ResetPassword(c) \/ RevokeAfterUpdate(c) \/ RevokeFails(c)
         \/ ResetOwnToken(c) \/ ResetIssues(c) \/ ResetFails(c)
  PROVE  AccountsInv'
<1> USE DEF AccountsInv, dataVars, accountHistory
<1>0. /\ call[c] \in CallType /\ By(c) \in User /\ To(c) \in User
      /\ call[c].pw \in 1 .. MaxPassword /\ call[c].role \in Role
  BY CallTypes
<1>s. {"updated", "created", "revoked"} \subseteq Stages
  BY DEF Stages
<1>m. ASSUME NEW s \in Stages, GoTo(c, s) \/ Finish(c)
      PROVE  /\ call' \in [Cli -> CallType] /\ OwnPassword'
             /\ \A d \in Cli : d # c => call'[d] = call[d]
             /\ GoTo(c, s) => /\ call'[c].stage = s /\ call'[c].op = call[c].op
                              /\ call'[c].to = call[c].to
  BY <1>m, Moved
<1>1. CASE LoginIssues(c) \/ ResetIssues(c)
  <2>1. PICK u \in User : u = By(c) /\ Issue(c, u, call[c].pw)
    BY <1>0, <1>1 DEF LoginIssues, ResetIssues
  <2>2. /\ tokens' \in SUBSET Token /\ issued' \in 0 .. MaxTokens
        /\ late' \in SUBSET Token /\ tokens \subseteq tokens'
        /\ late \subseteq late'
        /\ \A t \in tokens' : \/ t \in tokens \/ t \in late'
                              \/ ~(t.pw < password[t.of])
    BY <1>0, <2>1, Created DEF Issue
  <2>3. home' \in [Cli -> Token \cup {NoToken}]
    BY <2>1, <2>2, SavedToken DEF Issue
  <2>4. /\ call' \in [Cli -> CallType] /\ OwnPassword'
        /\ \A d \in Cli : d # c => call'[d] = call[d]
        /\ call[c].stage \notin {"updated", "created"}
    BY <1>1, <1>m, <1>s DEF LoginIssues, ResetIssues, At
  <2>5. UNCHANGED <<accounts, role, password, spent, kept, bare>>
    BY <1>1 DEF LoginIssues, ResetIssues
  <2>6. AccountsTypeOK'
    BY <2>2, <2>3, <2>4, <2>5 DEF AccountsTypeOK, CallType
  <2>7. \A v : (Outlived(v) => Outlived(v)') /\ (Adding(v) => Adding(v)')
    BY <2>4, <2>5, Witnesses DEF Outlived
  <2>8. \A t \in tokens' : t.of \in User
    BY <2>2 DEF Token
  <2>9. OldTokensOverlap'
    BY <2>2, <2>5, <2>7, <2>8, OldTokensKept
  <2>10. RolelessIsTemporary'
    BY <2>5, <2>7, RolelessKept DEF AccountsTypeOK
  <2> QED
    BY <2>4, <2>6, <2>9, <2>10
<1>2. CASE AddUser(c)
  <2>1. /\ call' \in [Cli -> CallType] /\ OwnPassword'
        /\ \A d \in Cli : d # c => call'[d] = call[d]
        /\ call[c].stage = "permitted"
        /\ UNCHANGED <<role, password, tokens, home, issued, spent,
                       accountHistory>>
    BY <1>2, <1>m, <1>s DEF AddUser, At
  <2>2. \A u : (Outlived(u) => Outlived(u)') /\ (Adding(u) => Adding(u)')
    BY <2>1, Witnesses DEF Outlived
  <2>3. \/ accounts' = accounts
        \/ \E u \in User : /\ u = To(c) /\ accounts' = accounts \cup {u}
                           /\ Adding(u)'
    BY <1>0, <1>2, <1>m, <1>s DEF AddUser, At, Adding, To
  <2>4. AccountsTypeOK'
    BY <1>0, <2>1, <2>3 DEF AccountsTypeOK, CallType
  <2>5. OldTokensOverlap'
    BY <2>1, <2>2, OldTokensKept
  <2>6. RolelessIsTemporary'
    <3>1. \A u \in accounts' :
            \/ Adding(u)'
            \/ /\ u \in accounts /\ role'[u] = role[u] /\ bare \subseteq bare'
               /\ Adding(u) => Adding(u)'
      BY <2>1, <2>2, <2>3
    <3> QED
      BY <3>1, RolelessKept
  <2> QED
    BY <2>1, <2>4, <2>5, <2>6
<1>3. CASE AddAssigns(c) \/ SetRole(c)
  <2>1. /\ call' \in [Cli -> CallType] /\ OwnPassword'
        /\ \A d \in Cli : d # c => call'[d] = call[d]
        /\ call[c].stage \in {"created", "checked"}
        /\ call[c].stage = "created" => call[c].op = "add"
        /\ AssignRoleToUser(To(c), call[c].role)
        /\ UNCHANGED <<accounts, password, tokens, home, issued, spent,
                       accountHistory>>
    BY <1>3, <1>m, <1>s DEF AddAssigns, SetRole, At
  <2>2. /\ role' \in [User -> Role \cup {"none", "gone"}]
        /\ \A u \in User : role'[u] \in Role \/ role'[u] = role[u]
        /\ To(c) \in accounts => role'[To(c)] \in Role
    BY <1>0, <2>1 DEF AssignRoleToUser, AccountsTypeOK
  <2>3. AccountsTypeOK'
    BY <2>1, <2>2 DEF AccountsTypeOK, CallType
  <2>4. \A u : /\ Outlived(u) => Outlived(u)'
               /\ u # To(c) => (Adding(u) => Adding(u)')
    BY <2>1, Witnesses DEF Outlived
  <2>5. OldTokensOverlap'
    BY <2>1, <2>4, OldTokensKept
  <2>6. RolelessIsTemporary'
    BY <2>1, <2>2, <2>4, RolelessKept DEF AccountsTypeOK
  <2> QED
    BY <2>1, <2>3, <2>5, <2>6
<1>4. CASE AddFails(c) \/ DeleteUser(c)
  <2>1. /\ call' \in [Cli -> CallType] /\ OwnPassword'
        /\ \A d \in Cli : d # c => call'[d] = call[d]
        /\ call[c].stage \in {"created", "checked"}
        /\ RemoveRow(To(c))
        /\ UNCHANGED <<password, home, issued, late, bare>>
        /\ Fails \/ UNCHANGED spent
    BY <1>4, <1>m, <1>s DEF AddFails, DeleteUser, At
  <2>2. /\ role' \in [User -> Role \cup {"none", "gone"}]
        /\ \A u \in User : u # To(c) => role'[u] = role[u]
    BY <1>0, <2>1 DEF RemoveRow, AccountsTypeOK
  <2>3. AccountsTypeOK'
    BY <2>1, <2>2, FailureTypes DEF AccountsTypeOK, CallType, RemoveRow
  <2>4. \A u : u # To(c) => /\ Outlived(u) => Outlived(u)'
                            /\ Adding(u) => Adding(u)'
    BY <2>1, Witnesses DEF Outlived, RemoveRow
  <2>5. \A t \in tokens' : t \in tokens /\ t.of # To(c)
    BY <2>1 DEF RemoveRow, TokensOf
  <2>6. OldTokensOverlap'
    BY <2>1, <2>4, <2>5, OldTokensKept
  <2>7. RolelessIsTemporary'
    BY <2>1, <2>2, <2>4, RolelessKept DEF RemoveRow, AccountsTypeOK
  <2> QED
    BY <2>1, <2>3, <2>6, <2>7
<1>5. CASE ChangePassword(c) \/ ResetPassword(c)
  <2>1. /\ call' \in [Cli -> CallType] /\ OwnPassword'
        /\ \A d \in Cli : d # c => call'[d] = call[d]
        /\ call[c].stage \in {"user", "permitted"}
        /\ UNCHANGED <<accounts, role, tokens, home, issued, spent,
                       accountHistory>>
        /\ \/ UNCHANGED password
           \/ \E u \in User : UpdateUserPassword(u) /\ Updating(u)'
    BY <1>0, <1>5, <1>m, <1>s
       DEF ChangePassword, ResetPassword, At, OwnPassword, Updating, To, By
  <2>2. /\ password' \in [User -> 1 .. MaxPassword]
        /\ \A u \in User : password'[u] = password[u] \/ Outlived(u)'
    <3>1. CASE UNCHANGED password
      BY <3>1 DEF AccountsTypeOK
    <3>2. ASSUME NEW v \in User, UpdateUserPassword(v), Updating(v)'
          PROVE  /\ password' \in [User -> 1 .. MaxPassword]
                 /\ \A u \in User : password'[u] = password[u] \/ Outlived(u)'
      <4>1. /\ password' \in [User -> 1 .. MaxPassword]
            /\ \A u \in User : u # v => password'[u] = password[u]
        BY <3>2, AccountsAssumption DEF UpdateUserPassword, AccountsTypeOK
      <4> QED
        BY <3>2, <4>1 DEF Outlived
    <3> QED
      BY <2>1, <3>1, <3>2
  <2>3. AccountsTypeOK'
    BY <2>1, <2>2 DEF AccountsTypeOK, CallType
  <2>4. \A u : (Outlived(u) => Outlived(u)') /\ (Adding(u) => Adding(u)')
    BY <2>1, Witnesses DEF Outlived
  <2>5. \A t \in tokens : t.of \in User
    BY DEF AccountsTypeOK, Token
  <2>6. OldTokensOverlap'
    BY <2>1, <2>2, <2>4, <2>5, OldTokensKept
  <2>7. RolelessIsTemporary'
    BY <2>1, <2>4, RolelessKept
  <2> QED
    BY <2>1, <2>3, <2>6, <2>7
<1>6. CASE RevokeAfterUpdate(c) \/ ResetOwnToken(c)
  <2>1. PICK u \in User :
          /\ RevokeAllUserTokens(u)
          /\ call[c].stage = "updated" => u = To(c)
    BY <1>0, <1>6 DEF RevokeAfterUpdate, ResetOwnToken, At
  <2>2. /\ call' \in [Cli -> CallType] /\ OwnPassword'
        /\ \A d \in Cli : d # c => call'[d] = call[d]
        /\ call[c].stage # "created"
        /\ home' \in [Cli -> Token \cup {NoToken}]
        /\ UNCHANGED <<accounts, role, password, issued, spent, late, bare>>
    BY <1>6, <1>m, <1>s DEF RevokeAfterUpdate, ResetOwnToken, At, ClearToken,
                           AccountsTypeOK
  <2>3. AccountsTypeOK'
    BY <2>1, <2>2 DEF AccountsTypeOK, CallType, RevokeAllUserTokens
  <2>4. \A v : /\ v # u => (Outlived(v) => Outlived(v)')
               /\ Adding(v) => Adding(v)'
    BY <2>1, <2>2, Witnesses DEF Outlived, RevokeAllUserTokens
  <2>5. \A t \in tokens' : t \in tokens /\ t.of # u
    BY <2>1 DEF RevokeAllUserTokens, TokensOf
  <2>6. OldTokensOverlap'
    BY <2>2, <2>4, <2>5, OldTokensKept
  <2>7. RolelessIsTemporary'
    BY <2>2, <2>4, RolelessKept
  <2> QED
    BY <2>2, <2>3, <2>6, <2>7
<1>7. CASE RevokeFails(c) \/ ResetFails(c)
  <2>1. /\ call' \in [Cli -> CallType] /\ OwnPassword'
        /\ \A d \in Cli : d # c => call'[d] = call[d]
        /\ call[c].stage # "created"
        /\ home' \in [Cli -> Token \cup {NoToken}]
        /\ kept \subseteq kept' /\ kept' \in SUBSET User
        /\ call[c].stage = "updated" => To(c) \in kept'
        /\ UNCHANGED <<dataVars, issued, late, bare>> /\ Fails
    BY <1>0, <1>7, <1>m, <1>s DEF RevokeFails, ResetFails, At, ClearToken,
                                 AccountsTypeOK
  <2>2. AccountsTypeOK'
    BY <2>1, FailureTypes DEF AccountsTypeOK, CallType
  <2>3. \A u : (Outlived(u) => Outlived(u)') /\ (Adding(u) => Adding(u)')
    BY <2>1, Witnesses DEF Outlived
  <2>4. OldTokensOverlap'
    BY <2>1, <2>3, OldTokensKept
  <2>5. RolelessIsTemporary'
    BY <2>1, <2>3, RolelessKept
  <2> QED
    BY <2>1, <2>2, <2>4, <2>5
<1>8. CASE RollbackFails(c)
  <2>1. /\ call' \in [Cli -> CallType] /\ OwnPassword'
        /\ \A d \in Cli : d # c => call'[d] = call[d]
        /\ call[c].stage # "updated"
        /\ bare' = bare \cup {To(c)}
        /\ UNCHANGED <<dataVars, home, issued, kept, late>> /\ Fails
    BY <1>8, <1>m, <1>s DEF RollbackFails, At
  <2>2. AccountsTypeOK'
    BY <1>0, <2>1, FailureTypes DEF AccountsTypeOK, CallType
  <2>3. \A u : /\ Outlived(u) => Outlived(u)'
               /\ u # To(c) => (Adding(u) => Adding(u)')
    BY <2>1, Witnesses DEF Outlived
  <2>4. OldTokensOverlap'
    BY <2>1, <2>3, OldTokensKept
  <2>5. RolelessIsTemporary'
    BY <2>1, <2>3, RolelessKept
  <2> QED
    BY <2>1, <2>2, <2>4, <2>5
<1> QED
  BY <1>1, <1>2, <1>3, <1>4, <1>5, <1>6, <1>7, <1>8

(* The death of the server, which leaves a trace of what it interrupts.    *)
LEMMA DeathKept == ASSUME AccountsInv, ServerDies PROVE AccountsInv'
<1> USE DEF AccountsInv, dataVars
<1>1. NoCall \in CallType
  BY AccountsAssumption DEF NoCall, CallType, Stages, Role
<1>2. /\ call' = [c \in Cli |-> NoCall] /\ Fails
      /\ bare' = bare \cup {u \in User : Adding(u)}
      /\ kept' = kept \cup {u \in User : Updating(u)}
      /\ UNCHANGED <<accounts, role, password, tokens, home, issued, late>>
  BY DEF ServerDies
<1>3. AccountsTypeOK'
  <2>1. call' \in [Cli -> CallType]
    BY <1>1, <1>2
  <2> QED
    BY <1>2, <2>1, FailureTypes DEF AccountsTypeOK, CallType
<1>4. OwnPassword'
  BY <1>2 DEF OwnPassword, NoCall
<1>5. \A u \in User : Updating(u) => u \in kept'
  BY <1>2
<1>6. OldTokensOverlap'
  <2>1. \A t \in tokens : t.of \in User
    BY DEF AccountsTypeOK, Token
  <2> QED
    BY <1>2, <1>5, <2>1 DEF OldTokensOverlap
<1>7. RolelessIsTemporary'
  BY <1>2 DEF RolelessIsTemporary, AccountsTypeOK
<1> QED
  BY <1>3, <1>4, <1>6, <1>7

LEMMA ServerKept ==
  ASSUME AccountsInv, NEW c \in Cli,
         \/ Logout(c) \/ Authenticate(c) \/ Permit(c)
         \/ DeleteChecks(c) \/ SetRoleChecks(c)
  PROVE  AccountsInv'
<1>1. CASE Authenticate(c) \/ Permit(c) \/ DeleteChecks(c) \/ SetRoleChecks(c)
  <2>1. {"user", "permitted", "checked"} \subseteq Stages
    BY DEF Stages
  <2>2. /\ \E s \in Stages : GoTo(c, s) \/ Finish(c)
        /\ call[c].stage \notin {"updated", "created"}
        /\ UNCHANGED <<dataVars, home, issued, spent, accountHistory>>
    BY <1>1, <2>1 DEF Authenticate, Permit, DeleteChecks, SetRoleChecks, At
  <2> QED
    BY <2>2, ReadsKept
<1>2. CASE Logout(c)
  <2>1. /\ home' \in [Cli -> Token \cup {NoToken}]
        /\ UNCHANGED <<dataVars, call, issued, spent, kept, late, bare>>
    BY <1>2 DEF Logout, ClearToken, AccountsInv, AccountsTypeOK
  <2> QED
    BY <2>1 DEF AccountsInv, AccountsTypeOK, OwnPassword, OldTokensOverlap,
                RolelessIsTemporary, Updating, Adding, At, To, By, dataVars
<1> QED
  BY <1>1, <1>2

(* admin-cli.                                                              *)
LEMMA AdminKept ==
  ASSUME AccountsInv,
         \/ \E u \in User : AdminAdds(u) \/ TokensGenerate(u) \/ TokensReset(u)
         \/ AdminResetsPassword
  PROVE  AccountsInv'
<1> USE DEF AccountsInv
<1>1. call' = call /\ home' = home /\ Fails
  BY DEF AdminAdds, TokensGenerate, TokensReset, AdminResetsPassword
<1>2. OwnPassword' /\ \A u : /\ Updating(u)' <=> Updating(u)
                             /\ Adding(u)' <=> Adding(u)
  BY <1>1 DEF OwnPassword, Updating, Adding, At, To, By
<1>3. ASSUME NEW u \in User, AdminAdds(u) PROVE AccountsInv'
  <2>1. /\ accounts' = accounts \cup {u} /\ bare' = bare \cup {u}
        /\ UNCHANGED <<role, password, tokens, issued, kept, late>>
    BY <1>3 DEF AdminAdds
  <2>2. AccountsTypeOK'
    BY <1>1, <2>1, FailureTypes DEF AccountsTypeOK
  <2> QED
    BY <1>2, <2>1, <2>2 DEF OldTokensOverlap, RolelessIsTemporary, Adding
<1>4. ASSUME NEW u \in User, TokensGenerate(u) PROVE AccountsInv'
  <2>1. password[u] \in 1 .. MaxPassword
    BY DEF AccountsTypeOK
  <2>2. /\ tokens' \in SUBSET Token /\ issued' \in 0 .. MaxTokens
        /\ late' \in SUBSET Token /\ late \subseteq late'
        /\ \A t \in tokens' : \/ t \in tokens \/ t \in late'
                              \/ ~(t.pw < password[t.of])
        /\ UNCHANGED <<accounts, role, password, kept, bare>>
    BY <1>4, <2>1, Created DEF TokensGenerate
  <2>3. AccountsTypeOK'
    BY <1>1, <2>2, FailureTypes DEF AccountsTypeOK
  <2> QED
    BY <1>2, <2>2, <2>3 DEF OldTokensOverlap, RolelessIsTemporary, Adding
<1>5. ASSUME NEW u \in User, TokensReset(u) PROVE AccountsInv'
  <2>1. /\ tokens' = tokens \ TokensOf(u) /\ kept' = kept \ {u}
        /\ UNCHANGED <<accounts, role, password, issued, late, bare>>
    BY <1>5 DEF TokensReset, RevokeAllUserTokens
  <2>2. AccountsTypeOK'
    BY <1>1, <2>1, FailureTypes DEF AccountsTypeOK
  <2> QED
    BY <1>2, <2>1, <2>2 DEF OldTokensOverlap, RolelessIsTemporary, Adding,
                            TokensOf
<1>6. CASE AdminResetsPassword
  <2>1. /\ UpdateUserPassword(Root) /\ kept' = kept \cup {Root}
        /\ UNCHANGED <<accounts, role, tokens, issued, late, bare>>
    BY <1>6 DEF AdminResetsPassword
  <2>2. /\ password' \in [User -> 1 .. MaxPassword]
        /\ \A u \in User : u # Root => password'[u] = password[u]
    BY <2>1, AccountsAssumption DEF UpdateUserPassword, AccountsTypeOK
  <2>3. AccountsTypeOK'
    BY <1>1, <2>1, <2>2, FailureTypes, AccountsAssumption DEF AccountsTypeOK
  <2>4. \A t \in tokens : t.of \in User
    BY DEF AccountsTypeOK, Token
  <2> QED
    BY <1>2, <2>1, <2>2, <2>3, <2>4 DEF OldTokensOverlap,
       RolelessIsTemporary, Adding
<1> QED
  BY <1>3, <1>4, <1>5, <1>6

LEMMA InitAccountsInv == AccountsInit => AccountsInv
<1> SUFFICES ASSUME AccountsInit PROVE AccountsInv
  OBVIOUS
<1>1. NoCall \in CallType /\ 1 \in 1 .. MaxPassword
  BY AccountsAssumption DEF NoCall, CallType, Stages, Role
<1>2. AccountsTypeOK
  BY <1>1, AccountsAssumption DEF AccountsInit, AccountsTypeOK, CallType, Role
<1>3. OwnPassword
  BY DEF AccountsInit, OwnPassword, NoCall
<1>4. OldTokensOverlap /\ RolelessIsTemporary
  BY AccountsAssumption
     DEF AccountsInit, OldTokensOverlap, RolelessIsTemporary, Role
<1> QED
  BY <1>2, <1>3, <1>4 DEF AccountsInv

LEMMA NextAccountsInv == AccountsInv /\ [AccountsNext]_accountVars => AccountsInv'
<1> SUFFICES ASSUME AccountsInv, [AccountsNext]_accountVars PROVE AccountsInv'
  OBVIOUS
<1>1. CASE UNCHANGED accountVars
  BY <1>1 DEF accountVars, dataVars, accountHistory, AccountsInv,
     AccountsTypeOK, OwnPassword, OldTokensOverlap, RolelessIsTemporary,
     Updating, Adding, At, To, By
<1>2. CASE AccountsNext
  BY <1>2, ShellKept, HandlerKept, ServerKept, AdminKept, DeathKept
     DEF AccountsNext
<1> QED
  BY <1>1, <1>2

(* The types, and both properties, hold in every reachable state.          *)
THEOREM AccountsInductive == AccountsSpec => []AccountsInv
<1>1. AccountsInit => AccountsInv
  BY InitAccountsInv
<1>2. AccountsInv /\ [AccountsNext]_accountVars => AccountsInv'
  BY NextAccountsInv
<1> QED
  BY <1>1, <1>2, PTL DEF AccountsSpec

(* A token that goes back to a password the user no longer has is due to   *)
(* a request that overlapped the change, to a revocation that is still to  *)
(* come, that failed or that died with the server, or to admin-cli.        *)
THEOREM TokensFollowPasswords == AccountsSpec => []OldTokensOverlap
<1>1. AccountsInv => OldTokensOverlap
  BY DEF AccountsInv
<1> QED
  BY <1>1, AccountsInductive, PTL

(* A user without a role is being created by handleCreateUser, or was      *)
(* added with admin-cli, or is what a creation left whose rollback failed  *)
(* too or that died with the server.                                       *)
THEOREM UsersHaveRoles == AccountsSpec => []RolelessIsTemporary
<1>1. AccountsInv => RolelessIsTemporary
  BY DEF AccountsInv
<1> QED
  BY <1>1, AccountsInductive, PTL

-----------------------------------------------------------------------------
(* What was due has been reported, once by each run of the program, and    *)
(* the weekly reports leave no time out.                                   *)

(* What the invariant needs to know of a report.                           *)
ReportType == [period : Period, from : Int, to : Int, at : Nat, run : Nat,
               calm : BOOLEAN]

ReportTypes ==
  /\ now \in Nat /\ file \in Schedules /\ schedule \in Schedules
  /\ running \in BOOLEAN /\ looked \in BOOLEAN /\ disturbed \in BOOLEAN
  /\ lastMade \in [Period -> Nat \cup {Never}]
  /\ reports \in SUBSET ReportType /\ starts \in Nat
  /\ due \in SUBSET Period

(* What a report is of that was due at a look at this time.                *)
Made(r, at) ==
  /\ r.period = "daily" => OfItsDay(r) \/ (at + 1) % Day = 0
  /\ r.period = "weekly" => r.from = r.to - Week /\ r.to \in {at, at + 1}

(* Where and when a report was made; a weekly one on a Monday.             *)
MadeBefore ==
  \A r \in reports :
    /\ r.at <= now /\ r.run <= starts /\ Made(r, r.at)
    /\ r.period = "weekly" => IsMonday(r.at)

(* What the scheduler remembers is the last report of this run.            *)
Remembered ==
  \A p \in Period :
    lastMade[p] # Never =>
      lastMade[p] <= now /\ \E r \in Scheduled(p) : r.at = lastMade[p]

LastOfThisRun ==
  \A p \in Period : \A r \in Scheduled(p) :
    r.run = starts => lastMade[p] # Never /\ r.at <= lastMade[p]

(* As long as nothing has disturbed it, no hour of the weekly report has   *)
(* passed in a week after that of the last one.                            *)
Passed(t) == t < now \/ (t = now /\ looked = TRUE)
WeeklyHour(t) == IsMonday(t) /\ HourOf(t) = schedule.hour

Watched ==
  running = TRUE /\ disturbed # TRUE /\ "weekly" \in schedule.periods =>
    \A t \in Nat : Passed(t) /\ WeeklyHour(t) =>
      /\ lastMade["weekly"] # Never
      /\ t \div Week <= lastMade["weekly"] \div Week

DueMade == \A p \in due : \E r \in Scheduled(p) : SamePeriod(p, r.at, now)

MadeOnce ==
  \A p \in Period : \A r, s \in Scheduled(p) :
    r.run = s.run /\ SamePeriod(p, r.at, s.at) => r = s

NothingLeftOut ==
  \A r, s \in Scheduled("weekly") :
    s.at \div Week = r.at \div Week + 1 /\ HourOf(s.at) = HourOf(r.at)
      => /\ s.from <= r.to + UnitsPerHour
         /\ s.calm => s.from <= r.to + 1

ReportsInv ==
  /\ ReportTypes /\ MadeBefore /\ Remembered /\ LastOfThisRun /\ Watched
  /\ DueMade /\ MadeOnce /\ NothingLeftOut

-----------------------------------------------------------------------------
(* Times and the days and weeks they are in.                               *)
LEMMA Lengths ==
  /\ UnitsPerHour \in Nat \ {0} /\ Day \in Nat \ {0} /\ Week \in Nat \ {0}
  /\ Day = UnitsPerHour * HoursPerDay /\ Week = Day * DaysPerWeek
<1>1. \A a, b \in Nat \ {0} : a * b \in Nat \ {0}
  OBVIOUS
<1>2. Day \in Nat \ {0}
  BY <1>1, ComplianceAssumption DEF Day
<1>3. Week \in Nat \ {0}
  BY <1>1, <1>2, ComplianceAssumption DEF Week
<1> QED
  BY <1>2, <1>3, ComplianceAssumption DEF Day, Week

LEMMA Division ==
  ASSUME NEW a \in Int, NEW d \in Nat \ {0}
  PROVE  /\ a \div d \in Int /\ a % d \in Int /\ 0 <= a % d /\ a % d < d
         /\ a = d * (a \div d) + (a % d)
  OBVIOUS

LEMMA Larger ==
  ASSUME NEW d \in Nat \ {0}, NEW p \in Int, NEW q \in Int, p < q
  PROVE  d * p + d <= d * q
<1>1. PICK k \in Nat : q = p + 1 + k
  <2>1. q - p - 1 \in Nat /\ q = p + 1 + (q - p - 1)
    OBVIOUS
  <2> QED
    BY <2>1
<1>2. d * q = d * p + d + d * k
  BY <1>1
<1>3. d * k \in Nat
  OBVIOUS
<1> QED
  BY <1>2, <1>3

LEMMA DivisionIs ==
  ASSUME NEW a \in Int, NEW d \in Nat \ {0}, NEW q \in Int, NEW m \in Int,
         0 <= m, m < d, a = d * q + m
  PROVE  a \div d = q /\ a % d = m
<1>1. /\ a \div d \in Int /\ a % d \in Int /\ 0 <= a % d /\ a % d < d
      /\ a = d * (a \div d) + (a % d)
  BY Division
<1>2. ~(a \div d < q)
  <2> SUFFICES ASSUME a \div d < q
               PROVE  FALSE
    OBVIOUS
  <2>1. d * (a \div d) + d <= d * q
    BY <1>1, Larger
  <2> QED
    BY <1>1, <2>1
<1>3. ~(q < a \div d)
  <2> SUFFICES ASSUME q < a \div d
               PROVE  FALSE
    OBVIOUS
  <2>1. d * q + d <= d * (a \div d)
    BY <1>1, Larger
  <2> QED
    BY <1>1, <2>1
<1> QED
  BY <1>1, <1>2, <1>3

LEMMA Monotone ==
  ASSUME NEW a \in Int, NEW b \in Int, NEW d \in Nat \ {0}, a <= b
  PROVE  a \div d <= b \div d
<1>1. /\ a \div d \in Int /\ a % d \in Int /\ 0 <= a % d /\ a % d < d
      /\ a = d * (a \div d) + (a % d)
  BY Division
<1>2. /\ b \div d \in Int /\ b % d \in Int /\ 0 <= b % d /\ b % d < d
      /\ b = d * (b \div d) + (b % d)
  BY Division
<1> SUFFICES ASSUME b \div d < a \div d
             PROVE  FALSE
  BY <1>1, <1>2
<1>3. d * (b \div d) + d <= d * (a \div d)
  BY <1>1, <1>2, Larger
<1> QED
  BY <1>1, <1>2, <1>3

LEMMA OneLater ==
  ASSUME NEW t \in Int, NEW d \in Nat \ {0}
  PROVE  (t + d) \div d = t \div d + 1 /\ (t + d) % d = t % d
<1> DEFINE q == t \div d
           m == t % d
<1>1. q \in Int /\ m \in Int /\ 0 <= m /\ m < d /\ t = d * q + m
  BY Division
<1> HIDE DEF q, m
<1>2. d * (q + 1) = d * q + d /\ d * q \in Int
  BY <1>1
<1>3. t + d = d * (q + 1) + m
  BY <1>1, <1>2
<1>4. t + d \in Int /\ q + 1 \in Int
  BY <1>1
<1>5. (t + d) \div d = q + 1 /\ (t + d) % d = m
  BY <1>1, <1>3, <1>4, DivisionIs
<1> QED
  BY <1>5 DEF q, m

LEMMA WeekLater ==
  ASSUME NEW t \in Int
  PROVE  (t + Week) \div Week = t \div Week + 1 /\ (t + Week) % Week = t % Week
  BY OneLater, Lengths

(* On a Monday the hour is that of the time of the week.                   *)
LEMMA HourOfMonday ==
  ASSUME NEW t \in Int, IsMonday(t)
  PROVE  HourOf(t) = (t % Week) \div UnitsPerHour
<1>1. /\ t \div Week \in Int /\ t % Week \in Int /\ 0 <= t % Week
      /\ t % Week < Week /\ t = Week * (t \div Week) + (t % Week)
  BY Division, Lengths
<1>2. /\ (t % Week) % Day \in Int /\ 0 <= (t % Week) % Day
      /\ (t % Week) % Day < Day
      /\ t % Week = Day * ((t % Week) \div Day) + ((t % Week) % Day)
  BY <1>1, Division, Lengths
<1>3. (t % Week) \div Day = 0
  BY DEF IsMonday
<1>4. t % Week < Day
  BY <1>1, <1>2, <1>3, Lengths
<1>5. Week * (t \div Week) = Day * (DaysPerWeek * (t \div Week))
  <2>1. \A a, b, c \in Int : (a * b) * c = a * (b * c)
    OBVIOUS
  <2>2. Day \in Int /\ DaysPerWeek \in Int
    BY Lengths, ComplianceAssumption
  <2> QED
    BY <1>1, <2>1, <2>2, Lengths
<1>6. DaysPerWeek * (t \div Week) \in Int
  BY <1>1, ComplianceAssumption
<1>7. t = Day * (DaysPerWeek * (t \div Week)) + (t % Week)
  BY <1>1, <1>5
<1>8. t % Week \in Int /\ 0 <= t % Week /\ Day \in Nat \ {0}
  BY <1>1, Lengths
<1>9. t % Day = t % Week
  BY <1>4, <1>6, <1>7, <1>8, DivisionIs
<1> QED
  BY <1>9 DEF HourOf

LEMMA MondayLater ==
  ASSUME NEW t \in Int, IsMonday(t)
  PROVE  IsMonday(t + Week) /\ HourOf(t + Week) = HourOf(t)
<1>1. t + Week \in Int /\ (t + Week) % Week = t % Week
  BY WeekLater, Lengths
<1>2. IsMonday(t + Week)
  BY <1>1 DEF IsMonday
<1> QED
  BY <1>1, <1>2, HourOfMonday

(* Two Mondays at the same hour in weeks that follow one another.          *)
LEMMA HourApart ==
  ASSUME NEW r \in Int, NEW s \in Int, IsMonday(r), IsMonday(s),
         HourOf(s) = HourOf(r), s \div Week = r \div Week + 1
  PROVE  s - Week < r + UnitsPerHour
<1> DEFINE x == r % Week
           y == s % Week
<1>1. /\ x \in Int /\ r \div Week \in Int /\ r = Week * (r \div Week) + x
      /\ y \in Int /\ s \div Week \in Int /\ s = Week * (s \div Week) + y
  BY Division, Lengths
<1>2. y \div UnitsPerHour = x \div UnitsPerHour
  BY HourOfMonday
<1> HIDE DEF x, y
<1>3. /\ x \div UnitsPerHour \in Int /\ x % UnitsPerHour \in Int
      /\ 0 <= x % UnitsPerHour
      /\ x = UnitsPerHour * (x \div UnitsPerHour) + (x % UnitsPerHour)
  BY <1>1, Division, Lengths
<1>4. /\ y % UnitsPerHour \in Int /\ y % UnitsPerHour < UnitsPerHour
      /\ y = UnitsPerHour * (y \div UnitsPerHour) + (y % UnitsPerHour)
  BY <1>1, Division, Lengths
<1>5. y < x + UnitsPerHour
  <2>1. UnitsPerHour * (x \div UnitsPerHour) \in Int
    BY <1>3, Lengths
  <2> QED
    BY <1>1, <1>2, <1>3, <1>4, <2>1, Lengths
<1>6. Week * (s \div Week) = Week * (r \div Week) + Week
  BY <1>1, Lengths
<1> QED
  BY <1>1, <1>5, <1>6, Lengths

(* The day, or the week.                                                   *)
Length(p) == IF p = "daily" THEN Day ELSE Week

LEMMA SamePeriodIs ==
  ASSUME NEW p \in Period, NEW s \in Int, NEW t \in Int
  PROVE  /\ Length(p) \in Nat \ {0}
         /\ SamePeriod(p, s, t) <=>
              s # Never /\ s \div Length(p) = t \div Length(p)
  BY Lengths DEF Length, SamePeriod

(* What comes between two times of a period is in it.                      *)
LEMMA InBetween ==
  ASSUME NEW p \in Period, NEW a \in Nat, NEW b \in Nat, NEW c \in Nat,
         a <= b, b <= c, SamePeriod(p, a, c) \/ SamePeriod(p, c, a)
  PROVE  SamePeriod(p, b, c)
<1> DEFINE d == Length(p)
<1>1. d \in Nat \ {0} /\ a \div d = c \div d
  BY SamePeriodIs
<1> HIDE DEF d
<1>2. a \div d <= b \div d /\ b \div d <= c \div d
  BY <1>1, Monotone
<1>3. a \div d \in Int /\ b \div d \in Int /\ c \div d \in Int
  BY <1>1, Division
<1>4. b \div d = c \div d
  BY <1>1, <1>2, <1>3
<1> QED
  BY <1>4, SamePeriodIs DEF d, Never

-----------------------------------------------------------------------------
LEMMA ReportsInit == ComplianceInit => ReportsInv
<1> SUFFICES ASSUME ComplianceInit
             PROVE  ReportsInv
  OBVIOUS
<1>1. looked \in BOOLEAN /\ disturbed \in BOOLEAN /\ running \in BOOLEAN
      /\ looked # TRUE
  BY Zenon DEF ComplianceInit
<1>2. ReportTypes
  BY <1>1 DEF ComplianceInit, ReportTypes
<1>3. MadeBefore /\ Remembered /\ LastOfThisRun /\ DueMade /\ MadeOnce
      /\ NothingLeftOut
  BY DEF ComplianceInit, MadeBefore, Remembered, LastOfThisRun, DueMade,
         MadeOnce, NothingLeftOut, Scheduled
<1>4. Watched
  BY <1>1 DEF ComplianceInit, Watched, Passed
<1> QED
  BY <1>2, <1>3, <1>4 DEF ReportsInv

(* A step that makes no report and is not the passing of time.             *)
LEMMA QuietReports ==
  ASSUME ReportsInv, ReportTypes', UNCHANGED <<now, reports, due>>,
         \/ UNCHANGED <<lastMade, starts>>
         \/ starts' = starts + 1 /\ lastMade' = [p \in Period |-> Never],
         \/ running' # TRUE \/ disturbed' = TRUE
         \/ UNCHANGED <<running, disturbed, schedule, lastMade, looked>>
  PROVE  ReportsInv'
<1>1. MadeBefore'
  BY DEF ReportsInv, ReportTypes, ReportType, MadeBefore
<1>2. Remembered' /\ LastOfThisRun'
  <2>1. CASE UNCHANGED <<lastMade, starts>>
    BY <2>1 DEF ReportsInv, Remembered, LastOfThisRun, Scheduled
  <2>2. CASE starts' = starts + 1 /\ lastMade' = [p \in Period |-> Never]
    <3>1. \A r \in reports : r.run # starts'
      BY <2>2 DEF ReportsInv, ReportTypes, ReportType, MadeBefore
    <3> QED
      BY <2>2, <3>1 DEF Remembered, LastOfThisRun, Scheduled
  <2> QED
    BY <2>1, <2>2
<1>3. Watched'
  BY DEF ReportsInv, Watched, Passed, WeeklyHour
<1>4. DueMade' /\ MadeOnce' /\ NothingLeftOut'
  BY DEF ReportsInv, DueMade, MadeOnce, NothingLeftOut, Scheduled
<1> QED
  BY <1>1, <1>2, <1>3, <1>4 DEF ReportsInv

LEMMA PassStep == ASSUME ReportsInv, Pass PROVE ReportsInv'
<1> USE DEF ReportsInv
<1>1. /\ now \in Nat /\ now' = now + 1 /\ due' = {}
      /\ running = TRUE => looked = TRUE
      /\ UNCHANGED <<file, schedule, running, lastMade, reports, starts,
                     disturbed>>
  BY DEF Pass, ReportTypes
<1>2. looked' \in BOOLEAN /\ looked' # TRUE
  BY Zenon DEF Pass
<1>3. ReportTypes'
  BY <1>1, <1>2 DEF ReportTypes
<1>4. MadeBefore'
  BY <1>1 DEF MadeBefore, ReportTypes, ReportType
<1>5. Remembered'
  BY <1>1, Lengths DEF Remembered, ReportTypes, Never, Scheduled
<1>6. LastOfThisRun' /\ DueMade' /\ MadeOnce' /\ NothingLeftOut'
  BY <1>1 DEF LastOfThisRun, DueMade, MadeOnce, NothingLeftOut, Scheduled
<1>7. ASSUME NEW t \in Nat, running = TRUE, Passed(t)'
      PROVE  Passed(t)
  <2>1. t < now'
    BY <1>2, <1>7 DEF Passed
  <2>2. t < now \/ t = now
    BY <1>1, <2>1
  <2> QED
    BY <1>1, <1>7, <2>2 DEF Passed
<1>8. Watched'
  BY <1>1, <1>7 DEF Watched, WeeklyHour
<1> QED
  BY <1>3, <1>4, <1>5, <1>6, <1>8

-----------------------------------------------------------------------------
(* What a look at the clock does: these reports were made, as recorded,    *)
(* those failed, and no other was due.                                     *)
LookDoes(made, failed, new) ==
  /\ UNCHANGED <<now, file, schedule, running, starts>>
  /\ looked # TRUE /\ looked' \in BOOLEAN /\ looked' = TRUE
  /\ running = TRUE /\ disturbed' \in BOOLEAN
  /\ disturbed' # TRUE =>
       failed = {} /\ (disturbed # TRUE \/ "weekly" \in made)
  /\ \A p \in made : p \in schedule.periods /\ ShouldRun(p)
  /\ \A p \in schedule.periods : p \in made \/ p \in failed \/ ~ShouldRun(p)
  /\ \A p \in Period :
       /\ new[p].period = p /\ new[p].at = now /\ new[p].run = starts
       /\ Made(new[p], now)
       /\ new[p].calm => disturbed # TRUE
       /\ lastMade'[p] = IF p \in made THEN now ELSE lastMade[p]
  /\ \A r : r \in reports' <=> r \in reports \/ \E p \in made : r = new[p]
  /\ lastMade' \in [Period -> Nat \cup {Never}]
  /\ \A p \in due' :
       /\ p \in schedule.periods \ failed /\ HourOf(now) = schedule.hour
       /\ p = "weekly" => IsMonday(now)

LEMMA GeneratedIs ==
  ASSUME ReportTypes, NEW p \in Period, NEW t \in {now, now + 1}
  PROVE  /\ Generated(p, t) \in ReportType /\ Generated(p, t).period = p
         /\ Generated(p, t).at = now /\ Generated(p, t).run = starts
         /\ Made(Generated(p, t), now)
         /\ Generated(p, t).calm => disturbed # TRUE
<1> DEFINE r == Generated(p, t)
<1>1. now \in Nat /\ t \in Nat /\ starts \in Nat /\ disturbed \in BOOLEAN
  BY DEF ReportTypes
<1>2. /\ t \div Day \in Int /\ t % Day \in Int /\ 0 <= t % Day
      /\ t % Day < Day /\ t = Day * (t \div Day) + (t % Day)
      /\ Day \in Nat /\ Week \in Nat
  <2>1. t \in Int /\ Day \in Nat \ {0} /\ Week \in Nat
    BY <1>1, Lengths
  <2> QED
    BY <2>1, Division
<1>3. Midnight(t) \in Int /\ t = Midnight(t) + (t % Day)
  <2>1. Day * (t \div Day) = (t \div Day) * Day /\ Day * (t \div Day) \in Int
    BY <1>2
  <2> QED
    BY <1>2, <2>1 DEF Midnight
<1>4. PICK from \in Int, to \in Int :
        /\ r = [period |-> p, at |-> now, run |-> starts,
                calm |-> ~disturbed, from |-> from, to |-> to]
        /\ p = "weekly" => from = t - Week /\ to = t
        /\ p = "daily" => from = Midnight(t) /\ to = Midnight(t) + Day
  BY <1>1, <1>2, <1>3 DEF Generated
<1>5. /\ r \in ReportType /\ r.period = p /\ r.at = now
      /\ r.run = starts /\ r.from = from /\ r.to = to
      /\ r.calm = ~disturbed
  BY <1>1, <1>4 DEF ReportType
<1> HIDE DEF r
<1>6. ASSUME p = "daily" PROVE OfItsDay(r) \/ (now + 1) % Day = 0
  <2>1. CASE t = now
    BY <1>1, <1>2, <1>3, <1>4, <1>5, <1>6, <2>1 DEF OfItsDay
  <2>2. CASE t = now + 1 /\ t % Day # 0
    <3>1. /\ 1 <= t % Day /\ r.from = t - (t % Day)
          /\ r.to = t - (t % Day) + Day
      BY <1>1, <1>2, <1>3, <1>4, <1>5, <1>6, <2>2
    <3> QED
      BY <1>1, <1>2, <1>5, <2>2, <3>1 DEF OfItsDay
  <2> QED
    BY <2>1, <2>2
<1>7. Made(r, now)
  BY <1>1, <1>2, <1>4, <1>5, <1>6 DEF Made
<1>8. r.calm => disturbed # TRUE
  BY <1>1, <1>5
<1> QED
  BY <1>5, <1>7, <1>8 DEF r

LEMMA LookFacts ==
  ASSUME ReportTypes, Look
  PROVE  \E made, failed \in SUBSET Period, new \in [Period -> ReportType] :
           LookDoes(made, failed, new)
<1> DEFINE todo == {p \in schedule.periods : ShouldRun(p)}
<1> DEFINE own(slow, p) == IF p \in slow THEN now + 1 ELSE now
<1>1. PICK failed \in SUBSET todo, slow \in SUBSET todo :
        /\ disturbed' = (failed # {} \/ (disturbed /\ "weekly" \notin todo))
        /\ reports' = reports \cup
                        {Generated(p, own(slow, p)) : p \in todo \ failed}
        /\ lastMade' = Mark(todo \ failed, failed)
        /\ due' = {p \in schedule.periods \ failed :
             HourOf(now) = schedule.hour /\ (p = "weekly" => IsMonday(now))}
  BY DEF Look
<1> DEFINE made == todo \ failed
           new == [p \in Period |-> Generated(p, own(slow, p))]
<1>2. /\ looked' \in BOOLEAN /\ looked' = TRUE /\ running = TRUE
      /\ looked # TRUE /\ disturbed' \in BOOLEAN
      /\ UNCHANGED <<now, file, schedule, running, starts>>
  <2>1. running \in BOOLEAN
    BY DEF ReportTypes
  <2> QED
    BY <1>1, <2>1, Zenon DEF Look
<1>3. disturbed' # TRUE =>
        failed = {} /\ (disturbed # TRUE \/ "weekly" \in made)
  <2>1. disturbed \in BOOLEAN
    BY DEF ReportTypes
  <2> QED
    BY <1>1, <2>1, Zenon
<1>4. /\ schedule.periods \subseteq Period /\ made \in SUBSET Period
      /\ failed \in SUBSET Period
  BY <1>1 DEF ReportTypes, Schedules
<1>5. /\ \A p \in made : p \in schedule.periods /\ ShouldRun(p)
      /\ \A p \in schedule.periods : p \in made \/ p \in failed \/ ~ShouldRun(p)
  OBVIOUS
<1>6. /\ new \in [Period -> ReportType]
      /\ \A p \in Period :
           /\ new[p].period = p /\ new[p].at = now /\ new[p].run = starts
           /\ Made(new[p], now)
           /\ new[p].calm => disturbed # TRUE
  <2>1. \A p \in Period : own(slow, p) \in {now, now + 1}
    OBVIOUS
  <2> HIDE DEF own
  <2> QED
    BY <2>1, GeneratedIs
<1>7. \A p \in made : new[p] = Generated(p, own(slow, p))
  BY <1>4
<1>8. \A r : r \in reports' <=> r \in reports \/ \E p \in made : r = new[p]
  <2>1. \A r : r \in reports' <=>
                 r \in reports
                 \/ \E p \in todo \ failed : r = Generated(p, own(slow, p))
    BY <1>1
  <2> QED
    BY <1>7, <2>1
<1>9. /\ lastMade' \in [Period -> Nat \cup {Never}]
      /\ \A p \in Period :
           lastMade'[p] = IF p \in made THEN now ELSE lastMade[p]
  BY <1>1 DEF Mark, ReportTypes
<1>10. \A p \in due' :
         /\ p \in schedule.periods \ failed /\ HourOf(now) = schedule.hour
         /\ p = "weekly" => IsMonday(now)
  BY <1>1
<1> HIDE DEF made, new, todo
<1>11. LookDoes(made, failed, new)
  BY <1>2, <1>3, <1>5, <1>6, <1>8, <1>9, <1>10 DEF LookDoes
<1> QED
  BY <1>4, <1>6, <1>11
(* The scheduler looks at the clock.                                       *)
LEMMA LookStep == ASSUME ReportsInv, Look PROVE ReportsInv'
<1> USE DEF ReportsInv
<1>1. PICK made \in SUBSET Period, failed \in SUBSET Period,
           new \in [Period -> ReportType] : LookDoes(made, failed, new)
  BY LookFacts
<1>2. /\ UNCHANGED <<now, file, schedule, running, starts>>
      /\ running = TRUE /\ looked # TRUE /\ looked' = TRUE
      /\ \A r : r \in reports' <=> r \in reports \/ \E p \in made : r = new[p]
  BY <1>1 DEF LookDoes
<1>3. \A p \in Period :
        /\ new[p].period = p /\ new[p].at = now /\ new[p].run = starts
        /\ Made(new[p], now)
        /\ new[p].calm => disturbed # TRUE
        /\ p \in made => lastMade'[p] = now
        /\ p \notin made => lastMade'[p] = lastMade[p]
  BY <1>1 DEF LookDoes
<1>4. /\ now \in Nat /\ starts \in Nat /\ schedule.periods \subseteq Period
      /\ \A p \in Period : lastMade[p] \in Nat \cup {Never}
      /\ \A r \in reports : r.at \in Nat /\ r.at <= now /\ r.period \in Period
                            /\ r.from \in Int /\ r.to \in Int
  BY DEF ReportTypes, ReportType, Schedules, MadeBefore
<1>5. \A p \in made : p \in Period /\ p \in schedule.periods /\ ShouldRun(p)
  BY <1>1 DEF LookDoes
<1>6. /\ \A p \in made : new[p] \in reports' /\ (p = "weekly" => IsMonday(now))
      /\ \A r \in reports' : r \in reports \/ (r.period \in made
                              /\ r.period \in Period /\ r = new[r.period])
      /\ \A r \in reports : r \in reports'
  <2>1. \A p \in made : new[p] \in reports' /\ (p = "weekly" => IsMonday(now))
    BY <1>2, <1>5 DEF ShouldRun
  <2>2. ASSUME NEW r \in reports', r \notin reports
        PROVE  r.period \in made /\ r.period \in Period /\ r = new[r.period]
    <3>1. PICK p \in made : r = new[p]
      BY <1>2, <2>2
    <3>2. p \in Period /\ r.period = p
      BY <1>3, <1>5, <3>1
    <3> QED
      BY <3>1, <3>2
  <2> QED
    BY <1>2, <2>1, <2>2
<1>7. \A r \in reports' \ reports :
         /\ r.period \in made /\ r.period \in Period /\ r = new[r.period]
         /\ r.at = now /\ r.run = starts
  <2> SUFFICES ASSUME NEW r \in reports' \ reports
               PROVE  /\ r.period \in made /\ r.period \in Period
                      /\ r = new[r.period] /\ r.at = now /\ r.run = starts
    OBVIOUS
  <2> DEFINE p == r.period
  <2>1. p \in made /\ p \in Period /\ r = new[p]
    BY <1>6
  <2>2. new[p].at = now /\ new[p].run = starts
    BY <1>3, <2>1
  <2> QED
    BY <2>1, <2>2
<1>8. ReportTypes'
  <2>1. reports' \in SUBSET ReportType /\ due' \in SUBSET Period
    BY <1>1, <1>2, <1>4 DEF ReportTypes, LookDoes
  <2> QED
    BY <1>1, <1>2, <2>1 DEF ReportTypes, LookDoes
<1>9. MadeBefore'
  <2> SUFFICES ASSUME NEW r \in reports'
               PROVE  /\ r.at <= now /\ r.run <= starts /\ Made(r, r.at)
                      /\ r.period = "weekly" => IsMonday(r.at)
    BY <1>2 DEF MadeBefore
  <2>1. CASE r \in reports
    BY <2>1 DEF MadeBefore
  <2>2. CASE r \notin reports
    <3>1. r.period \in made /\ r = new[r.period] /\ r.at = now /\ r.run = starts
      BY <1>7, <2>2
    <3>2. Made(r, now) /\ (r.period = "weekly" => IsMonday(now))
      BY <1>3, <1>6, <1>7, <2>2, <3>1
    <3> QED
      BY <1>4, <3>1, <3>2
  <2> QED
    BY <2>1, <2>2
<1>10. Remembered'
  <2> SUFFICES ASSUME NEW p \in Period, lastMade'[p] # Never
               PROVE  /\ lastMade'[p] <= now
                      /\ \E r \in reports' : r.period = p /\ r.at = lastMade'[p]
    BY <1>2 DEF Remembered, Scheduled
  <2>1. CASE p \in made
    <3>1. new[p] \in reports' /\ new[p].period = p /\ new[p].at = now
      BY <1>3, <1>6, <2>1
    <3> QED
      <4>1. lastMade'[p] = now
        BY <1>3, <2>1
      <4>2. now <= now
        BY <1>4
      <4> QED
        BY <3>1, <4>1, <4>2
  <2>2. CASE p \notin made
    <3>1. lastMade'[p] = lastMade[p]
      BY <1>3, <2>2
    <3>2. /\ lastMade[p] <= now
          /\ \E r \in reports : r.period = p /\ r.at = lastMade[p]
      BY <3>1 DEF Remembered, Scheduled
    <3> QED
      BY <1>6, <3>1, <3>2
  <2> QED
    BY <2>1, <2>2
<1>11. LastOfThisRun'
  <2> SUFFICES ASSUME NEW p \in Period, NEW r \in reports', r.period = p,
                      r.run = starts
               PROVE  lastMade'[p] # Never /\ r.at <= lastMade'[p]
    BY <1>2 DEF LastOfThisRun, Scheduled
  <2>1. CASE p \in made
    <3>1. r.at <= now /\ now # Never
      BY <1>4, <1>7 DEF Never
    <3> QED
      BY <1>3, <2>1, <3>1
  <2>2. CASE p \notin made
    <3>1. r \in reports
      BY <1>7, <2>2
    <3> QED
      BY <1>3, <2>2, <3>1 DEF LastOfThisRun, Scheduled
  <2> QED
    BY <2>1, <2>2
<1>12. ASSUME NEW p \in Period
       PROVE  /\ SamePeriod(p, now, now)
              /\ \A t \in Nat : t \div Week \in Int /\ now \div Week \in Int
  BY <1>4, Lengths, SamePeriodIs DEF Never
<1>13. Watched'
  <2> SUFFICES ASSUME disturbed' # TRUE, "weekly" \in schedule.periods,
                      NEW t \in Nat, t <= now, WeeklyHour(t)
               PROVE  /\ lastMade'["weekly"] # Never
                      /\ t \div Week <= lastMade'["weekly"] \div Week
    BY <1>2, <1>4 DEF Watched, Passed, WeeklyHour
  <2>1. CASE "weekly" \in made
    <3>1. lastMade'["weekly"] = now /\ now # Never
      BY <1>3, <1>4, <2>1 DEF Never, Period
    <3>2. t \div Week <= now \div Week
      <4>1. t \in Int /\ now \in Int /\ Week \in Nat \ {0}
        BY <1>4, Lengths
      <4> QED
        BY <4>1, Monotone
    <3> QED
      BY <3>1, <3>2
  <2>2. CASE "weekly" \notin made
    <3>1. /\ ~ShouldRun("weekly") /\ disturbed # TRUE
          /\ lastMade'["weekly"] = lastMade["weekly"]
      BY <1>1, <1>3, <2>2 DEF LookDoes, Period
    <3>2. CASE t < now
      BY <1>2, <3>1, <3>2 DEF Watched, Passed
    <3>3. CASE t = now
      <4>1. SamePeriod("weekly", lastMade["weekly"], now)
        BY <3>1, <3>3 DEF ShouldRun, WeeklyHour
      <4>2. /\ lastMade["weekly"] # Never
            /\ lastMade["weekly"] \div Week = now \div Week
        BY <4>1 DEF SamePeriod
      <4> QED
        BY <1>12, <3>1, <3>3, <4>2 DEF Period
    <3> QED
      BY <1>4, <3>2, <3>3
  <2> QED
    BY <2>1, <2>2
<1>14. DueMade'
  <2> SUFFICES ASSUME NEW p \in due'
               PROVE  \E r \in reports' :
                        r.period = p /\ SamePeriod(p, r.at, now)
    BY <1>2 DEF DueMade, Scheduled
  <2>1. /\ p \in Period /\ p \in schedule.periods /\ p \notin failed
        /\ HourOf(now) = schedule.hour /\ (p = "weekly" => IsMonday(now))
    BY <1>1, <1>4 DEF LookDoes
  <2>2. CASE p \in made
    <3>1. new[p] \in reports' /\ new[p].period = p /\ new[p].at = now
      BY <1>3, <1>6, <2>1, <2>2
    <3> QED
      BY <1>12, <2>1, <3>1
  <2>3. CASE p \notin made
    <3>1. SamePeriod(p, lastMade[p], now)
      BY <1>1, <2>1, <2>3 DEF LookDoes, ShouldRun
    <3>2. lastMade[p] # Never
      BY <3>1 DEF SamePeriod
    <3>3. PICK r \in reports : r.period = p /\ r.at = lastMade[p]
      BY <2>1, <3>2 DEF Remembered, Scheduled
    <3> QED
      BY <1>2, <3>1, <3>3
  <2> QED
    BY <2>2, <2>3
<1>15. ASSUME NEW p \in made, NEW r \in reports, r.period = p, r.run = starts
       PROVE  ~SamePeriod(p, r.at, now) /\ ~SamePeriod(p, now, r.at)
  <2>1. lastMade[p] # Never /\ r.at <= lastMade[p] /\ lastMade[p] <= now
    BY <1>15 DEF LastOfThisRun, Remembered, Scheduled
  <2>2. p \in Period /\ r.at \in Nat /\ lastMade[p] \in Nat
    BY <1>4, <2>1
  <2>3. ~SamePeriod(p, lastMade[p], now)
    BY <1>5 DEF ShouldRun
  <2> QED
    BY <1>4, <2>1, <2>2, <2>3, InBetween
<1>16. MadeOnce'
  <2> SUFFICES ASSUME NEW p \in Period, NEW r \in reports', NEW s \in reports',
                      r.period = p, s.period = p, r.run = s.run,
                      SamePeriod(p, r.at, s.at)
               PROVE  r = s
    BY <1>2 DEF MadeOnce, Scheduled
  <2>1. CASE r \in reports /\ s \in reports
    BY <2>1 DEF MadeOnce, Scheduled
  <2>2. CASE r \notin reports /\ s \in reports
    BY <1>15, <1>7, <2>2
  <2>3. CASE r \in reports /\ s \notin reports
    BY <1>15, <1>7, <2>3
  <2>4. CASE r \notin reports /\ s \notin reports
    BY <1>7, <2>4
  <2> QED
    BY <2>1, <2>2, <2>3, <2>4
<1>17. NothingLeftOut'
  <2> SUFFICES ASSUME NEW r \in reports', NEW s \in reports',
                      r.period = "weekly", s.period = "weekly",
                      s.at \div Week = r.at \div Week + 1,
                      HourOf(s.at) = HourOf(r.at)
               PROVE  /\ s.from <= r.to + UnitsPerHour
                      /\ s.calm => s.from <= r.to + 1
    BY <1>2 DEF NothingLeftOut, Scheduled
  <2>1. CASE r \in reports /\ s \in reports
    BY <2>1 DEF NothingLeftOut, Scheduled
  <2>2. CASE r \notin reports
    <3>1. r.at = now /\ s.at \in Nat /\ s.at <= now
      BY <1>4, <1>7, <2>2
    <3>2. s.at \div Week <= now \div Week /\ s.at \div Week \in Int
          /\ now \div Week \in Int
      <4>1. s.at \in Int /\ now \in Int /\ Week \in Nat \ {0}
        BY <1>4, <3>1, Lengths
      <4> QED
        BY <3>1, <4>1, Monotone, Division
    <3> QED
      BY <3>1, <3>2
  <2>3. CASE r \in reports /\ s \notin reports
    <3>1. /\ "weekly" \in made /\ s = new["weekly"] /\ IsMonday(now)
          /\ "weekly" \in Period
      BY <1>6, <1>7, <2>3
    <3>2. s.at = now /\ Made(s, now) /\ (s.calm => disturbed # TRUE)
      BY <1>3, <3>1
    <3>3. r.at \in Nat /\ Made(r, r.at) /\ IsMonday(r.at)
      BY <1>4, <2>3 DEF MadeBefore
    <3>0. /\ s.from <= now + 1 - Week /\ s.from \in Int
          /\ r.at <= r.to /\ r.to \in Int
      <4>1. /\ s.from = s.to - Week /\ s.to \in {now, now + 1}
            /\ r.to \in {r.at, r.at + 1}
        BY <2>3, <3>2, <3>3 DEF Made
      <4> QED
        BY <1>4, <3>3, <4>1, Lengths
    <3>4. s.from <= r.to + UnitsPerHour
      <4>1. r.at \in Int /\ s.at \in Int /\ IsMonday(s.at)
        BY <1>4, <3>1, <3>2, <3>3
      <4>2. s.at - Week < r.at + UnitsPerHour
        BY <3>3, <4>1, HourApart
      <4> QED
        BY <1>4, <3>0, <3>2, <3>3, <4>2, Lengths
    <3>5. ASSUME s.calm, ~(s.from <= r.to + 1)
          PROVE  FALSE
      <4> DEFINE t == r.at + Week
      <4>1. t \in Nat /\ t < now
        <5>1. Week \in Nat /\ now \in Nat /\ r.at \in Nat
          BY <1>4, <3>3, Lengths
        <5> QED
          BY <3>0, <3>5, <5>1
      <4>2. IsMonday(t) /\ HourOf(t) = HourOf(r.at)
            /\ t \div Week = now \div Week
        <5>1. r.at \in Int
          BY <3>3
        <5> QED
          BY <3>2, <3>3, <5>1, MondayLater, WeekLater
      <4>3. ShouldRun("weekly")
        BY <1>5, <3>1
      <4>4. /\ HourOf(now) = schedule.hour
            /\ ~SamePeriod("weekly", lastMade["weekly"], now)
        BY <4>3 DEF ShouldRun
      <4>5. "weekly" \in schedule.periods
        BY <1>5, <3>1
      <4>6. Passed(t) /\ WeeklyHour(t)
        BY <3>2, <4>1, <4>2, <4>4 DEF Passed, WeeklyHour
      <4>7. /\ lastMade["weekly"] # Never
            /\ t \div Week <= lastMade["weekly"] \div Week
        BY <1>2, <3>2, <3>5, <4>1, <4>5, <4>6 DEF Watched
      <4>8. lastMade["weekly"] \in Nat /\ lastMade["weekly"] <= now
        BY <1>4, <3>1, <4>7 DEF Remembered
      <4>9. /\ lastMade["weekly"] \div Week <= now \div Week
            /\ lastMade["weekly"] \div Week \in Int /\ now \div Week \in Int
        <5>1. lastMade["weekly"] \in Int /\ now \in Int /\ Week \in Nat \ {0}
          BY <1>4, <4>8, Lengths
        <5> QED
          BY <4>8, <5>1, Monotone, Division
      <4>10. SamePeriod("weekly", lastMade["weekly"], now)
        BY <4>2, <4>7, <4>9 DEF SamePeriod
      <4> QED
        BY <4>4, <4>10
    <3> QED
      BY <3>4, <3>5
  <2> QED
    BY <2>1, <2>2, <2>3
<1> QED
  BY <1>8, <1>9, <1>10, <1>11, <1>13, <1>14, <1>16, <1>17

LEMMA ReportsStep ==
  ASSUME ReportsInv, [ComplianceNext]_complianceVars
  PROVE  ReportsInv'
<1>1. ReportTypes
  BY DEF ReportsInv
<1>2. CASE Look
  BY <1>2, LookStep
<1>3. CASE Pass
  BY <1>3, PassStep
<1>4. CASE ProgramEnds
  <2>1. running' \in BOOLEAN /\ running' # TRUE
    BY <1>4, Zenon DEF ProgramEnds
  <2>2. UNCHANGED <<now, file, schedule, looked, lastMade, reports, starts, due,
                    disturbed>>
    BY <1>4 DEF ProgramEnds
  <2>3. ReportTypes'
    BY <1>1, <2>1, <2>2 DEF ReportTypes
  <2> QED
    BY <2>1, <2>2, <2>3, QuietReports
<1>5. CASE ProgramStarts
  <2>1. /\ running' \in BOOLEAN /\ looked' \in BOOLEAN
        /\ disturbed' \in BOOLEAN /\ disturbed' = TRUE
    BY <1>5, Zenon DEF ProgramStarts
  <2>2. /\ UNCHANGED <<now, file, reports, due>> /\ schedule' = file
        /\ starts' = starts + 1 /\ lastMade' = [p \in Period |-> Never]
    BY <1>5 DEF ProgramStarts
  <2>3. ReportTypes'
    BY <1>1, <2>1, <2>2 DEF ReportTypes
  <2> QED
    BY <2>1, <2>2, <2>3, QuietReports
<1>6. CASE ChangeSchedule
  <2>1. disturbed' \in BOOLEAN /\ disturbed' = TRUE
    BY <1>6, Zenon DEF ChangeSchedule
  <2>2. UNCHANGED <<now, file, running, looked, lastMade, reports, starts, due>>
    BY <1>6 DEF ChangeSchedule
  <2>3. schedule' \in Schedules
    BY <1>1, <1>6 DEF ChangeSchedule, ReportTypes, Schedules
  <2>4. ReportTypes'
    BY <1>1, <2>1, <2>2, <2>3 DEF ReportTypes
  <2> QED
    BY <2>1, <2>2, <2>4, QuietReports
<1>7. CASE RequestReport \/ DeleteUserWithReports \/ UNCHANGED complianceVars
  <2>1. UNCHANGED <<now, file, schedule, running, looked, lastMade, reports,
                    starts, due, disturbed>>
    BY <1>7 DEF RequestReport, DeleteUserWithReports, complianceVars
  <2>2. ReportTypes'
    BY <1>1, <2>1 DEF ReportTypes
  <2> QED
    BY <2>1, <2>2, QuietReports
<1> QED
  BY <1>2, <1>3, <1>4, <1>5, <1>6, <1>7 DEF ComplianceNext

(* Whatever is edited, fails, or is restarted: a report that was due and   *)
(* did not fail itself is there; one run of the program makes no report of *)
(* a day or week twice; a daily one is of the day it was due on, but for   *)
(* the day's last unit; and the weekly reports of two weeks in a row leave *)
(* out no more than an hour between them, and no more than a unit when     *)
(* nothing disturbed the schedule (the scheduler of the job manager,       *)
(* manager.go:208-306, and GenerateComplianceReport, compliance.go:36-54). *)
THEOREM NoReportMissed == ComplianceSpec => []ReportsFollow
<1>1. ReportsInv => ReportsFollow
  BY DEF ReportsInv, MadeBefore, Made, DueMade, MadeOnce, NothingLeftOut,
     ReportsFollow, Scheduled
<1> QED
  BY <1>1, ReportsInit, ReportsStep, PTL DEF ComplianceSpec
=============================================================================
