------------------------------- MODULE Accounts -------------------------------
(***************************************************************************)
(* User accounts: the tables users and dashboard_pins (internal/store), the *)
(* handlers that write them, export and import, and the tokens of          *)
(* internal/auth, which carry a name and a role until they expire.         *)
(*                                                                         *)
(* A handler runs one statement after the other, without a transaction.    *)
(* Who knows a password is left open: a login here is one that is right.   *)
(* Tokens with the same name and role differ in the time they have left    *)
(* only; the longest is kept.                                              *)
(***************************************************************************)
EXTENDS Bounded, FiniteSets

CONSTANTS
  Id,           \* ids of rows (uuid.NewString)
  Name,         \* usernames
  Role,         \* roles
  Admin,        \* the role that AdminOnly asks for
  OAuthRole,    \* OAUTH_DEFAULT_ROLE
  EnvAdmin,     \* SWARMPIT_ADMIN_USER
  Item,         \* services and nodes that may be pinned
  Caller,       \* requests
  Day,          \* steps of the clock a token lives (24 hours)
  AccountWork   \* bound: requests, failures and restarts

ASSUME AccountsAssumption ==
  /\ {Admin, OAuthRole} \subseteq Role
  /\ EnvAdmin \in Name /\ Item # {}
  /\ Day \in Nat \ {0}
  /\ AccountWork \in Nat

VARIABLES
  users,     \* [Id -> Row]: table users
  pins,      \* SUBSET (Name \X Item): table dashboard_pins
  life,      \* [Name \X Role -> Nat]: time left of the tokens that are out
  call,      \* [Caller -> Call]
  exported,  \* the file of the last export
  had        \* SUBSET (Name \X Role): names and roles rows have had (history)

accountVars == <<users, pins, life, call, exported, had, work>>

Row  == [there : BOOLEAN, name : Name, role : Role, totp : BOOLEAN]
Call == [phase : {"idle", "token", "create", "initialize", "admin", "export",
                  "pin", "unpin"},
         name : Name, role : Role, item : Item, todo : SUBSET {"users", "pins"}]

NoCall == [phase |-> "idle", name |-> EnvAdmin, role |-> OAuthRole,
           item |-> CHOOSE i \in Item : TRUE, todo |-> {}]

Rows == {i \in Id : users[i].there}
Pairs(u) == {<<u[i].name, u[i].role>> : i \in {j \in Id : u[j].there}}

\* Every write of the table goes through here, for the history.
SetUsers(u) == users' = u /\ had' = had \cup Pairs(u)

\* auth.GenerateJWT.
GenerateJWT(n, r) == life' = [life EXCEPT ![<<n, r>>] = Day]

Goes(c, next) == call' = [call EXCEPT ![c] = next]

\* A request arrives.
Arrives(c) == call[c].phase = "idle" /\ Budget(AccountWork)

AdminExists == \E i \in Rows : users[i].role = Admin

\* The rows after CreateUser, one per free id; none when the name is taken.
CreateUser(n, r) ==
  {[users EXCEPT ![i] = [there |-> TRUE, name |-> n, role |-> r, totp |-> FALSE]] :
     i \in {j \in Id : ~users[j].there /\ \A k \in Rows : users[k].name # n}}

-----------------------------------------------------------------------------
\* Login: AuthenticateUser reads the row.
AuthenticateUser(c) ==
  /\ Arrives(c)
  /\ \E i \in Rows :
       Goes(c, [NoCall EXCEPT !.phase = "token", !.name = users[i].name, !.role = users[i].role])
  /\ UNCHANGED <<users, pins, life, exported, had>>

\* OAuthCallback: GetUserByUsername finds the row, or it is yet to be made.
OAuthCallback(c, n) ==
  /\ Arrives(c)
  /\ \/ \E i \in Rows : users[i].name = n /\
          Goes(c, [NoCall EXCEPT !.phase = "token", !.name = n, !.role = users[i].role])
     \/ /\ \A i \in Rows : users[i].name # n
        /\ Goes(c, [NoCall EXCEPT !.phase = "create", !.name = n])
  /\ UNCHANGED <<users, pins, life, exported, had>>

\* Seeded fault: the error of CreateUser is dropped.
OAuthCreateAnyway(c) ==
  /\ call[c].phase = "create"
  /\ \/ \E u \in CreateUser(call[c].name, OAuthRole) : SetUsers(u)
     \/ CreateUser(call[c].name, OAuthRole) = {} /\ UNCHANGED <<users, had>>
  /\ GenerateJWT(call[c].name, OAuthRole) /\ Goes(c, NoCall)
  /\ UNCHANGED <<pins, exported, work>>

\* ... CreateUser and the token, or 500 when another request made the row.
OAuthCreate(c) ==
  /\ call[c].phase = "create"
  /\ \/ /\ \E u \in CreateUser(call[c].name, OAuthRole) : SetUsers(u)
        /\ GenerateJWT(call[c].name, OAuthRole)
     \/ CreateUser(call[c].name, OAuthRole) = {} /\ UNCHANGED <<users, had, life>>
  /\ Goes(c, NoCall)
  /\ UNCHANGED <<pins, exported, work>>

\* The token of Login and OAuthCallback.  Login reads the TOTP secret of the
\* name, and ends without a token when a code is asked for and not given.
IssueToken(c) ==
  /\ call[c].phase = "token"
  /\ \/ GenerateJWT(call[c].name, call[c].role)
     \/ /\ \E i \in Rows : users[i].name = call[c].name /\ users[i].totp
        /\ UNCHANGED life
  /\ Goes(c, NoCall)
  /\ UNCHANGED <<users, pins, exported, had, work>>

\* Initialize: the check, then the row.
InitializeCheck(c, n) ==
  /\ Arrives(c) /\ ~AdminExists
  /\ Goes(c, [NoCall EXCEPT !.phase = "initialize", !.name = n])
  /\ UNCHANGED <<users, pins, life, exported, had>>

Initialize(c) ==
  /\ call[c].phase = "initialize"
  /\ \/ \E u \in CreateUser(call[c].name, Admin) : SetUsers(u)
     \/ CreateUser(call[c].name, Admin) = {} /\ UNCHANGED <<users, had>>
  /\ Goes(c, NoCall)
  /\ UNCHANGED <<pins, life, exported, work>>

-----------------------------------------------------------------------------
\* auth.Middleware and AdminOnly let a token in; the handler runs later, with the
\* name and the role of the token.  TogglePin begins with a count, which is 0 when
\* its query fails.
Middleware(c) ==
  /\ Arrives(c)
  /\ \E n \in Name, r \in Role :
       /\ life[<<n, r>>] > 0
       /\ \/ r = Admin /\ \E p \in {"admin", "export"} :
               Goes(c, [NoCall EXCEPT !.phase = p, !.name = n, !.role = r,
                                      !.todo = IF p = "export" THEN {"users", "pins"} ELSE {}])
          \/ \E it \in Item, p \in {"pin", "unpin"} :
               /\ p = "unpin" => <<n, it>> \in pins
               /\ Goes(c, [NoCall EXCEPT !.phase = p, !.name = n, !.role = r, !.item = it])
  /\ UNCHANGED <<users, pins, life, exported, had>>

\* UserCreate, UserUpdate, UserDelete: one statement each, by id; a name that is
\* taken is an error.  Pins and tokens of an old name stay.
AdminWrites(c) ==
  /\ call[c].phase = "admin"
  /\ \E n \in Name, r \in Role :
       \/ \E u \in CreateUser(n, r) : SetUsers(u)
       \/ \E i \in Rows :
            /\ \A k \in Rows \ {i} : users[k].name # n
            /\ SetUsers([users EXCEPT ![i].name = n, ![i].role = r])
       \/ \E i \in Rows : SetUsers([users EXCEPT ![i].there = FALSE])
  /\ Goes(c, NoCall)
  /\ UNCHANGED <<pins, life, exported, work>>

\* TOTPSetup and TOTPDisable write the secret of the name of a token.
SetTOTPSecret ==
  /\ Budget(AccountWork)
  /\ \E i \in Rows, on \in BOOLEAN, r \in Role :
       /\ life[<<users[i].name, r>>] > 0
       /\ users' = [users EXCEPT ![i].totp = on]
  /\ UNCHANGED <<pins, life, call, exported, had>>

\* TogglePin after it counted.  A second row with the same key is refused, and
\* the error of the statement is dropped.
TogglePin(c) ==
  /\ call[c].phase \in {"pin", "unpin"}
  /\ LET p == <<call[c].name, call[c].item>>
     IN pins' \in {pins, IF call[c].phase = "pin" THEN pins \cup {p} ELSE pins \ {p}}
  /\ Goes(c, NoCall)
  /\ UNCHANGED <<users, life, exported, had, work>>

-----------------------------------------------------------------------------
\* ExportAll queries the tables one by one, in the order of a map, and leaves
\* the TOTP secrets out.
ExportTable(c, t) ==
  /\ call[c].phase = "export" /\ t \in call[c].todo
  /\ exported' = IF t = "pins" THEN [exported EXCEPT !.pins = pins]
                 ELSE [exported EXCEPT !.users = [i \in Id |-> [users[i] EXCEPT !.totp = FALSE]]]
  /\ Goes(c, IF call[c].todo = {t} THEN NoCall ELSE [call[c] EXCEPT !.todo = @ \ {t}])
  /\ UNCHANGED <<users, pins, life, had, work>>

\* ImportAll: one transaction that clears and fills the tables.  The errors of its
\* statements are dropped, so that it may commit with the old rows there or new
\* ones left out; a new row replaces an old one with its id or its name.  A table
\* whose query failed is not in the file, and stays as it is.
ImportAll(c) ==
  /\ call[c].phase = "admin"
  /\ \E S \in SUBSET {i \in Id : exported.users[i].there}, old \in {{}, Rows} :
       SetUsers([i \in Id |->
         IF i \in S THEN exported.users[i]
         ELSE [users[i] EXCEPT !.there =
                 i \in old /\ \A k \in S : exported.users[k].name # users[i].name]])
  /\ \E P \in SUBSET exported.pins : pins' \in {P, P \cup pins}
  /\ Goes(c, NoCall)
  /\ UNCHANGED <<life, exported, work>>

-----------------------------------------------------------------------------
\* Seeded fault: a token that is used is issued again for as long.
TokenTickRenewed ==
  /\ \E t \in Name \X Role : life[t] > 0
  /\ life' = [t \in Name \X Role |->
       IF life[t] = 0 \/ \E c \in Caller : call[c].name = t[1] THEN life[t] ELSE life[t] - 1]
  /\ UNCHANGED <<users, pins, call, exported, had, work>>

\* Time passes: ValidateJWT refuses a token that has expired.
TokenTick ==
  /\ \E t \in Name \X Role : life[t] > 0
  /\ life' = [t \in Name \X Role |-> IF life[t] = 0 THEN 0 ELSE life[t] - 1]
  /\ UNCHANGED <<users, pins, call, exported, had, work>>

\* main: an administrator is made from the environment when there is none.
AccountRestart ==
  /\ Budget(AccountWork)
  /\ call' = [c \in Caller |-> NoCall]
  /\ \/ ~AdminExists /\ \E u \in CreateUser(EnvAdmin, Admin) : SetUsers(u)
     \/ /\ AdminExists \/ CreateUser(EnvAdmin, Admin) = {}
        /\ UNCHANGED <<users, had>>
  /\ UNCHANGED <<pins, life, exported>>

-----------------------------------------------------------------------------
NoUsers == [i \in Id |-> [there |-> FALSE, name |-> EnvAdmin, role |-> OAuthRole, totp |-> FALSE]]

AccountsInit ==
  /\ users = NoUsers /\ pins = {}
  /\ life = [t \in Name \X Role |-> 0]
  /\ call = [c \in Caller |-> NoCall]
  /\ exported = [users |-> NoUsers, pins |-> {}]
  /\ had = {}
  /\ work = 0

CallStep(c) ==
  \/ OAuthCreate(c) \/ IssueToken(c) \/ Initialize(c)
  \/ AdminWrites(c) \/ TogglePin(c) \/ ImportAll(c)
  \/ \E t \in {"users", "pins"} : ExportTable(c, t)

AccountsNext ==
  \/ \E c \in Caller :
       \/ AuthenticateUser(c) \/ Middleware(c) \/ CallStep(c)
       \/ \E n \in Name : OAuthCallback(c, n) \/ InitializeCheck(c, n)
  \/ SetTOTPSecret \/ TokenTick \/ AccountRestart

AccountsSpec == AccountsInit /\ [][AccountsNext]_accountVars

-----------------------------------------------------------------------------
\* Types.
AccountsTypeOK ==
  /\ users \in [Id -> Row]
  /\ pins \in SUBSET (Name \X Item)
  /\ life \in [Name \X Role -> 0 .. Day]
  /\ call \in [Caller -> Call]
  /\ exported \in [users : [Id -> Row], pins : SUBSET (Name \X Item)]
  /\ had \in SUBSET (Name \X Role)
  /\ work \in Nat

\* Every token carries a role that the row of its name has had, however
\* logins, first logins through OAuth (find, then create), renames, deletions,
\* imports and restarts interleave.
TokensWereTrue ==
  \A n \in Name, r \in Role : life[<<n, r>>] > 0 => <<n, r>> \in had

\* A role that a name has no more (changed, renamed, deleted, imported over) is
\* not usable for ever: its tokens expire (GenerateJWT) and its requests end.
Usable(n, r) ==
  life[<<n, r>>] > 0 \/ \E c \in Caller : call[c] # NoCall /\ call[c].name = n /\ call[c].role = r
Current(n, r) == \E i \in Rows : users[i].name = n /\ users[i].role = r
StaleRolesEnd ==
  \A n \in Name, r \in Role : Usable(n, r) ~> ~Usable(n, r) \/ Current(n, r)
=============================================================================
