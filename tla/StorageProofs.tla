---------------------------- MODULE StorageProofs ----------------------------
(***************************************************************************)
(* Theorems about Accounts, for any number of users, requests and tokens,  *)
(* about Backups, for any number of requests, transactions and backups,    *)
(* any retention and any page of the bucket's list, and about Storage,     *)
(* which has a behaviour of either.                                        *)
(***************************************************************************)
EXTENDS Storage, SequenceTheorems, TLAPS

-----------------------------------------------------------------------------
\* Accounts.

\* The history holds every row of the table, and what a login has read.
HadRows   == \A i \in Id : users[i].there => <<users[i].name, users[i].role>> \in had
HadLogins == \A c \in Caller : call[c].phase = "token" => <<call[c].name, call[c].role>> \in had

AccountsInv == AccountsTypeOK /\ HadRows /\ HadLogins /\ TokensWereTrue

-----------------------------------------------------------------------------
LEMMA AccountsWork == AccountsTypeOK /\ Budget(AccountWork) => work' \in Nat
BY DEF AccountsTypeOK, Budget

LEMMA NoCallType == NoCall \in Call
<1>1. (CHOOSE i \in Item : TRUE) \in Item
  BY AccountsAssumption
<1> QED
  BY <1>1, AccountsAssumption DEF NoCall, Call

LEMMA NoUsersType == NoUsers \in [Id -> Row] /\ \A i \in Id : ~NoUsers[i].there
BY AccountsAssumption DEF NoUsers, Row

LEMMA AccountsInitInv == AccountsInit => AccountsInv
<1> SUFFICES ASSUME AccountsInit PROVE AccountsInv
  OBVIOUS
<1>1. life \in [Name \X Role -> 0 .. Day]
  BY AccountsAssumption DEF AccountsInit
<1>2. AccountsTypeOK
  BY <1>1, NoCallType, NoUsersType DEF AccountsInit, AccountsTypeOK
<1>3. HadRows
  BY NoUsersType DEF AccountsInit, HadRows
<1>4. HadLogins
  BY DEF AccountsInit, HadLogins, NoCall
<1>5. TokensWereTrue
  BY DEF AccountsInit, TokensWereTrue
<1> QED
  BY <1>2, <1>3, <1>4, <1>5 DEF AccountsInv

\* A table that is written is of rows, and they enter the history.
LEMMA SetUsersFacts ==
  ASSUME AccountsTypeOK, NEW u \in [Id -> Row], SetUsers(u)
  PROVE  /\ users' \in [Id -> Row] /\ had' \in SUBSET (Name \X Role)
         /\ HadRows' /\ had \subseteq had'
         /\ \A i \in Id : u[i].there => <<u[i].name, u[i].role>> \in had'
<1>1. Pairs(u) \in SUBSET (Name \X Role)
  BY DEF Pairs, Row
<1>2. \A i \in Id : u[i].there => <<u[i].name, u[i].role>> \in Pairs(u)
  BY DEF Pairs
<1> QED
  BY <1>1, <1>2 DEF SetUsers, HadRows, AccountsTypeOK

\* CreateUser adds a row with the name and the role, and leaves the others.
LEMMA CreateUserFacts ==
  ASSUME AccountsTypeOK, NEW n \in Name, NEW r \in Role, NEW u \in CreateUser(n, r)
  PROVE  /\ u \in [Id -> Row]
         /\ \E i \in Id : u[i].there /\ u[i].name = n /\ u[i].role = r
<1>1. PICK i \in Id :
        u = [users EXCEPT ![i] = [there |-> TRUE, name |-> n, role |-> r, totp |-> FALSE]]
  BY DEF CreateUser
<1>2. [there |-> TRUE, name |-> n, role |-> r, totp |-> FALSE] \in Row
  BY DEF Row
<1> QED
  BY <1>1, <1>2 DEF AccountsTypeOK

-----------------------------------------------------------------------------
\* Nothing of the invariant is about the rest: a step that writes no token keeps
\* it when the history grows and the requests are logins of what it holds.
LEMMA KeepsInv ==
  ASSUME AccountsInv, AccountsTypeOK', HadRows', had \subseteq had',
         \A t \in Name \X Role : life'[t] > 0 => life[t] > 0 \/ t \in had',
         \A c \in Caller : call'[c].phase = "token" =>
           call'[c] = call[c] \/ <<call'[c].name, call'[c].role>> \in had'
  PROVE  AccountsInv'
<1>1. HadLogins'
  BY DEF AccountsInv, HadLogins
<1>2. TokensWereTrue'
  BY DEF AccountsInv, TokensWereTrue
<1> QED
  BY <1>1, <1>2 DEF AccountsInv

\* The request of one caller changes.
LEMMA GoesFacts ==
  ASSUME AccountsTypeOK, NEW c \in Caller, NEW next \in Call, Goes(c, next)
  PROVE  /\ call' \in [Caller -> Call] /\ call'[c] = next
         /\ \A d \in Caller \ {c} : call'[d] = call[d]
BY DEF Goes, AccountsTypeOK

LEMMA GenerateJWTFacts ==
  ASSUME AccountsTypeOK, NEW n \in Name, NEW r \in Role, GenerateJWT(n, r)
  PROVE  /\ life' \in [Name \X Role -> 0 .. Day]
         /\ \A t \in Name \X Role : t # <<n, r>> => life'[t] = life[t]
BY AccountsAssumption DEF GenerateJWT, AccountsTypeOK

\* A request arrives and reads: a login has read a row, or goes on to create one.
LEMMA ArrivalStep ==
  ASSUME AccountsInv, NEW c \in Caller, NEW next \in Call,
         Budget(AccountWork), Goes(c, next),
         next.phase = "token" => <<next.name, next.role>> \in had,
         UNCHANGED <<users, pins, life, exported, had>>
  PROVE  AccountsInv'
<1>1. AccountsTypeOK' /\ HadRows'
  BY GoesFacts, AccountsWork DEF AccountsInv, AccountsTypeOK, HadRows
<1>2. \A d \in Caller : call'[d].phase = "token" =>
        call'[d] = call[d] \/ <<call'[d].name, call'[d].role>> \in had'
  BY GoesFacts DEF AccountsInv
<1>3. \A t \in Name \X Role : life'[t] > 0 => life[t] > 0 \/ t \in had'
  OBVIOUS
<1> QED
  BY <1>1, <1>2, <1>3, KeepsInv

LEMMA LoginStep ==
  ASSUME AccountsInv, NEW c \in Caller,
         AuthenticateUser(c) \/ \E n \in Name : OAuthCallback(c, n)
  PROVE  AccountsInv'
<1>1. ASSUME NEW i \in Rows,
             Goes(c, [NoCall EXCEPT !.phase = "token", !.name = users[i].name,
                                    !.role = users[i].role])
      PROVE  \E next \in Call : Goes(c, next) /\ <<next.name, next.role>> \in had
  <2> DEFINE next == [NoCall EXCEPT !.phase = "token", !.name = users[i].name,
                                    !.role = users[i].role]
  <2>1. i \in Id /\ users[i] \in Row /\ <<users[i].name, users[i].role>> \in had
    BY DEF Rows, AccountsInv, AccountsTypeOK, HadRows
  <2>2. next \in Call /\ next.name = users[i].name /\ next.role = users[i].role
    BY <2>1, NoCallType DEF Call, Row
  <2> QED
    BY <1>1, <2>1, <2>2
<1>2. ASSUME NEW n \in Name, Goes(c, [NoCall EXCEPT !.phase = "create", !.name = n])
      PROVE  \E next \in Call : Goes(c, next) /\ next.phase # "token"
  <2> DEFINE next == [NoCall EXCEPT !.phase = "create", !.name = n]
  <2>1. next \in Call /\ next.phase # "token"
    BY NoCallType DEF Call
  <2> QED
    BY <1>2, <2>1
<1>3. \E next \in Call :
        Goes(c, next) /\ (next.phase = "token" => <<next.name, next.role>> \in had)
  <2>1. CASE AuthenticateUser(c)
    BY <1>1, <2>1 DEF AuthenticateUser
  <2>2. ASSUME NEW n \in Name, OAuthCallback(c, n)
        PROVE  <1>3!:
    <3>1. CASE \E i \in Rows : users[i].name = n /\
                 Goes(c, [NoCall EXCEPT !.phase = "token", !.name = n, !.role = users[i].role])
      <4>1. PICK i \in Rows : Goes(c, [NoCall EXCEPT !.phase = "token",
                                         !.name = users[i].name, !.role = users[i].role])
        BY <3>1
      <4> QED
        BY <1>1, <4>1
    <3>2. CASE Goes(c, [NoCall EXCEPT !.phase = "create", !.name = n])
      BY <1>2, <3>2
    <3> QED
      BY <2>2, <3>1, <3>2 DEF OAuthCallback
  <2> QED
    BY <2>1, <2>2
<1>4. Budget(AccountWork) /\ UNCHANGED <<users, pins, life, exported, had>>
  BY DEF AuthenticateUser, OAuthCallback, Arrives
<1> QED
  BY <1>3, <1>4, ArrivalStep

LEMMA OtherArrivalStep ==
  ASSUME AccountsInv, NEW c \in Caller,
         Middleware(c) \/ \E n \in Name : InitializeCheck(c, n)
  PROVE  AccountsInv'
<1>1. \E next \in Call : Goes(c, next) /\ next.phase # "token"
  <2>1. ASSUME NEW n \in Name, InitializeCheck(c, n) PROVE <1>1!:
    <3> DEFINE next == [NoCall EXCEPT !.phase = "initialize", !.name = n]
    <3>1. next \in Call /\ next.phase # "token"
      BY NoCallType DEF Call
    <3> QED
      BY <2>1, <3>1 DEF InitializeCheck
  <2>2. ASSUME NEW n \in Name, NEW r \in Role, NEW p \in {"admin", "export"},
               NEW todo \in SUBSET {"users", "pins"},
               Goes(c, [NoCall EXCEPT !.phase = p, !.name = n, !.role = r, !.todo = todo])
        PROVE  <1>1!:
    <3> DEFINE next == [NoCall EXCEPT !.phase = p, !.name = n, !.role = r, !.todo = todo]
    <3>1. next \in Call /\ next.phase # "token"
      BY NoCallType DEF Call
    <3> QED
      BY <2>2, <3>1
  <2>3. ASSUME NEW n \in Name, NEW r \in Role, NEW it \in Item, NEW p \in {"pin", "unpin"},
               Goes(c, [NoCall EXCEPT !.phase = p, !.name = n, !.role = r, !.item = it])
        PROVE  <1>1!:
    <3> DEFINE next == [NoCall EXCEPT !.phase = p, !.name = n, !.role = r, !.item = it]
    <3>1. next \in Call /\ next.phase # "token"
      BY NoCallType DEF Call
    <3> QED
      BY <2>3, <3>1
  <2>4. CASE Middleware(c)
    <3>1. PICK n \in Name, r \in Role :
            \/ \E p \in {"admin", "export"} :
                 Goes(c, [NoCall EXCEPT !.phase = p, !.name = n, !.role = r,
                            !.todo = IF p = "export" THEN {"users", "pins"} ELSE {}])
            \/ \E it \in Item, p \in {"pin", "unpin"} :
                 Goes(c, [NoCall EXCEPT !.phase = p, !.name = n, !.role = r, !.item = it])
      BY <2>4 DEF Middleware
    <3>2. \A p \in {"admin", "export"} :
            (IF p = "export" THEN {"users", "pins"} ELSE {}) \in SUBSET {"users", "pins"}
      OBVIOUS
    <3> QED
      BY <2>2, <2>3, <3>1, <3>2
  <2> QED
    BY <2>1, <2>4
<1>2. Budget(AccountWork) /\ UNCHANGED <<users, pins, life, exported, had>>
  BY DEF Middleware, InitializeCheck, Arrives
<1> QED
  BY <1>1, <1>2, ArrivalStep

-----------------------------------------------------------------------------
\* A token is issued for what the login read or the row that was created.
LEMMA TokenStep ==
  ASSUME AccountsInv, NEW c \in Caller, OAuthCreate(c) \/ IssueToken(c)
  PROVE  AccountsInv'
<1>1. AccountsTypeOK /\ call[c].name \in Name /\ call[c].role \in Role
      /\ OAuthRole \in Role
  BY AccountsAssumption DEF AccountsInv, AccountsTypeOK, Call
<1>2. Goes(c, NoCall) /\ UNCHANGED <<pins, exported, work>>
  BY DEF OAuthCreate, IssueToken
<1>3. call' \in [Caller -> Call] /\ call'[c].phase # "token"
      /\ \A d \in Caller \ {c} : call'[d] = call[d]
  BY <1>1, <1>2, NoCallType, GoesFacts DEF NoCall
<1>4. /\ users' \in [Id -> Row] /\ had' \in SUBSET (Name \X Role)
      /\ HadRows' /\ had \subseteq had'
      /\ life' \in [Name \X Role -> 0 .. Day]
      /\ \A t \in Name \X Role : life'[t] > 0 => life[t] > 0 \/ t \in had'
  <2>1. ASSUME UNCHANGED <<users, had>>, UNCHANGED life PROVE <1>4!:
    BY <1>1, <2>1 DEF AccountsInv, AccountsTypeOK, HadRows
  <2>2. ASSUME UNCHANGED <<users, had>>, call[c].phase = "token",
               GenerateJWT(call[c].name, call[c].role)
        PROVE  <1>4!:
    <3>1. <<call[c].name, call[c].role>> \in had
      BY <2>2 DEF AccountsInv, HadLogins
    <3> QED
      BY <1>1, <2>2, <3>1, GenerateJWTFacts DEF AccountsInv, AccountsTypeOK, HadRows
  <2>3. ASSUME NEW u \in CreateUser(call[c].name, OAuthRole), SetUsers(u),
               GenerateJWT(call[c].name, OAuthRole)
        PROVE  <1>4!:
    <3>1. u \in [Id -> Row] /\ \E i \in Id : u[i].there /\ u[i].name = call[c].name
                                              /\ u[i].role = OAuthRole
      BY <1>1, CreateUserFacts
    <3>2. /\ users' \in [Id -> Row] /\ had' \in SUBSET (Name \X Role)
          /\ HadRows' /\ had \subseteq had' /\ <<call[c].name, OAuthRole>> \in had'
      BY <1>1, <2>3, <3>1, SetUsersFacts
    <3> QED
      BY <1>1, <2>3, <3>2, GenerateJWTFacts
  <2> QED
    BY <2>1, <2>2, <2>3 DEF OAuthCreate, IssueToken
<1>5. AccountsTypeOK'
  BY <1>1, <1>2, <1>3, <1>4 DEF AccountsTypeOK
<1> QED
  BY <1>3, <1>4, <1>5, KeepsInv

\* The table is written, and no token.
LEMMA UsersStep ==
  ASSUME AccountsInv, NEW u \in [Id -> Row], SetUsers(u), life' = life,
         call' \in [Caller -> Call],
         \A d \in Caller : call'[d].phase # "token" \/ call'[d] = call[d],
         pins' \in SUBSET (Name \X Item), exported' = exported, work' \in Nat
  PROVE  AccountsInv'
<1>1. /\ users' \in [Id -> Row] /\ had' \in SUBSET (Name \X Role)
      /\ HadRows' /\ had \subseteq had'
  BY SetUsersFacts DEF AccountsInv
<1>2. AccountsTypeOK'
  BY <1>1 DEF AccountsInv, AccountsTypeOK
<1> QED
  BY <1>1, <1>2, KeepsInv

LEMMA AdminStep ==
  ASSUME AccountsInv, NEW c \in Caller, Initialize(c) \/ AdminWrites(c) \/ ImportAll(c)
  PROVE  AccountsInv'
<1>1. /\ users \in [Id -> Row] /\ exported.users \in [Id -> Row]
      /\ pins \in SUBSET (Name \X Item) /\ exported.pins \in SUBSET (Name \X Item)
      /\ call[c].name \in Name /\ Admin \in Role /\ AccountsTypeOK
  BY AccountsAssumption DEF AccountsInv, AccountsTypeOK, Call
<1>2. call' \in [Caller -> Call] /\ \A d \in Caller : call'[d].phase # "token" \/ call'[d] = call[d]
  <2>1. Goes(c, NoCall)
    BY DEF Initialize, AdminWrites, ImportAll
  <2>2. NoCall.phase # "token"
    BY DEF NoCall
  <2> QED
    BY <1>1, <2>1, <2>2, NoCallType, GoesFacts
<1>3. /\ life' = life /\ exported' = exported /\ work' \in Nat
      /\ pins' \in SUBSET (Name \X Item)
  BY <1>1 DEF Initialize, AdminWrites, ImportAll, AccountsTypeOK
<1>4. CASE UNCHANGED <<users, had>>
  <2>1. AccountsTypeOK' /\ HadRows'
    BY <1>1, <1>2, <1>3, <1>4 DEF AccountsTypeOK, AccountsInv, HadRows
  <2> QED
    BY <1>2, <1>3, <1>4, <2>1, KeepsInv
<1>5. CASE \E u \in [Id -> Row] : SetUsers(u)
  BY <1>2, <1>3, <1>5, UsersStep
<1>6. UNCHANGED <<users, had>> \/ \E u \in [Id -> Row] : SetUsers(u)
  <2>1. CASE Initialize(c)
    BY <1>1, <2>1, CreateUserFacts DEF Initialize
  <2>2. ASSUME NEW n \in Name, NEW r \in Role, NEW u \in CreateUser(n, r), SetUsers(u)
        PROVE  <1>6!:
    BY <1>1, <2>2, CreateUserFacts
  <2>3. ASSUME NEW n \in Name, NEW r \in Role, NEW i \in Rows,
               SetUsers([users EXCEPT ![i].name = n, ![i].role = r])
        PROVE  <1>6!:
    <3>1. i \in Id /\ users[i] \in Row
      BY <1>1 DEF Rows
    <3>2. [users[i] EXCEPT !.name = n, !.role = r] \in Row
      BY <3>1 DEF Row
    <3>3. [users EXCEPT ![i].name = n, ![i].role = r] \in [Id -> Row]
      BY <1>1, <3>1, <3>2
    <3> QED
      BY <2>3, <3>3
  <2>4. ASSUME NEW i \in Rows, SetUsers([users EXCEPT ![i].there = FALSE])
        PROVE  <1>6!:
    <3>1. [users EXCEPT ![i].there = FALSE] \in [Id -> Row]
      BY <1>1 DEF Row
    <3> QED
      BY <2>4, <3>1
  <2>5. ASSUME NEW S \in SUBSET Id, NEW old \in {{}, Rows},
               SetUsers([i \in Id |->
                 IF i \in S THEN exported.users[i]
                 ELSE [users[i] EXCEPT !.there =
                         i \in old /\ \A k \in S : exported.users[k].name # users[i].name]])
        PROVE  <1>6!:
    <3> DEFINE keep(i) == i \in old /\ \A k \in S : exported.users[k].name # users[i].name
               row(i) == IF i \in S THEN exported.users[i] ELSE [users[i] EXCEPT !.there = keep(i)]
    <3>1. ASSUME NEW i \in Id PROVE row(i) \in Row
      <4> DEFINE b == keep(i)
      <4>1. exported.users[i] \in Row /\ users[i] \in Row /\ b \in BOOLEAN
        BY <1>1
      <4> HIDE DEF b
      <4>2. [users[i] EXCEPT !.there = b] \in Row
        BY <4>1 DEF Row
      <4> QED
        BY <4>1, <4>2 DEF b
    <3>2. [i \in Id |-> row(i)] \in [Id -> Row]
      BY <3>1
    <3> QED
      BY <2>5, <3>2
  <2> QED
    BY <2>1, <2>2, <2>3, <2>4, <2>5 DEF AdminWrites, ImportAll
<1> QED
  BY <1>4, <1>5, <1>6

\* The secret of a row is no part of the history.
LEMMA TOTPStep == AccountsInv /\ SetTOTPSecret => AccountsInv'
<1> SUFFICES ASSUME AccountsInv, SetTOTPSecret PROVE AccountsInv'
  OBVIOUS
<1>1. PICK i \in Rows, on \in BOOLEAN : users' = [users EXCEPT ![i].totp = on]
  BY DEF SetTOTPSecret
<1>2. UNCHANGED <<pins, life, call, exported, had>> /\ work' \in Nat
  BY AccountsWork DEF SetTOTPSecret, AccountsInv
<1>3. users \in [Id -> Row] /\ i \in Id
  BY DEF AccountsInv, AccountsTypeOK, Rows
<1>4. [users[i] EXCEPT !.totp = on] \in Row
  BY <1>3 DEF Row
<1>5. users' \in [Id -> Row]
  BY <1>1, <1>3, <1>4
<1>6. \A j \in Id : users'[j].there = users[j].there /\ users'[j].name = users[j].name
                    /\ users'[j].role = users[j].role
  BY <1>1, <1>3 DEF Row
<1>7. AccountsTypeOK' /\ HadRows'
  BY <1>2, <1>5, <1>6 DEF AccountsInv, AccountsTypeOK, HadRows
<1> QED
  BY <1>2, <1>7, KeepsInv

\* Steps that leave the table and the history alone and issue no token.
LEMMA RestStep ==
  ASSUME AccountsInv, NEW c \in Caller,
         TogglePin(c) \/ \E t \in {"users", "pins"} : ExportTable(c, t)
  PROVE  AccountsInv'
<1>1. UNCHANGED <<users, life, had, work>>
  BY DEF TogglePin, ExportTable
<1>2. call[c] \in Call /\ AccountsTypeOK
  BY DEF AccountsInv, AccountsTypeOK
<1>3. \E next \in Call : Goes(c, next) /\ next.phase # "token"
  <2>1. CASE TogglePin(c)
    BY <2>1, NoCallType DEF TogglePin, NoCall
  <2>2. ASSUME NEW t \in {"users", "pins"}, ExportTable(c, t) PROVE <1>3!:
    <3> DEFINE next == [call[c] EXCEPT !.todo = call[c].todo \ {t}]
    <3>1. next \in Call /\ next.phase = "export"
      BY <1>2, <2>2 DEF Call, ExportTable
    <3>2. Goes(c, NoCall) \/ Goes(c, next)
      BY <2>2 DEF ExportTable
    <3>3. NoCall.phase # "token"
      BY DEF NoCall
    <3> QED
      BY <3>1, <3>2, <3>3, NoCallType
  <2> QED
    BY <2>1, <2>2
<1>4. call' \in [Caller -> Call] /\ \A d \in Caller : call'[d].phase # "token" \/ call'[d] = call[d]
  BY <1>2, <1>3, GoesFacts
<1>5. pins' \in SUBSET (Name \X Item)
  BY <1>2 DEF TogglePin, ExportTable, AccountsTypeOK, Call
<1>6. exported' \in [users : [Id -> Row], pins : SUBSET (Name \X Item)]
  <2>1. ASSUME NEW i \in Id PROVE [users[i] EXCEPT !.totp = FALSE] \in Row
    BY <1>2 DEF AccountsTypeOK, Row
  <2>2. [i \in Id |-> [users[i] EXCEPT !.totp = FALSE]] \in [Id -> Row]
    BY <2>1
  <2>3. exported' = exported \/ exported' = [exported EXCEPT !.pins = pins]
        \/ exported' = [exported EXCEPT !.users = [i \in Id |-> [users[i] EXCEPT !.totp = FALSE]]]
    BY DEF TogglePin, ExportTable
  <2> DEFINE u == [i \in Id |-> [users[i] EXCEPT !.totp = FALSE]]
  <2> HIDE DEF u
  <2> QED
    BY <1>2, <2>2, <2>3 DEF AccountsTypeOK, u
<1>7. AccountsTypeOK' /\ HadRows'
  BY <1>1, <1>2, <1>4, <1>5, <1>6 DEF AccountsTypeOK, AccountsInv, HadRows
<1> QED
  BY <1>1, <1>4, <1>7, KeepsInv

LEMMA TimeStep == AccountsInv /\ TokenTick => AccountsInv'
<1> SUFFICES ASSUME AccountsInv, TokenTick PROVE AccountsInv'
  OBVIOUS
<1>1. life \in [Name \X Role -> 0 .. Day] /\ Day \in Nat
  BY AccountsAssumption DEF AccountsInv, AccountsTypeOK
<1>2. life' = [t \in Name \X Role |-> IF life[t] = 0 THEN 0 ELSE life[t] - 1]
      /\ UNCHANGED <<users, pins, call, exported, had, work>>
  BY DEF TokenTick
<1>3. life' \in [Name \X Role -> 0 .. Day] /\ \A t \in Name \X Role : life'[t] > 0 => life[t] > 0
  BY <1>1, <1>2
<1>4. AccountsTypeOK' /\ HadRows'
  BY <1>2, <1>3 DEF AccountsInv, AccountsTypeOK, HadRows
<1> QED
  BY <1>2, <1>3, <1>4, KeepsInv

LEMMA AccountRestartStep == AccountsInv /\ AccountRestart => AccountsInv'
<1> SUFFICES ASSUME AccountsInv, AccountRestart PROVE AccountsInv'
  OBVIOUS
<1>1. call' = [d \in Caller |-> NoCall] /\ UNCHANGED <<pins, life, exported>> /\ work' \in Nat
  BY AccountsWork DEF AccountRestart, AccountsInv
<1>2. call' \in [Caller -> Call] /\ \A d \in Caller : call'[d].phase # "token"
  BY <1>1, NoCallType DEF NoCall
<1>3. AccountsTypeOK /\ pins' \in SUBSET (Name \X Item)
  BY <1>1 DEF AccountsInv, AccountsTypeOK
<1>4. CASE \E u \in CreateUser(EnvAdmin, Admin) : SetUsers(u)
  <2>1. PICK u \in CreateUser(EnvAdmin, Admin) : SetUsers(u)
    BY <1>4
  <2>2. u \in [Id -> Row]
    BY <1>3, AccountsAssumption, CreateUserFacts
  <2> QED
    BY <1>1, <1>2, <1>3, <2>1, <2>2, UsersStep
<1>5. CASE UNCHANGED <<users, had>>
  <2>1. AccountsTypeOK' /\ HadRows'
    BY <1>1, <1>2, <1>5 DEF AccountsInv, AccountsTypeOK, HadRows
  <2> QED
    BY <1>1, <1>2, <1>5, <2>1, KeepsInv
<1> QED
  BY <1>4, <1>5 DEF AccountRestart

LEMMA AccountsInvStep == AccountsInv /\ [AccountsNext]_accountVars => AccountsInv'
<1> SUFFICES ASSUME AccountsInv, [AccountsNext]_accountVars PROVE AccountsInv'
  OBVIOUS
<1>1. CASE UNCHANGED accountVars
  BY <1>1 DEF accountVars, AccountsInv, AccountsTypeOK, HadRows, HadLogins, TokensWereTrue
<1> QED
  BY <1>1, LoginStep, OtherArrivalStep, TokenStep, AdminStep, TOTPStep, RestStep, TimeStep,
     AccountRestartStep DEF AccountsNext, CallStep

-----------------------------------------------------------------------------
\* Types hold in every reachable state.
THEOREM AccountsTypeCorrect == AccountsSpec => []AccountsTypeOK
<1>1. AccountsInv => AccountsTypeOK
  BY DEF AccountsInv
<1> QED
  BY <1>1, AccountsInitInv, AccountsInvStep, PTL DEF AccountsSpec

\* A token carries a role that its name has had, however logins, renames,
\* deletions, imports and restarts interleave.
THEOREM TokensAreTrue == AccountsSpec => []TokensWereTrue
<1>1. AccountsInv => TokensWereTrue
  BY DEF AccountsInv
<1> QED
  BY <1>1, AccountsInitInv, AccountsInvStep, PTL DEF AccountsSpec

-----------------------------------------------------------------------------
\* Backups.

\* While nothing has overlapped: who reads sees the file at rest, what has been
\* read is whole, and the two who write know what the other half will be.
ReadersOK ==
  \A u \in Uploader :
    /\ up[u].phase = "half" => ~Writing /\ up[u].data[1] = file[1]
    /\ up[u].phase = "put" => Whole(up[u].data)
WritersOK ==
  /\ restore.phase \in {"got", "half"} => Whole(restore.data)
  /\ restore.phase = "half" => txn = <<>> /\ file[1] = restore.data[1]
  /\ txn # <<>> => file = <<txn[2], txn[1]>>
BucketOK == \A p \in 1 .. Len(bucket) : Whole(bucket[p].data)
FileOK   == ~Writing => Whole(file)

Undisturbed == ReadersOK /\ WritersOK /\ BucketOK /\ FileOK

BackupsInv ==
  /\ BackupsTypeOK
  /\ PruneKeepsNewest
  /\ ~disturbed => Undisturbed

-----------------------------------------------------------------------------
LEMMA BackupWork1 == BackupsTypeOK /\ Budget(BackupWork) => work' \in Nat
BY DEF BackupsTypeOK, Budget

\* The library's theorem with a name for the operator, which the solver does not
\* interpret.
Cat(s, t) == s \o t

LEMMA CatProperties ==
  ASSUME NEW S, NEW s \in Seq(S), NEW t \in Seq(S)
  PROVE  /\ Cat(s, t) \in Seq(S) /\ Len(Cat(s, t)) = Len(s) + Len(t)
         /\ \A q \in 1 .. Len(s) + Len(t) :
              Cat(s, t)[q] = IF q <= Len(s) THEN s[q] ELSE t[q - Len(s)]
BY ConcatProperties, Zenon DEF Cat

\* What InsertAt and RemoveAt make of a sequence.
LEMMA InsertAtProperties ==
  ASSUME NEW S, NEW s \in Seq(S), NEW e \in S, NEW i \in 0 .. Len(s)
  PROVE  /\ InsertAt(s, i + 1, e) \in Seq(S)
         /\ Len(InsertAt(s, i + 1, e)) = Len(s) + 1
         /\ \A q \in 1 .. Len(s) + 1 : InsertAt(s, i + 1, e)[q] =
              IF q <= i THEN s[q] ELSE IF q = i + 1 THEN e ELSE s[q - 1]
<1> DEFINE a == SubSeq(s, 1, (i + 1) - 1)
           b == <<e>>
           c == SubSeq(s, i + 1, Len(s))
<1>1. Len(s) \in Nat /\ \A q \in 1 .. Len(s) : s[q] \in S
  BY LenProperties, ElementOfSeq
<1>2. /\ a \in Seq(S) /\ Len(a) = i
      /\ \A q \in 1 .. i : a[q] = s[q]
  <2>1. 1 \in Int /\ (i + 1) - 1 \in Int /\ \A q \in 1 .. (i + 1) - 1 : s[q] \in S
    BY <1>1
  <2> HIDE DEF a
  <2>2. /\ a \in Seq(S)
        /\ Len(a) = IF 1 <= (i + 1) - 1 THEN (i + 1) - 1 - 1 + 1 ELSE 0
        /\ \A q \in 1 .. (i + 1) - 1 - 1 + 1 : a[q] = s[1 + q - 1]
    BY <2>1, SubSeqProperties DEF a
  <2> QED
    BY <1>1, <2>2
<1>3. /\ c \in Seq(S) /\ Len(c) = Len(s) - i
      /\ \A q \in 1 .. Len(s) - i : c[q] = s[q + i]
  <2>1. i + 1 \in Int /\ Len(s) \in Int /\ \A q \in i + 1 .. Len(s) : s[q] \in S
    BY <1>1
  <2> HIDE DEF c
  <2>2. /\ c \in Seq(S)
        /\ Len(c) = IF i + 1 <= Len(s) THEN Len(s) - (i + 1) + 1 ELSE 0
        /\ \A q \in 1 .. Len(s) - (i + 1) + 1 : c[q] = s[(i + 1) + q - 1]
    BY <2>1, SubSeqProperties DEF c
  <2> QED
    BY <1>1, <2>2
<1>4. b \in Seq(S) /\ Len(b) = 1 /\ b[1] = e
  OBVIOUS
<1> HIDE DEF a, b, c
<1>5. /\ Cat(a, b) \in Seq(S) /\ Len(Cat(a, b)) = i + 1
      /\ \A q \in 1 .. i + 1 : Cat(a, b)[q] = IF q <= i THEN a[q] ELSE b[q - i]
  <2>1. i \in Nat /\ 1 \in Nat
    BY <1>1
  <2>2. a \in Seq(S) /\ Len(a) = i
    BY <1>2
  <2>3. b \in Seq(S) /\ Len(b) = 1
    BY <1>4
  <2>4. /\ Cat(a, b) \in Seq(S) /\ Len(Cat(a, b)) = Len(a) + Len(b)
        /\ \A q \in 1 .. Len(a) + Len(b) :
             Cat(a, b)[q] = IF q <= Len(a) THEN a[q] ELSE b[q - Len(a)]
    BY <2>2, <2>3, CatProperties, Zenon
  <2> QED
    BY <2>1, <2>2, <2>3, <2>4
<1>6. /\ Cat(Cat(a, b), c) \in Seq(S) /\ Len(Cat(Cat(a, b), c)) = (i + 1) + (Len(s) - i)
      /\ \A q \in 1 .. (i + 1) + (Len(s) - i) : (Cat(Cat(a, b), c))[q] =
           IF q <= i + 1 THEN Cat(a, b)[q] ELSE c[q - (i + 1)]
  <2> DEFINE d == Cat(a, b)
  <2>1. i + 1 \in Nat /\ Len(s) - i \in Nat
    BY <1>1
  <2>2. d \in Seq(S) /\ Len(d) = i + 1
    BY <1>5
  <2>3. c \in Seq(S) /\ Len(c) = Len(s) - i
    BY <1>3
  <2> HIDE DEF d
  <2>4. /\ Cat(d, c) \in Seq(S) /\ Len(Cat(d, c)) = Len(d) + Len(c)
        /\ \A q \in 1 .. Len(d) + Len(c) :
             Cat(d, c)[q] = IF q <= Len(d) THEN d[q] ELSE c[q - Len(d)]
    BY <2>2, <2>3, CatProperties, Zenon
  <2>5. /\ Cat(d, c) \in Seq(S) /\ Len(Cat(d, c)) = (i + 1) + (Len(s) - i)
        /\ \A q \in 1 .. (i + 1) + (Len(s) - i) : Cat(d, c)[q] =
             IF q <= i + 1 THEN d[q] ELSE c[q - (i + 1)]
    BY <2>1, <2>2, <2>3, <2>4
  <2> QED
    BY <2>5 DEF d
<1> DEFINE r == Cat(Cat(a, b), c)
<1>7. InsertAt(s, i + 1, e) = r
  BY DEF InsertAt, Cat, a, b, c
<1>8. r \in Seq(S) /\ Len(r) = Len(s) + 1
  BY <1>1, <1>6
<1>9. ASSUME NEW q \in 1 .. Len(s) + 1
      PROVE  r[q] = IF q <= i THEN s[q] ELSE IF q = i + 1 THEN e ELSE s[q - 1]
  <2>1. r[q] = IF q <= i + 1 THEN Cat(a, b)[q] ELSE c[q - (i + 1)]
    BY <1>1, <1>6
  <2> DEFINE d == Cat(a, b)
  <2>2. q <= i + 1 => d[q] = IF q <= i THEN a[q] ELSE b[q - i]
    BY <1>1, <1>5
  <2>3. r[q] = IF q <= i + 1 THEN d[q] ELSE c[q - (i + 1)]
    BY <2>1
  <2> HIDE DEF d, r
  <2>4. CASE q <= i
    BY <2>2, <2>3, <2>4, <1>1, <1>2
  <2>5. CASE q = i + 1
    <3>1. q - i = 1 /\ ~(q <= i) /\ q <= i + 1
      BY <2>5, <1>1
    <3> QED
      BY <3>1, <2>2, <2>3, <2>5, <1>4
  <2>6. CASE q > i + 1
    <3>1. /\ q - (i + 1) \in 1 .. Len(s) - i /\ (q - (i + 1)) + i = q - 1
          /\ ~(q <= i) /\ ~(q <= i + 1) /\ q # i + 1
      BY <2>6, <1>1
    <3> QED
      BY <3>1, <2>3, <1>3
  <2> QED
    BY <2>4, <2>5, <2>6, <1>1
<1> HIDE DEF r
<1> QED
  BY <1>7, <1>8, <1>9

LEMMA RemoveAtProperties ==
  ASSUME NEW S, NEW s \in Seq(S), NEW i \in 1 .. Len(s)
  PROVE  /\ RemoveAt(s, i) \in Seq(S)
         /\ Len(RemoveAt(s, i)) = Len(s) - 1
         /\ \A q \in 1 .. Len(s) - 1 :
              RemoveAt(s, i)[q] = IF q < i THEN s[q] ELSE s[q + 1]
<1> DEFINE a == SubSeq(s, 1, i - 1)
           c == SubSeq(s, i + 1, Len(s))
<1>1. Len(s) \in Nat /\ \A q \in 1 .. Len(s) : s[q] \in S
  BY LenProperties, ElementOfSeq
<1>2. /\ a \in Seq(S) /\ Len(a) = i - 1
      /\ \A q \in 1 .. i - 1 : a[q] = s[q]
  <2>1. 1 \in Int /\ i - 1 \in Int /\ \A q \in 1 .. i - 1 : s[q] \in S
    BY <1>1
  <2> HIDE DEF a
  <2>2. /\ a \in Seq(S)
        /\ Len(a) = IF 1 <= i - 1 THEN i - 1 - 1 + 1 ELSE 0
        /\ \A q \in 1 .. i - 1 - 1 + 1 : a[q] = s[1 + q - 1]
    BY <2>1, SubSeqProperties DEF a
  <2> QED
    BY <1>1, <2>2
<1>3. /\ c \in Seq(S) /\ Len(c) = Len(s) - i
      /\ \A q \in 1 .. Len(s) - i : c[q] = s[q + i]
  <2>1. i + 1 \in Int /\ Len(s) \in Int /\ \A q \in i + 1 .. Len(s) : s[q] \in S
    BY <1>1
  <2> HIDE DEF c
  <2>2. /\ c \in Seq(S)
        /\ Len(c) = IF i + 1 <= Len(s) THEN Len(s) - (i + 1) + 1 ELSE 0
        /\ \A q \in 1 .. Len(s) - (i + 1) + 1 : c[q] = s[(i + 1) + q - 1]
    BY <2>1, SubSeqProperties DEF c
  <2> QED
    BY <1>1, <2>2
<1> HIDE DEF a, c
<1>4. /\ Cat(a, c) \in Seq(S) /\ Len(Cat(a, c)) = (i - 1) + (Len(s) - i)
      /\ \A q \in 1 .. (i - 1) + (Len(s) - i) : Cat(a, c)[q] =
           IF q <= i - 1 THEN a[q] ELSE c[q - (i - 1)]
  <2>1. i - 1 \in Nat /\ Len(s) - i \in Nat
    BY <1>1
  <2>2. a \in Seq(S) /\ Len(a) = i - 1
    BY <1>2
  <2>3. c \in Seq(S) /\ Len(c) = Len(s) - i
    BY <1>3
  <2>4. /\ Cat(a, c) \in Seq(S) /\ Len(Cat(a, c)) = Len(a) + Len(c)
        /\ \A q \in 1 .. Len(a) + Len(c) :
             Cat(a, c)[q] = IF q <= Len(a) THEN a[q] ELSE c[q - Len(a)]
    BY <2>2, <2>3, CatProperties, Zenon
  <2> QED
    BY <2>1, <2>2, <2>3, <2>4
<1> DEFINE r == Cat(a, c)
<1>5. RemoveAt(s, i) = r
  BY DEF RemoveAt, Cat, a, c
<1> HIDE DEF r
<1>6. /\ r \in Seq(S) /\ Len(r) = Len(s) - 1
      /\ \A q \in 1 .. Len(s) - 1 : r[q] = IF q <= i - 1 THEN a[q] ELSE c[q - (i - 1)]
  BY <1>1, <1>4 DEF r
<1>7. ASSUME NEW q \in 1 .. Len(s) - 1
      PROVE  r[q] = IF q < i THEN s[q] ELSE s[q + 1]
  <2>1. r[q] = IF q <= i - 1 THEN a[q] ELSE c[q - (i - 1)]
    BY <1>6
  <2>2. CASE q < i
    <3>1. q <= i - 1 /\ q \in 1 .. i - 1
      BY <1>1, <2>2
    <3> QED
      BY <1>2, <2>1, <2>2, <3>1
  <2>3. CASE ~(q < i)
    <3>1. /\ ~(q <= i - 1) /\ q - (i - 1) \in 1 .. Len(s) - i
          /\ (q - (i - 1)) + i = q + 1
      BY <1>1, <2>3
    <3> QED
      BY <1>3, <2>1, <2>3, <3>1
  <2> QED
    BY <2>2, <2>3
<1> QED
  BY <1>5, <1>6, <1>7

\* Marks that change and nothing else leave a bucket a bucket.
LEMMA MarksKeepTypes ==
  ASSUME bucket \in Seq(Backup), NEW D \in SUBSET Nat,
         bucket' = [p \in 1 .. Len(bucket) |-> [bucket[p] EXCEPT !.doomed = p \in D]]
  PROVE  /\ bucket' \in Seq(Backup) /\ Len(bucket') = Len(bucket)
         /\ \A p \in 1 .. Len(bucket) :
              bucket'[p].data = bucket[p].data /\ bucket'[p].doomed = (p \in D)
<1>1. Len(bucket) \in Nat /\ \A p \in 1 .. Len(bucket) : bucket[p] \in Backup
  BY LenProperties, ElementOfSeq
<1>2. ASSUME NEW p \in 1 .. Len(bucket)
      PROVE  [bucket[p] EXCEPT !.doomed = p \in D] \in Backup
  <2> DEFINE r == bucket[p]
             d == p \in D
  <2>1. r \in Backup /\ d \in BOOLEAN
    BY <1>1
  <2> HIDE DEF r, d
  <2>2. [r EXCEPT !.doomed = d] \in Backup
    BY <2>1 DEF Backup
  <2> QED
    BY <2>2 DEF r, d
<1>3. bucket' \in [1 .. Len(bucket) -> Backup]
  BY <1>2
<1>4. bucket' \in Seq(Backup) /\ Len(bucket') = Len(bucket)
  BY <1>1, <1>3
<1>5. ASSUME NEW p \in 1 .. Len(bucket)
      PROVE  bucket'[p].data = bucket[p].data /\ bucket'[p].doomed = (p \in D)
  <2>1. bucket'[p] = [bucket[p] EXCEPT !.doomed = p \in D]
    OBVIOUS
  <2>2. bucket[p] \in Backup
    BY <1>1
  <2> HIDE DEF Backup
  <2> DEFINE r == bucket[p]
  <2> HIDE DEF r
  <2>3. r \in Backup => [r EXCEPT !.doomed = p \in D].data = r.data
          /\ [r EXCEPT !.doomed = p \in D].doomed = (p \in D)
    BY DEF Backup
  <2> QED
    BY <2>1, <2>2, <2>3, Zenon DEF r
<1> QED
  BY <1>4, <1>5

-----------------------------------------------------------------------------
LEMMA BackupsInitInv == BackupsInit => BackupsInv
<1> SUFFICES ASSUME BackupsInit PROVE BackupsInv
  OBVIOUS
<1>1. bucket \in Seq(Backup) /\ Len(bucket) = 0 /\ 1 .. Len(bucket) = {}
  BY EmptySeq DEF BackupsInit
<1>2. BackupsTypeOK
  <2>1. NoUpload \in Upload
    BY DEF NoUpload, Upload, Halves
  <2>2. NoRestore \in [phase : {"idle", "got", "half"}, data : Halves]
    BY DEF NoRestore, Halves
  <2>3. up \in [Uploader -> Upload]
    BY <2>1 DEF BackupsInit
  <2>4. file \in Halves /\ work \in Nat /\ disturbed \in BOOLEAN
    BY DEF BackupsInit, Halves
  <2>5. txn \in {<<>>} \cup Halves
    BY DEF BackupsInit
  <2> QED
    BY <1>1, <2>2, <2>3, <2>4, <2>5 DEF BackupsInit, BackupsTypeOK
<1>3. PruneKeepsNewest
  BY <1>1 DEF PruneKeepsNewest, Condemned
<1>4. Undisturbed
  BY <1>1 DEF BackupsInit, Undisturbed, ReadersOK, WritersOK, BucketOK, FileOK, NoUpload,
     NoRestore, Whole
<1> QED
  BY <1>2, <1>3, <1>4 DEF BackupsInv

\* A bucket that stays keeps what is said of it.
LEMMA SameBucket ==
  UNCHANGED bucket => (PruneKeepsNewest => PruneKeepsNewest') /\ (BucketOK => BucketOK')
BY DEF PruneKeepsNewest, Condemned, BucketOK

\* A reader begins while nobody writes, or the overlap is noted.
LEMMA ReadFirstStep ==
  ASSUME BackupsInv, NEW u \in Uploader, ReadFirst(u)
  PROVE  BackupsInv'
<1> DEFINE l == [NoUpload EXCEPT !.phase = "half", !.data = <<file[1], 0>>]
<1> USE DEF BackupsInv
<1>1. /\ UNCHANGED <<file, txn, restore, bucket>>
      /\ up' = [up EXCEPT ![u] = l]
      /\ disturbed' = (disturbed \/ Writing)
  BY Zenon DEF ReadFirst
<1>2. work' \in Nat
  BY BackupWork1 DEF ReadFirst, BackupsTypeOK
<1>3. l \in Upload /\ l.phase = "half" /\ l.data = <<file[1], 0>>
  <2>1. NoUpload \in Upload /\ <<file[1], 0>> \in Halves
    BY DEF BackupsTypeOK, NoUpload, Upload, Halves
  <2> QED
    BY <2>1 DEF Upload
<1>4. BackupsTypeOK'
  <2> HIDE DEF l
  <2> QED
    BY <1>1, <1>2, <1>3 DEF BackupsTypeOK
<1>5. ASSUME ~disturbed' PROVE Undisturbed'
  <2>1. Undisturbed /\ ~Writing /\ ~Writing'
    BY <1>1, <1>5 DEF BackupsTypeOK, Writing
  <2>2. /\ up'[u].phase = "half" /\ up'[u].data[1] = file[1]
        /\ \A v \in Uploader \ {u} : up'[v] = up[v]
    <3> HIDE DEF l
    <3> QED
      BY <1>1, <1>3 DEF BackupsTypeOK
  <2>3. ReadersOK'
    BY <1>1, <2>1, <2>2 DEF Undisturbed, ReadersOK
  <2> QED
    BY <1>1, <2>1, <2>3, SameBucket DEF Undisturbed, WritersOK, FileOK, Writing
<1> QED
  BY <1>1, <1>4, <1>5, SameBucket

\* The file is whole and as it was when the reader began.
LEMMA ReadSecondStep ==
  ASSUME BackupsInv, NEW u \in Uploader, ReadSecond(u)
  PROVE  BackupsInv'
<1> DEFINE l == [up[u] EXCEPT !.phase = "put", !.data = <<up[u].data[1], file[2]>>]
<1> USE DEF BackupsInv
<1>1. /\ UNCHANGED <<file, txn, restore, bucket, disturbed, work>>
      /\ up[u].phase = "half" /\ up[u] \in Upload
  BY DEF ReadSecond, BackupsTypeOK
<1>2. up' = [up EXCEPT ![u] = l]
  BY DEF ReadSecond, BackupsTypeOK
<1>3. l \in Upload /\ l.phase = "put" /\ l.data = <<up[u].data[1], file[2]>>
  BY <1>1 DEF BackupsTypeOK, Upload, Halves
<1>4. BackupsTypeOK'
  <2> HIDE DEF l
  <2> QED
    BY <1>1, <1>2, <1>3 DEF BackupsTypeOK
<1>5. ASSUME ~disturbed' PROVE Undisturbed'
  <2>1. Undisturbed /\ ~Writing /\ ~Writing' /\ up[u].data[1] = file[1] /\ file[1] = file[2]
    BY <1>1, <1>5 DEF Undisturbed, ReadersOK, FileOK, Whole, Writing
  <2>2. /\ up'[u].phase = "put" /\ up'[u].data[1] = file[1] /\ up'[u].data[2] = file[2]
        /\ \A v \in Uploader \ {u} : up'[v] = up[v]
    <3> HIDE DEF l
    <3> QED
      BY <1>2, <1>3, <2>1 DEF BackupsTypeOK
  <2>3. ReadersOK'
    BY <1>1, <2>1, <2>2 DEF Undisturbed, ReadersOK, Whole
  <2> QED
    BY <1>1, <2>1, <2>3, SameBucket DEF Undisturbed, WritersOK, FileOK, Writing
<1> QED
  BY <1>1, <1>4, <1>5, SameBucket

\* A failed call only ends the upload.
LEMMA UploadEnds ==
  ASSUME BackupsInv, NEW u \in Uploader, up' = [up EXCEPT ![u] = NoUpload],
         UNCHANGED <<file, txn, restore, bucket, disturbed>>, work' \in Nat
  PROVE  BackupsInv'
<1> USE DEF BackupsInv
<1>1. NoUpload \in Upload /\ NoUpload.phase = "idle"
  BY DEF NoUpload, Upload, Halves
<1>2. BackupsTypeOK'
  BY <1>1 DEF BackupsTypeOK
<1>3. ASSUME ~disturbed' PROVE Undisturbed'
  <2>1. up'[u].phase = "idle" /\ \A v \in Uploader \ {u} : up'[v] = up[v]
    BY <1>1 DEF BackupsTypeOK
  <2>2. ReadersOK'
    BY <1>3, <2>1 DEF Undisturbed, ReadersOK, Writing
  <2> QED
    BY <1>3, <2>2, SameBucket DEF Undisturbed, WritersOK, FileOK, Writing
<1> QED
  BY <1>2, <1>3, SameBucket

\* An object that arrives moves others up, or takes the place of one: nothing
\* condemned comes closer to the newest.
LEMMA BucketAfterPut ==
  ASSUME BackupsTypeOK, PruneKeepsNewest, NEW b \in Backup, b.doomed = FALSE,
         NEW p \in 0 .. Len(bucket),
         \/ bucket' = InsertAt(bucket, p + 1, b)
         \/ p > 0 /\ bucket' = [bucket EXCEPT ![p].data = b.data]
  PROVE  /\ bucket' \in Seq(Backup)
         /\ PruneKeepsNewest'
         /\ BucketOK /\ Whole(b.data) => BucketOK'
<1>1. /\ bucket \in Seq(Backup) /\ Len(bucket) \in Nat
      /\ \A q \in 1 .. Len(bucket) : bucket[q] \in Backup
  BY LenProperties, ElementOfSeq DEF BackupsTypeOK
<1>2. \A q \in 1 .. Len(bucket) : bucket[q].doomed => Len(bucket) - q >= Retention
  BY DEF PruneKeepsNewest, Condemned
<1>3. CASE bucket' = InsertAt(bucket, p + 1, b)
  <2>1. /\ bucket' \in Seq(Backup) /\ Len(bucket') = Len(bucket) + 1
        /\ \A q \in 1 .. Len(bucket) + 1 : bucket'[q] =
             IF q <= p THEN bucket[q] ELSE IF q = p + 1 THEN b ELSE bucket[q - 1]
    BY <1>1, <1>3, InsertAtProperties
  <2>2. ASSUME NEW q \in 1 .. Len(bucket'), bucket'[q].doomed
        PROVE  Len(bucket') - q >= Retention
    <3>1. CASE q <= p
      <4>1. bucket'[q] = bucket[q] /\ q \in 1 .. Len(bucket)
        BY <1>1, <2>1, <3>1
      <4> QED
        BY <1>1, <1>2, <2>1, <2>2, <4>1, BackupsAssumption DEF BackupsAssumption
    <3>2. CASE q = p + 1
      BY <1>1, <2>1, <2>2, <3>2
    <3>3. CASE q > p + 1
      <4>1. bucket'[q] = bucket[q - 1] /\ q - 1 \in 1 .. Len(bucket)
        BY <1>1, <2>1, <3>3
      <4> QED
        BY <1>1, <1>2, <2>1, <2>2, <4>1, BackupsAssumption DEF BackupsAssumption
    <3> QED
      BY <1>1, <2>1, <3>1, <3>2, <3>3
  <2>3. ASSUME BucketOK, Whole(b.data), NEW q \in 1 .. Len(bucket')
        PROVE  Whole(bucket'[q].data)
    <3>1. \/ bucket'[q] = b
          \/ bucket'[q] = bucket[q] /\ q \in 1 .. Len(bucket)
          \/ bucket'[q] = bucket[q - 1] /\ q - 1 \in 1 .. Len(bucket)
      BY <1>1, <2>1
    <3> QED
      BY <2>3, <3>1 DEF BucketOK, Whole
  <2> QED
    BY <2>1, <2>2, <2>3 DEF PruneKeepsNewest, Condemned, BucketOK, Whole
<1>4. CASE p > 0 /\ bucket' = [bucket EXCEPT ![p].data = b.data]
  <2> DEFINE c == [bucket[p] EXCEPT !.data = b.data]
  <2>1. p \in 1 .. Len(bucket) /\ bucket[p] \in Backup
    BY <1>1, <1>4
  <2>2. c \in Backup /\ c.data = b.data /\ c.doomed = bucket[p].doomed
    BY <2>1 DEF Backup
  <2>3. bucket' = [bucket EXCEPT ![p] = c]
    BY <1>1, <1>4, <2>1
  <2> HIDE DEF c
  <2>4. /\ bucket' \in Seq(Backup) /\ Len(bucket') = Len(bucket) /\ bucket'[p] = c
        /\ \A q \in 1 .. Len(bucket) : q # p => bucket'[q] = bucket[q]
    BY <1>1, <2>1, <2>2, <2>3
  <2>5. \A q \in 1 .. Len(bucket) : bucket'[q].doomed => Len(bucket) - q >= Retention
    BY <1>2, <2>2, <2>4
  <2>6. BucketOK /\ Whole(b.data) => BucketOK'
    BY <2>2, <2>4 DEF BucketOK, Whole
  <2> QED
    BY <2>4, <2>5, <2>6 DEF PruneKeepsNewest, Condemned
<1> QED
  BY <1>3, <1>4

LEMMA S3PutStep ==
  ASSUME BackupsInv, NEW u \in Uploader, S3Put(u)
  PROVE  BackupsInv'
<1> USE DEF BackupsInv
<1> DEFINE b == [data |-> up[u].data, doomed |-> FALSE]
<1>1. /\ UNCHANGED <<file, txn, restore, disturbed, work>>
      /\ up[u].phase = "put" /\ up[u] \in Upload
  BY DEF S3Put, BackupsTypeOK
<1>2. b \in Backup /\ b.doomed = FALSE /\ b.data = up[u].data
  BY <1>1 DEF Backup, Upload
<1>3. PICK p \in 0 .. Len(bucket) :
        \/ bucket' = InsertAt(bucket, p + 1, b)
        \/ p > 0 /\ bucket' = [bucket EXCEPT ![p].data = b.data]
  BY Zenon DEF S3Put
<1> HIDE DEF b
<1>4. /\ bucket' \in Seq(Backup) /\ PruneKeepsNewest'
      /\ BucketOK /\ Whole(b.data) => BucketOK'
  BY <1>2, <1>3, BucketAfterPut
<1> DEFINE done == [NoUpload EXCEPT !.phase = AfterUpload(u)]
<1>5. done \in Upload /\ done.phase \in {"list", "idle"}
  BY DEF NoUpload, Upload, Halves, AfterUpload
<1>6. \A v \in Uploader : up'[v] \in Upload
        /\ IF v = u THEN up'[v] = done
           ELSE up'[v].phase = up[v].phase /\ up'[v].data = up[v].data
  <2> SUFFICES ASSUME NEW v \in Uploader
               PROVE  /\ up'[v] \in Upload
                      /\ IF v = u THEN up'[v] = done
                         ELSE up'[v].phase = up[v].phase /\ up'[v].data = up[v].data
    OBVIOUS
  <2> DEFINE later == [up[v] EXCEPT !.late = @ + 1]
  <2>1. up[v] \in Upload
    BY DEF BackupsTypeOK
  <2>2. later \in Upload /\ later.phase = up[v].phase /\ later.data = up[v].data
    BY <2>1 DEF Upload
  <2>3. up'[v] = IF v = u THEN done
                 ELSE IF up[v].phase = "put" /\ up[v].late < Len(bucket') THEN later ELSE up[v]
    BY DEF S3Put
  <2> HIDE DEF later, done
  <2> QED
    BY <1>5, <2>1, <2>2, <2>3
<1>7. DOMAIN up' = Uploader /\ up' = [v \in Uploader |-> up'[v]]
  BY DEF S3Put
<1> HIDE DEF done
<1>8. BackupsTypeOK'
  <2>1. up' \in [Uploader -> Upload]
    BY <1>6, <1>7
  <2> QED
    BY <1>1, <1>4, <2>1 DEF BackupsTypeOK
<1>9. ASSUME ~disturbed' PROVE Undisturbed'
  <2>1. Undisturbed /\ Whole(b.data)
    BY <1>1, <1>2, <1>9 DEF Undisturbed, ReadersOK
  <2>2. ReadersOK'
    BY <1>1, <1>5, <1>6, <2>1 DEF Undisturbed, ReadersOK, Writing, Whole
  <2> QED
    BY <1>1, <1>4, <2>1, <2>2 DEF Undisturbed, WritersOK, FileOK, Writing
<1> QED
  BY <1>4, <1>8, <1>9

\* The list marks the keys that are followed by at least Retention others.
LEMMA ListForPruneStep ==
  ASSUME BackupsInv, ListForPrune
  PROVE  BackupsInv'
<1> USE DEF BackupsInv
<1>1. UNCHANGED <<file, txn, restore, disturbed>>
  BY DEF ListForPrune
<1>2. bucket \in Seq(Backup) /\ Len(bucket) \in Nat
  BY LenProperties DEF BackupsTypeOK
<1>3. work' \in Nat
  BY BackupWork1 DEF ListForPrune, BackupsTypeOK
<1>4. PICK n \in {IF Len(bucket) < Page THEN Len(bucket) ELSE Page, 0} :
        bucket' = [p \in 1 .. Len(bucket) |-> [bucket[p] EXCEPT !.doomed = p \in Doomed(n)]]
  BY DEF ListForPrune
<1>5. n \in Nat /\ n <= Len(bucket)
  BY <1>2, BackupsAssumption DEF BackupsAssumption
<1>6. /\ bucket' \in Seq(Backup) /\ Len(bucket') = Len(bucket)
      /\ \A p \in 1 .. Len(bucket) :
           bucket'[p].data = bucket[p].data /\ bucket'[p].doomed = (p \in Doomed(n))
  <2>1. Doomed(n) \in SUBSET Nat
    BY <1>5 DEF Doomed
  <2> QED
    BY <1>2, <1>4, <2>1, MarksKeepTypes
<1>7. PruneKeepsNewest'
  <2>1. ASSUME NEW p \in 1 .. Len(bucket), p \in Doomed(n) PROVE Len(bucket) - p >= Retention
    <3>1. p + Retention <= n
      BY <2>1 DEF Doomed
    <3> QED
      BY <1>2, <1>5, <3>1, BackupsAssumption DEF BackupsAssumption
  <2> QED
    BY <1>6, <2>1 DEF PruneKeepsNewest, Condemned
<1> DEFINE l == [up[Scheduler] EXCEPT !.phase = "prune"]
<1>8. Scheduler \in Uploader /\ up[Scheduler] \in Upload /\ up' = [up EXCEPT ![Scheduler] = l]
  BY DEF ListForPrune, BackupsTypeOK, Uploader
<1>9. l \in Upload /\ l.phase = "prune"
  BY <1>8 DEF Upload
<1> HIDE DEF l
<1>10. BackupsTypeOK'
  BY <1>1, <1>3, <1>6, <1>8, <1>9 DEF BackupsTypeOK
<1>11. ASSUME ~disturbed' PROVE Undisturbed'
  <2>1. up'[Scheduler].phase = "prune" /\ \A v \in Uploader \ {Scheduler} : up'[v] = up[v]
    BY <1>8, <1>9 DEF BackupsTypeOK
  <2>2. ReadersOK'
    BY <1>1, <1>11, <2>1 DEF Undisturbed, ReadersOK, Writing, Whole
  <2>3. BucketOK'
    BY <1>1, <1>6, <1>11 DEF Undisturbed, BucketOK, Whole
  <2> QED
    BY <1>1, <1>11, <2>2, <2>3 DEF Undisturbed, WritersOK, FileOK, Writing
<1> QED
  BY <1>7, <1>10, <1>11

\* Everything condemned lies above the key that goes, so that nothing comes closer
\* to the newest.
LEMMA S3DeleteStep ==
  ASSUME BackupsInv, S3Delete
  PROVE  BackupsInv'
<1> USE DEF BackupsInv
<1>1. UNCHANGED <<file, txn, up, restore, disturbed>>
  BY DEF S3Delete
<1>2. /\ bucket \in Seq(Backup) /\ Len(bucket) \in Nat
      /\ \A q \in 1 .. Len(bucket) : bucket[q] \in Backup
  BY LenProperties, ElementOfSeq DEF BackupsTypeOK
<1>3. work' \in Nat
  BY BackupWork1 DEF S3Delete, BackupsTypeOK
<1>4. PICK p \in Condemned :
        /\ \A q \in Condemned : p <= q
        /\ bucket' = RemoveAt(bucket, p) \/ bucket' = [bucket EXCEPT ![p].doomed = FALSE]
  BY DEF S3Delete
<1>5. p \in 1 .. Len(bucket) /\ bucket[p] \in Backup
  BY <1>2, <1>4 DEF Condemned
<1>6. /\ bucket' \in Seq(Backup) /\ PruneKeepsNewest' /\ (BucketOK => BucketOK')
  <2>1. CASE bucket' = RemoveAt(bucket, p)
    <3>1. /\ bucket' \in Seq(Backup) /\ Len(bucket') = Len(bucket) - 1
          /\ \A q \in 1 .. Len(bucket) - 1 :
               bucket'[q] = IF q < p THEN bucket[q] ELSE bucket[q + 1]
      BY <1>2, <1>5, <2>1, RemoveAtProperties
    <3>2. ASSUME NEW q \in 1 .. Len(bucket'), bucket'[q].doomed
          PROVE  Len(bucket') - q >= Retention
      <4>1. CASE q < p
        <5>1. bucket'[q] = bucket[q] /\ q \in 1 .. Len(bucket)
          BY <1>2, <3>1, <4>1
        <5>2. q \in Condemned
          BY <3>2, <5>1 DEF Condemned
        <5> QED
          BY <1>2, <1>4, <1>5, <4>1, <5>1, <5>2
      <4>2. CASE ~(q < p)
        <5>1. bucket'[q] = bucket[q + 1] /\ q + 1 \in 1 .. Len(bucket)
          BY <1>2, <3>1, <4>2
        <5>2. q + 1 \in Condemned
          BY <3>2, <5>1 DEF Condemned
        <5>3. Len(bucket) - (q + 1) >= Retention
          BY <5>2 DEF PruneKeepsNewest
        <5> QED
          BY <1>2, <3>1, <5>3, BackupsAssumption DEF BackupsAssumption
      <4> QED
        BY <4>1, <4>2
    <3>3. ASSUME BucketOK, NEW q \in 1 .. Len(bucket') PROVE Whole(bucket'[q].data)
      <4>1. \/ bucket'[q] = bucket[q] /\ q \in 1 .. Len(bucket)
            \/ bucket'[q] = bucket[q + 1] /\ q + 1 \in 1 .. Len(bucket)
        BY <1>2, <3>1
      <4> QED
        BY <3>3, <4>1 DEF BucketOK, Whole
    <3> QED
      BY <3>1, <3>2, <3>3 DEF PruneKeepsNewest, Condemned, BucketOK, Whole
  <2>2. CASE bucket' = [bucket EXCEPT ![p].doomed = FALSE]
    <3> DEFINE c == [bucket[p] EXCEPT !.doomed = FALSE]
    <3>1. c \in Backup /\ c.data = bucket[p].data /\ c.doomed = FALSE
      BY <1>5 DEF Backup
    <3>2. bucket' = [bucket EXCEPT ![p] = c]
      BY <1>2, <1>5, <2>2
    <3> HIDE DEF c
    <3>3. /\ bucket' \in Seq(Backup) /\ Len(bucket') = Len(bucket) /\ bucket'[p] = c
          /\ \A q \in 1 .. Len(bucket) : q # p => bucket'[q] = bucket[q]
      BY <1>2, <1>5, <3>1, <3>2
    <3>4. PruneKeepsNewest'
      BY <3>1, <3>3 DEF PruneKeepsNewest, Condemned
    <3>5. BucketOK => BucketOK'
      BY <1>5, <3>1, <3>3 DEF BucketOK, Whole
    <3> QED
      BY <3>3, <3>4, <3>5
  <2> QED
    BY <1>4, <2>1, <2>2
<1>7. BackupsTypeOK'
  BY <1>1, <1>3, <1>6 DEF BackupsTypeOK
<1>8. ~disturbed' => Undisturbed'
  BY <1>1, <1>6 DEF Undisturbed, ReadersOK, WritersOK, FileOK, Writing
<1> QED
  BY <1>6, <1>7, <1>8

\* What is downloaded is a backup, whole if all are.
LEMMA S3GetStep ==
  ASSUME BackupsInv, S3Get
  PROVE  BackupsInv'
<1> USE DEF BackupsInv
<1>1. UNCHANGED <<file, txn, up, bucket, disturbed>> /\ restore.phase = "idle"
  BY DEF S3Get
<1>2. work' \in Nat
  BY BackupWork1 DEF S3Get, BackupsTypeOK
<1>3. PICK p \in 1 .. Len(bucket) : restore' = [phase |-> "got", data |-> bucket[p].data]
  BY DEF S3Get
<1>4. bucket[p] \in Backup /\ bucket[p].data \in Halves
  <2>1. bucket[p] \in Backup
    BY ElementOfSeq DEF BackupsTypeOK
  <2> QED
    BY <2>1 DEF Backup
<1>5. BackupsTypeOK'
  BY <1>1, <1>2, <1>3, <1>4 DEF BackupsTypeOK
<1>6. ASSUME ~disturbed' PROVE Undisturbed'
  <2>1. Undisturbed /\ Whole(bucket[p].data)
    BY <1>1, <1>6 DEF Undisturbed, BucketOK
  <2>2. restore'.phase = "got" /\ restore'.data = bucket[p].data
    BY <1>3
  <2>3. Writing' = Writing
    BY <1>1, <2>2 DEF Writing
  <2>4. ReadersOK' /\ FileOK'
    BY <1>1, <2>1, <2>3 DEF Undisturbed, ReadersOK, FileOK, Whole
  <2>5. WritersOK'
    BY <1>1, <2>1, <2>2 DEF Undisturbed, WritersOK, Whole
  <2> QED
    BY <1>1, <2>1, <2>4, <2>5, SameBucket DEF Undisturbed
<1> QED
  BY <1>1, <1>5, <1>6, SameBucket

LEMMA WriteFirstStep ==
  ASSUME BackupsInv, WriteFirst
  PROVE  BackupsInv'
<1> USE DEF BackupsInv
<1>1. /\ UNCHANGED <<txn, up, bucket, work>> /\ restore.phase = "got"
      /\ file' = <<restore.data[1], 0>>
      /\ restore' = [restore EXCEPT !.phase = "half"]
      /\ disturbed' = (disturbed \/ Reading \/ Writing)
  BY DEF WriteFirst
<1>2. /\ restore'.phase = "half" /\ restore'.data = restore.data
      /\ restore' \in [phase : {"idle", "got", "half"}, data : Halves]
  BY <1>1 DEF BackupsTypeOK
<1>3. file' \in Halves
  BY <1>1 DEF BackupsTypeOK, Halves
<1>4. BackupsTypeOK'
  BY <1>1, <1>2, <1>3 DEF BackupsTypeOK, Reading, Writing
<1>5. ASSUME ~disturbed' PROVE Undisturbed'
  <2>1. Undisturbed /\ ~Reading /\ txn = <<>>
    BY <1>1, <1>5 DEF BackupsTypeOK, Writing
  <2>2. ReadersOK'
    BY <1>1, <2>1 DEF Undisturbed, ReadersOK, Reading, Whole
  <2>3. WritersOK'
    BY <1>1, <1>2, <2>1 DEF Undisturbed, WritersOK, Whole
  <2>4. FileOK'
    BY <1>2 DEF FileOK, Writing
  <2> QED
    BY <1>1, <2>1, <2>2, <2>3, <2>4, SameBucket DEF Undisturbed
<1> QED
  BY <1>1, <1>4, <1>5, SameBucket

LEMMA WriteSecondStep ==
  ASSUME BackupsInv, WriteSecond
  PROVE  BackupsInv'
<1> USE DEF BackupsInv
<1>1. /\ UNCHANGED <<txn, up, bucket>> /\ restore.phase = "half"
      /\ \/ file' = <<file[1], restore.data[2]>> /\ UNCHANGED <<disturbed, work>>
         \/ disturbed' = TRUE /\ Budget(BackupWork) /\ UNCHANGED file
      /\ restore' = NoRestore
  BY DEF WriteSecond
<1>2. work' \in Nat /\ disturbed' \in BOOLEAN
  BY <1>1, BackupWork1 DEF BackupsTypeOK
<1>3. file' \in Halves
  BY <1>1 DEF BackupsTypeOK, Halves
<1>4. restore' \in [phase : {"idle", "got", "half"}, data : Halves] /\ restore'.phase = "idle"
  BY <1>1 DEF NoRestore, Halves
<1>5. BackupsTypeOK'
  BY <1>1, <1>2, <1>3, <1>4 DEF BackupsTypeOK
<1>6. ASSUME ~disturbed' PROVE Undisturbed'
  <2>1. Undisturbed /\ file' = <<file[1], restore.data[2]>> /\ Writing
    BY <1>1, <1>6 DEF Writing
  <2>2. txn' = <<>> /\ ~Writing' /\ Whole(file')
    BY <1>1, <1>4, <2>1 DEF Undisturbed, WritersOK, Whole, Writing
  <2>3. ReadersOK'
    BY <1>1, <2>1, <2>2 DEF Undisturbed, ReadersOK, Whole
  <2>4. WritersOK' /\ FileOK'
    BY <1>4, <2>2 DEF WritersOK, FileOK
  <2> QED
    BY <1>1, <2>1, <2>3, <2>4, SameBucket DEF Undisturbed
<1> QED
  BY <1>1, <1>5, <1>6, SameBucket

LEMMA TxnFirstStep ==
  ASSUME BackupsInv, TxnFirst
  PROVE  BackupsInv'
<1> USE DEF BackupsInv
<1>1. /\ UNCHANGED <<up, restore, bucket>> /\ txn = <<>>
      /\ txn' = <<file[1], work + 2>> /\ file' = <<work + 2, file[2]>>
      /\ disturbed' = (disturbed \/ Reading \/ Writing)
  BY DEF TxnFirst
<1>2. work' \in Nat
  BY BackupWork1 DEF TxnFirst, BackupsTypeOK
<1>3. file' \in Halves /\ txn' \in Halves
  BY <1>1 DEF BackupsTypeOK, Halves
<1>4. BackupsTypeOK'
  BY <1>1, <1>2, <1>3 DEF BackupsTypeOK, Reading, Writing
<1>5. ASSUME ~disturbed' PROVE Undisturbed'
  <2>1. Undisturbed /\ ~Reading /\ ~Writing /\ file[1] = file[2]
    BY <1>1, <1>5 DEF BackupsTypeOK, Undisturbed, FileOK, Whole
  <2>2. ReadersOK'
    BY <1>1, <2>1 DEF Undisturbed, ReadersOK, Reading, Whole
  <2>3. txn' # <<>>
    BY <1>1
  <2>4. file' = <<txn'[2], txn'[1]>>
    BY <1>1, <2>1
  <2>5. WritersOK' /\ FileOK'
    BY <1>1, <2>1, <2>3, <2>4 DEF Undisturbed, WritersOK, FileOK, Whole, Writing
  <2> QED
    BY <1>1, <2>1, <2>2, <2>5, SameBucket DEF Undisturbed
<1> QED
  BY <1>1, <1>4, <1>5, SameBucket

LEMMA TxnSecondStep ==
  ASSUME BackupsInv, TxnSecond
  PROVE  BackupsInv'
<1> USE DEF BackupsInv
<1>1. /\ UNCHANGED <<up, restore, bucket, disturbed, work>> /\ txn # <<>>
      /\ txn' = <<>> /\ file' = <<file[1], txn[2]>>
  BY DEF TxnSecond
<1>2. file' \in Halves
  BY <1>1 DEF BackupsTypeOK, Halves
<1>3. BackupsTypeOK'
  BY <1>1, <1>2 DEF BackupsTypeOK
<1>4. ASSUME ~disturbed' PROVE Undisturbed'
  <2>1. Undisturbed /\ Writing /\ file = <<txn[2], txn[1]>> /\ restore.phase # "half"
    BY <1>1, <1>4 DEF Undisturbed, WritersOK, Writing
  <2>2. Whole(file')
    BY <1>1, <2>1 DEF Whole
  <2>3. ReadersOK'
    BY <1>1, <2>1 DEF Undisturbed, ReadersOK, Whole
  <2>4. WritersOK' /\ FileOK'
    BY <1>1, <2>1, <2>2 DEF Undisturbed, WritersOK, FileOK, Whole
  <2> QED
    BY <1>1, <2>1, <2>3, <2>4, SameBucket DEF Undisturbed
<1> QED
  BY <1>1, <1>3, <1>4, SameBucket

\* SQLite's journal makes the file whole again, unless a restore had cut it.
LEMMA BackupCrashStep ==
  ASSUME BackupsInv, BackupCrash
  PROVE  BackupsInv'
<1> USE DEF BackupsInv
<1>1. /\ file' = IF txn = <<>> THEN file ELSE <<txn[1], file[2]>>
      /\ txn' = <<>> /\ restore' = NoRestore
      /\ up' = [u \in Uploader |-> NoUpload]
      /\ bucket' = [p \in 1 .. Len(bucket) |-> [bucket[p] EXCEPT !.doomed = FALSE]]
      /\ disturbed' = (disturbed \/ restore.phase = "half")
  BY DEF BackupCrash
<1>2. work' \in Nat
  BY BackupWork1 DEF BackupCrash, BackupsTypeOK
<1>3. /\ bucket' \in Seq(Backup) /\ Len(bucket') = Len(bucket)
      /\ \A p \in 1 .. Len(bucket) :
           bucket'[p].data = bucket[p].data /\ bucket'[p].doomed = FALSE
  <2>1. \A p \in 1 .. Len(bucket) : (p \in {}) = FALSE
    OBVIOUS
  <2>2. bucket' = [p \in 1 .. Len(bucket) |-> [bucket[p] EXCEPT !.doomed = p \in {}]]
    BY <1>1, <2>1
  <2>3. bucket \in Seq(Backup) /\ {} \in SUBSET Nat
    BY DEF BackupsTypeOK
  <2>4. /\ bucket' \in Seq(Backup) /\ Len(bucket') = Len(bucket)
        /\ \A p \in 1 .. Len(bucket) :
             bucket'[p].data = bucket[p].data /\ bucket'[p].doomed = (p \in {})
    BY <2>2, <2>3, MarksKeepTypes
  <2> QED
    BY <2>1, <2>4, Zenon
<1>4. PruneKeepsNewest'
  BY <1>3 DEF PruneKeepsNewest, Condemned
<1>5. NoUpload \in Upload /\ NoUpload.phase = "idle"
  BY DEF NoUpload, Upload, Halves
<1>6. restore' \in [phase : {"idle", "got", "half"}, data : Halves] /\ restore'.phase = "idle"
  BY <1>1 DEF NoRestore, Halves
<1>7. file' \in Halves
  BY <1>1 DEF BackupsTypeOK, Halves
<1>8. BackupsTypeOK'
  BY <1>1, <1>2, <1>3, <1>5, <1>6, <1>7 DEF BackupsTypeOK
<1>9. ASSUME ~disturbed' PROVE Undisturbed'
  <2>1. Undisturbed /\ restore.phase # "half"
    BY <1>1, <1>9 DEF BackupsTypeOK
  <2>2. Whole(file')
    <3>1. CASE txn = <<>>
      BY <1>1, <2>1, <3>1 DEF Undisturbed, FileOK, Writing, Whole
    <3>2. CASE txn # <<>>
      BY <1>1, <2>1, <3>2 DEF Undisturbed, WritersOK, Whole
    <3> QED
      BY <3>1, <3>2
  <2>3. ReadersOK'
    BY <1>1, <1>5 DEF ReadersOK
  <2>4. WritersOK' /\ FileOK'
    BY <1>1, <1>6, <2>2 DEF WritersOK, FileOK
  <2>5. BucketOK'
    BY <1>3, <2>1 DEF Undisturbed, BucketOK, Whole
  <2> QED
    BY <2>3, <2>4, <2>5 DEF Undisturbed
<1> QED
  BY <1>4, <1>8, <1>9

LEMMA BackupsStep == BackupsInv /\ [BackupsNext]_backupVars => BackupsInv'
<1> SUFFICES ASSUME BackupsInv, [BackupsNext]_backupVars PROVE BackupsInv'
  OBVIOUS
<1>1. ASSUME NEW u \in Uploader, ReadFirst(u) PROVE BackupsInv'
  BY <1>1, ReadFirstStep
<1>2. ASSUME NEW u \in Uploader, ReadSecond(u) PROVE BackupsInv'
  BY <1>2, ReadSecondStep
<1>3. ASSUME NEW u \in Uploader, S3Put(u) PROVE BackupsInv'
  BY <1>3, S3PutStep
<1>4. ASSUME NEW u \in Uploader, S3PutFails(u) PROVE BackupsInv'
  <2>1. work' \in Nat
    BY <1>4, BackupWork1 DEF S3PutFails, BackupsInv
  <2> QED
    BY <1>4, <2>1, UploadEnds DEF S3PutFails
<1>5. CASE PruneEnds
  <2>1. Scheduler \in Uploader /\ work' \in Nat
    BY <1>5 DEF Uploader, PruneEnds, BackupsInv, BackupsTypeOK
  <2> QED
    BY <1>5, <2>1, UploadEnds DEF PruneEnds
<1>6. CASE ListForPrune \/ S3Delete
  BY <1>6, ListForPruneStep, S3DeleteStep
<1>7. CASE S3Get \/ WriteFirst \/ WriteSecond
  BY <1>7, S3GetStep, WriteFirstStep, WriteSecondStep
<1>8. CASE TxnFirst \/ TxnSecond \/ BackupCrash
  BY <1>8, TxnFirstStep, TxnSecondStep, BackupCrashStep
<1>9. CASE UNCHANGED backupVars
  BY <1>9, SameBucket DEF backupVars, BackupsInv, BackupsTypeOK, Undisturbed, ReadersOK, WritersOK,
     FileOK, Writing
<1> QED
  BY <1>1, <1>2, <1>3, <1>4, <1>5, <1>6, <1>7, <1>8, <1>9 DEF BackupsNext

LEMMA BackupsAlways == BackupsSpec => []BackupsInv
BY BackupsInitInv, BackupsStep, PTL DEF BackupsSpec

\* The variables of the backups keep their types.
THEOREM BackupsTypeCorrect == BackupsSpec => []BackupsTypeOK
<1>1. BackupsInv => BackupsTypeOK
  BY DEF BackupsInv
<1> QED
  BY <1>1, BackupsAlways, PTL

\* Pruning never condemns one of the newest backups, for any retention and any page
\* of the list, however uploads with older and newer keys, failed deletions and
\* crashes fall in between.
THEOREM NewestKept == BackupsSpec => []PruneKeepsNewest
<1>1. BackupsInv => PruneKeepsNewest
  BY DEF BackupsInv
<1> QED
  BY <1>1, BackupsAlways, PTL

\* Backups and the file are whole as long as no copy, restore or transaction
\* overlapped another.
THEOREM WholeWithoutOverlap == BackupsSpec => []WholeUnlessOverlapped
<1>1. BackupsInv => WholeUnlessOverlapped
  BY DEF BackupsInv, Undisturbed, BucketOK, FileOK, WholeUnlessOverlapped
<1> QED
  BY <1>1, BackupsAlways, PTL

-----------------------------------------------------------------------------
\* Storage: one of the two runs, and what the other counts as work keeps its type.

StorageInv == AccountsInv /\ BackupsInv

LEMMA AccountsAtRest ==
  ASSUME AccountsInv, UNCHANGED accountState, work' \in Nat
  PROVE  AccountsInv'
BY DEF accountState, AccountsInv, AccountsTypeOK, HadRows, HadLogins, TokensWereTrue

LEMMA BackupsAtRest ==
  ASSUME BackupsInv, UNCHANGED backupState, work' \in Nat
  PROVE  BackupsInv'
BY SameBucket DEF backupState, BackupsInv, BackupsTypeOK, Undisturbed, ReadersOK, WritersOK,
   FileOK, Writing

LEMMA StorageInvInit == StorageInit => StorageInv
BY AccountsInitInv, BackupsInitInv DEF StorageInit, StorageInv

LEMMA StorageInvStep == StorageInv /\ [StorageNext]_storageVars => StorageInv'
<1> SUFFICES ASSUME StorageInv, [StorageNext]_storageVars PROVE StorageInv'
  OBVIOUS
<1>1. CASE AccountsRun
  <2>1. AccountsInv' /\ UNCHANGED backupState
    BY <1>1, AccountsInvStep DEF AccountsRun, StorageInv
  <2>2. work' \in Nat
    BY <2>1 DEF AccountsInv, AccountsTypeOK
  <2> QED
    BY <2>1, <2>2, BackupsAtRest DEF StorageInv
<1>2. CASE BackupsRun
  <2>1. BackupsInv' /\ UNCHANGED accountState
    BY <1>2, BackupsStep DEF BackupsRun, StorageInv
  <2>2. work' \in Nat
    BY <2>1 DEF BackupsInv, BackupsTypeOK
  <2> QED
    BY <2>1, <2>2, AccountsAtRest DEF StorageInv
<1>3. CASE UNCHANGED storageVars
  <2>1. UNCHANGED accountState /\ UNCHANGED backupState /\ work' \in Nat
    BY <1>3 DEF storageVars, StorageInv, AccountsInv, AccountsTypeOK
  <2> QED
    BY <2>1, AccountsAtRest, BackupsAtRest DEF StorageInv
<1> QED
  BY <1>1, <1>2, <1>3 DEF StorageNext

LEMMA StorageInvAlways == StorageSpec => []StorageInv
BY StorageInvInit, StorageInvStep, PTL DEF StorageSpec

\* The invariants of the two hold whichever runs: types, roles of tokens, the
\* newest backups, and whole backups and files.
THEOREM StorageInvariants ==
  StorageSpec => [](StorageTypeOK /\ TokensWereTrue /\ PruneKeepsNewest /\ WholeUnlessOverlapped)
<1>1. StorageInv => StorageTypeOK /\ TokensWereTrue /\ PruneKeepsNewest /\ WholeUnlessOverlapped
  BY DEF StorageInv, StorageTypeOK, AccountsInv, BackupsInv, Undisturbed, BucketOK, FileOK,
     WholeUnlessOverlapped
<1> QED
  BY <1>1, StorageInvAlways, PTL
=============================================================================
