---------------------------- MODULE SessionsProofs ----------------------------
(***************************************************************************)
(* Sign-up, sign-in and logout for any number of users and requests.       *)
(*                                                                         *)
(* Types, unique emails and the newest token need no discipline of the     *)
(* clients.  That the session matches its user, and that older tokens are  *)
(* refused, hold where the requests of an account are taken one at a time: *)
(* then nobody else works on the account between the read of the user, or  *)
(* of the old version, and the write of the session (Alone), so that what  *)
(* was read is still true at the write (ReadFresh, VersionFresh).          *)
(***************************************************************************)
EXTENDS Sessions, TLAPS

(* The request works on an account that exists. *)
Working(r) == pc[r] \in {"profile", "find", "get", "set", "delete"}

RequestShape(r) ==
    /\ pc[r] = "new" => input[r] = None
    /\ pc[r] \in {"new", "create"} => ~Exists(r)
    /\ pc[r] = "create" => input[r] # None /\ me[r] = r
    /\ Working(r) => /\ me[r] \in Requests /\ Exists(me[r])
                     /\ input[r] # None => me[r] = r /\ users[r] = input[r]
    /\ pc[r] \in {"profile", "find"} => me[r] = r
    /\ pc[r] \in {"get", "set"} => read[r] # None
    /\ token[r] # None => pc[r] = "done" /\ Exists(token[r].user)

RequestShapes == \A r \in Requests : RequestShape(r)

OfUsers == \A u \in Requests : session[u] # None \/ u \in profiles => Exists(u)

NewestHolds ==
    \A u \in Requests : newest[u] # None =>
        /\ token[newest[u]] # None /\ token[newest[u]].user = u
        /\ LongSessions /\ token[newest[u]].valid =>
               session[u] # None /\ session[u].version = token[newest[u]].version

Base == TypeOK /\ RequestShapes /\ OfUsers /\ OneUserPerEmail /\ NewestHolds

Alone == \A q, r \in Requests : Working(q) /\ Working(r) /\ me[q] = me[r] => q = r

ReadFresh == \A r \in Requests : pc[r] \in {"get", "set"} => read[r] = SessionUser(me[r])

NoSessionYet == \A r \in Requests : pc[r] = "profile" => session[r] = None

SerialInv == Alone /\ ReadFresh /\ NoSessionYet /\ SessionMatchesUser

(* A token of u that the guard may have to refuse by its version. *)
Current(t, u) == t \notin past /\ token[t] # None /\ token[t].user = u /\ token[t].valid

VersionFresh ==
    \A r, t \in Requests : pc[r] = "set" /\ Current(t, me[r]) => token[t].version < version[r]

VersionsBelow ==
    \A t, u \in Requests : Current(t, u) =>
        /\ session[u] # None
        /\ token[t].version <= session[u].version
        /\ token[t].version = session[u].version => newest[u] = t

VersionInv == VersionFresh /\ VersionsBelow

-----------------------------------------------------------------------------
(* Types *)

LEMMA Typed ==
  ASSUME TypeOK, NEW r \in Requests
  PROVE  /\ Exists(r) => users[r] \in Users
         /\ session[r] # None => session[r] \in AuthSessions
         /\ token[r] # None => token[r] \in Tokens
         /\ me[r] # None => me[r] \in Requests
         /\ input[r] # None => input[r] \in Users
         /\ read[r] # None => read[r] \in SessionUsers
         /\ newest[r] # None => newest[r] \in Requests
         /\ version[r] \in Nat
  BY DEF TypeOK, Exists

LEMMA SessionUserType ==
  ASSUME TypeOK, NEW u \in Requests, Exists(u)
  PROVE  SessionUser(u) \in SessionUsers
  BY Typed DEF SessionUser, SessionUsers, Users

LEMMA InitBase == Init => Base
<1> SUFFICES ASSUME Init PROVE Base
  OBVIOUS
<1>1. TypeOK
  BY DEF Init, TypeOK
<1> QED BY <1>1 DEF Init, Base, RequestShapes, RequestShape, OfUsers, OneUserPerEmail,
           NewestHolds, Exists, Working

LEMMA FindByEmailType ==
  ASSUME TypeOK, NEW r \in Requests, NEW e \in Emails, NEW role \in Roles, FindByEmail(r, e, role)
  PROVE  TypeOK'
<1>1. [email |-> e, role |-> role] \in Users
  BY DEF Users
<1>2. input' \in [Requests -> Users \cup {None}] /\ me' \in [Requests -> Requests \cup {None}]
  BY <1>1 DEF TypeOK, FindByEmail
<1> QED BY <1>2 DEF TypeOK, FindByEmail, Goto, history

LEMMA CreateUserType ==
  ASSUME Base, NEW r \in Requests, CreateUser(r)
  PROVE  TypeOK'
<1>1. input[r] \in Users /\ [role |-> input[r].role, business |-> FALSE] \in SessionUsers
  BY Typed DEF Base, RequestShapes, RequestShape, CreateUser, Users, SessionUsers
<1>2. users' \in [Requests -> Users \cup {None}] /\ read' \in [Requests -> SessionUsers \cup {None}]
  BY <1>1 DEF Base, TypeOK, CreateUser
<1> QED BY <1>2 DEF Base, TypeOK, CreateUser, Goto, history

LEMMA CreateProfileType ==
  ASSUME TypeOK, NEW r \in Requests, CreateProfile(r)
  PROVE  TypeOK'
  BY DEF TypeOK, CreateProfile, Goto, history

LEMMA FindCreatedType ==
  ASSUME Base, NEW r \in Requests, FindCreated(r)
  PROVE  TypeOK'
<1>1. SessionUser(r) \in SessionUsers
  BY SessionUserType DEF Base, RequestShapes, RequestShape, Working, FindCreated
<1> QED BY <1>1 DEF Base, TypeOK, FindCreated, Goto, history

LEMMA SignInType ==
  ASSUME Base, NEW r \in Requests, NEW u \in Requests, SignIn(r, u)
  PROVE  TypeOK'
<1>1. SessionUser(u) \in SessionUsers
  BY SessionUserType DEF Base, SignIn
<1> QED BY <1>1 DEF Base, TypeOK, SignIn, Goto, history

LEMMA GetSessionType ==
  ASSUME Base, NEW r \in Requests, GetSession(r)
  PROVE  TypeOK' /\ NewSessionVersion(me[r]) \in Nat
<1>1. me[r] \in Requests
  BY DEF Base, RequestShapes, RequestShape, Working, GetSession
<1>2. NewSessionVersion(me[r]) \in Nat
  BY <1>1, Typed DEF Base, NewSessionVersion, AuthSessions
<1> QED BY <1>2 DEF Base, TypeOK, GetSession, Goto, history

LEMMA SetSessionType ==
  ASSUME Base, NEW r \in Requests, SetSession(r)
  PROVE  TypeOK'
<1> DEFINE tok == [user |-> me[r], version |-> version[r], valid |-> TRUE]
<1>1. me[r] \in Requests /\ read[r] \in SessionUsers
  BY Typed DEF Base, RequestShapes, RequestShape, Working, SetSession
<1>2. NewSession(r) \in AuthSessions /\ tok \in Tokens
  BY <1>1, Typed DEF Base, NewSession, AuthSessions, Tokens
<1>3. /\ session' \in [Requests -> AuthSessions \cup {None}]
      /\ token' \in [Requests -> Tokens \cup {None}]
      /\ newest' \in [Requests -> Requests \cup {None}]
  <2>1. \/ UNCHANGED <<session, token, newest>>
        \/ /\ session' = [session EXCEPT ![me[r]] = NewSession(r)]
           /\ token' = [token EXCEPT ![r] = tok]
           /\ newest' = [newest EXCEPT ![me[r]] = r]
    BY DEF SetSession
  <2> HIDE DEF tok
  <2> QED BY <1>1, <1>2, <2>1 DEF Base, TypeOK
<1> QED BY <1>3 DEF Base, TypeOK, SetSession, Goto

LEMMA LogoutGuardType ==
  ASSUME TypeOK, NEW r \in Requests, NEW t \in Requests, LogoutGuard(r, t)
  PROVE  TypeOK' /\ token[t].user \in Requests
<1>1. token[t].user \in Requests
  BY Typed DEF LogoutGuard, Accepts, Tokens
<1> QED BY <1>1 DEF TypeOK, LogoutGuard, Goto, history

LEMMA LogoutType ==
  ASSUME TypeOK, NEW r \in Requests, Logout(r)
  PROVE  TypeOK'
<1>1. past' \subseteq Requests
  BY DEF TypeOK, Logout
<1> QED BY <1>1 DEF TypeOK, Logout, Goto

LEMMA TokenExpiresType ==
  ASSUME TypeOK, NEW r \in Requests, TokenExpires(r)
  PROVE  TypeOK'
<1>1. [token[r] EXCEPT !.valid = FALSE] \in Tokens
  BY Typed DEF TokenExpires, Tokens
<1>2. token' \in [Requests -> Tokens \cup {None}]
  BY <1>1 DEF TypeOK, TokenExpires
<1> QED BY <1>2 DEF TypeOK, TokenExpires, history

LEMMA SessionExpiresType ==
  ASSUME TypeOK, NEW u \in Requests, SessionExpires(u)
  PROVE  TypeOK'
  BY DEF TypeOK, SessionExpires, history

-----------------------------------------------------------------------------
(* What a step of r is to the other requests: they stay where they are.    *)
OthersStay(r) ==
    \A q \in Requests \ {r} :
        /\ pc'[q] = pc[q] /\ me'[q] = me[q] /\ input'[q] = input[q]
        /\ read'[q] = read[q] /\ version'[q] = version[q] /\ token'[q] = token[q]

(* Users are only added. *)
UsersKept == \A u \in Requests : Exists(u) => users'[u] = users[u]

LEMMA ShapesOfOthers ==
  ASSUME Base, NEW r \in Requests, OthersStay(r), UsersKept,
         \A u \in Requests \ {r} : users'[u] = users[u]
  PROVE  \A q \in Requests \ {r} : RequestShape(q)'
<1> SUFFICES ASSUME NEW q \in Requests \ {r} PROVE RequestShape(q)'
  OBVIOUS
<1>1. RequestShape(q)
  BY DEF Base, RequestShapes
<1>2. token[q] # None => token[q].user \in Requests
  BY Typed DEF Base, Tokens
<1>3. Working(q)' <=> Working(q)
  BY DEF OthersStay, Working
<1> QED BY <1>1, <1>2, <1>3 DEF RequestShape, OthersStay, UsersKept, Exists

(* Steps of a request that change neither users, profiles, sessions nor    *)
(* tokens.                                                                 *)
LEMMA QuietBase ==
  ASSUME Base, TypeOK', NEW r \in Requests, OthersStay(r), RequestShape(r)',
         UNCHANGED <<users, profiles, session, token, newest>>
  PROVE  Base'
<1>1. RequestShapes'
  BY ShapesOfOthers DEF UsersKept, RequestShapes
<1>2. NewestHolds' /\ OfUsers' /\ OneUserPerEmail'
  BY DEF Base, NewestHolds, OfUsers, OneUserPerEmail, Exists
<1> QED BY <1>1, <1>2 DEF Base

LEMMA QuietSerial ==
  ASSUME Base, SerialInv, NEW r \in Requests, OthersStay(r),
         UNCHANGED <<users, session, profiles>>,
         Working(r)' => \A q \in Requests \ {r} : Working(q) => me[q] # me'[r],
         pc'[r] \in {"get", "set"} => read'[r] = SessionUser(me'[r]),
         pc'[r] = "profile" => session[r] = None
  PROVE  SerialInv'
<1>1. Alone'
  BY DEF SerialInv, Alone, OthersStay, Working
<1>2. ReadFresh'
  BY DEF SerialInv, ReadFresh, OthersStay, SessionUser
<1>3. NoSessionYet' /\ SessionMatchesUser'
  BY DEF SerialInv, NoSessionYet, SessionMatchesUser, OthersStay, SessionUser
<1> QED BY <1>1, <1>2, <1>3 DEF SerialInv

LEMMA QuietVersion ==
  ASSUME Base, VersionInv, NEW r \in Requests, OthersStay(r),
         UNCHANGED <<session, token, newest, past>>,
         pc'[r] = "set" =>
             \A t \in Requests : Current(t, me'[r]) => token[t].version < version'[r]
  PROVE  VersionInv'
<1>1. VersionFresh'
  BY DEF VersionInv, VersionFresh, OthersStay, Current
<1>2. VersionsBelow'
  BY DEF VersionInv, VersionsBelow, Current
<1> QED BY <1>1, <1>2 DEF VersionInv

-----------------------------------------------------------------------------
LEMMA FindByEmailStep ==
  ASSUME Base, NEW r \in Requests, NEW e \in Emails, NEW role \in Roles, FindByEmail(r, e, role)
  PROVE  /\ Base'
         /\ SerialInv => SerialInv'
         /\ VersionInv => VersionInv'
<1>1. /\ pc[r] = "new" /\ pc'[r] \in {"refused", "create"} /\ me'[r] = r
      /\ input'[r] = [email |-> e, role |-> role] /\ OthersStay(r)
      /\ UNCHANGED <<users, profiles, session, token, newest, past>>
  BY DEF Base, TypeOK, FindByEmail, Goto, history, OthersStay
<1>2. TypeOK'
  BY FindByEmailType DEF Base
<1>3. input'[r] # None
  BY <1>1, NoneAssumption DEF Users
<1>4. RequestShape(r)'
  BY <1>1, <1>3 DEF Base, RequestShapes, RequestShape, Working, Exists
<1> QED BY <1>1, <1>2, <1>4, QuietBase, QuietSerial, QuietVersion DEF Working

LEMMA CreateUserStep ==
  ASSUME Base, NEW r \in Requests, CreateUser(r)
  PROVE  /\ Base'
         /\ SerialInv => SerialInv'
         /\ VersionInv => VersionInv'
<1>1. /\ pc[r] = "create" /\ ~Exists(r) /\ input[r] \in Users /\ me[r] = r
      /\ token[r] = None /\ session[r] = None
  BY Typed DEF Base, RequestShapes, RequestShape, OfUsers, CreateUser
<1>2. TypeOK'
  BY CreateUserType
<1>3. CASE DuplicateEmail(input[r].email)
  <2>1. /\ pc'[r] = "failed" /\ OthersStay(r) /\ token'[r] = None
        /\ UNCHANGED <<users, profiles, session, token, newest, past>>
    BY <1>1, <1>3 DEF Base, TypeOK, CreateUser, Goto, history, OthersStay
  <2>2. RequestShape(r)'
    BY <2>1 DEF RequestShape, Working
  <2> QED BY <1>2, <2>1, <2>2, QuietBase, QuietSerial, QuietVersion DEF Working
<1>4. CASE ~DuplicateEmail(input[r].email)
  <2>1. /\ OthersStay(r) /\ me'[r] = r /\ input'[r] = input[r] /\ token'[r] = None
        /\ UNCHANGED <<profiles, session, token, newest, past>>
        /\ users'[r] = input[r] /\ \A u \in Requests \ {r} : users'[u] = users[u]
        /\ \/ input[r].role = "business" /\ pc'[r] = "profile"
           \/ /\ input[r].role # "business" /\ pc'[r] = "get"
              /\ read'[r] = [role |-> input[r].role, business |-> FALSE]
    BY <1>1, <1>4 DEF Base, TypeOK, CreateUser, Goto, history, OthersStay
  <2>2. input[r] # None /\ Exists(r)' /\ UsersKept
    BY <1>1, <2>1, NoneAssumption DEF Exists, UsersKept
  <2>3. pc'[r] = "get" => read'[r] # None
    <3>1. [role |-> input[r].role, business |-> FALSE] \in SessionUsers
      BY <1>1 DEF Users, SessionUsers
    <3> QED BY <2>1, <3>1, NoneAssumption
  <2>4. RequestShape(r)'
    BY <1>1, <2>1, <2>2, <2>3 DEF RequestShape, Working, Exists
  <2>5. RequestShapes'
    BY <2>1, <2>2, <2>4, ShapesOfOthers DEF RequestShapes
  <2>6. OneUserPerEmail'
    <3>1. \A u \in Requests : Exists(u) => users[u].email # input[r].email
      BY <1>4 DEF DuplicateEmail, Registered
    <3> QED BY <1>1, <2>1, <3>1 DEF Base, OneUserPerEmail, Exists
  <2>7. NewestHolds' /\ OfUsers'
    BY <2>1, <2>2 DEF Base, NewestHolds, OfUsers, Exists, UsersKept
  <2>8. Base'
    BY <1>2, <2>5, <2>6, <2>7 DEF Base
  <2>9. \A q \in Requests \ {r} : Working(q) => me[q] # r /\ me[q] \in Requests
    BY <1>1 DEF Base, RequestShapes, RequestShape
  <2>10. ASSUME SerialInv PROVE SerialInv'
    <3>1. \A u \in Requests : Exists(u) => SessionUser(u)' = SessionUser(u)
      BY <2>1, <2>2 DEF SessionUser, UsersKept
    <3>2. Alone'
      BY <2>1, <2>9, <2>10 DEF SerialInv, Alone, OthersStay, Working
    <3>3. ReadFresh'
      <4>1. (r \in profiles') = FALSE
        BY <1>1, <2>1 DEF Base, OfUsers
      <4>2. pc'[r] \in {"get", "set"} => read'[r] = SessionUser(me[r])'
        BY <2>1, <4>1 DEF SessionUser
      <4>3. ASSUME NEW q \in Requests \ {r}, pc'[q] \in {"get", "set"}
            PROVE  read'[q] = SessionUser(me[q])'
        <5>1. me[q] \in Requests /\ Exists(me[q]) /\ me'[q] = me[q] /\ read'[q] = SessionUser(me[q])
          BY <2>1, <2>10, <4>3
             DEF SerialInv, ReadFresh, OthersStay, Base, RequestShapes, RequestShape, Working
        <5> QED BY <2>1, <2>2, <5>1 DEF SessionUser, UsersKept
      <4> QED BY <4>2, <4>3 DEF ReadFresh
    <3>4. NoSessionYet'
      BY <1>1, <2>1, <2>10 DEF SerialInv, NoSessionYet, OthersStay
    <3>5. SessionMatchesUser'
      BY <2>1, <2>10, <3>1 DEF SerialInv, SessionMatchesUser, Base, OfUsers
    <3> QED BY <3>2, <3>3, <3>4, <3>5 DEF SerialInv
  <2>11. VersionInv => VersionInv'
    BY <2>1 DEF VersionInv, VersionFresh, VersionsBelow, Current, OthersStay
  <2> QED BY <2>8, <2>10, <2>11
<1> QED BY <1>3, <1>4

(* A working request is alone with its account. *)
LEMMA NobodyElse ==
  ASSUME SerialInv, NEW r \in Requests, Working(r)
  PROVE  \A q \in Requests \ {r} : Working(q) => me[q] # me[r]
  BY DEF SerialInv, Alone

LEMMA CreateProfileStep ==
  ASSUME Base, NEW r \in Requests, CreateProfile(r)
  PROVE  /\ Base'
         /\ SerialInv => SerialInv'
         /\ VersionInv => VersionInv'
<1>1. /\ pc[r] = "profile" /\ me[r] = r /\ Exists(r) /\ token[r] = None
      /\ input[r] # None => users[r] = input[r]
      /\ OthersStay(r) /\ pc'[r] \in {"find", "failed"}
      /\ UNCHANGED <<users, session, token, me, input, newest, past>>
      /\ \A u \in Requests \ {r} : u \in profiles' <=> u \in profiles
  BY DEF Base, TypeOK, RequestShapes, RequestShape, Working, CreateProfile, Goto, history, OthersStay
<1>2. TypeOK'
  BY CreateProfileType DEF Base
<1>3. RequestShape(r)'
  BY <1>1 DEF RequestShape, Working, Exists
<1>4. RequestShapes'
  BY <1>1, <1>3, ShapesOfOthers DEF UsersKept, RequestShapes
<1>5. NewestHolds' /\ OfUsers' /\ OneUserPerEmail'
  BY <1>1 DEF Base, NewestHolds, OfUsers, OneUserPerEmail, Exists
<1>6. ASSUME SerialInv PROVE SerialInv'
  <2>1. \A q \in Requests \ {r} : Working(q) => me[q] # r
    BY <1>1, <1>6, NobodyElse DEF Working
  <2>2. \A u \in Requests \ {r} : SessionUser(u)' = SessionUser(u)
    <3> SUFFICES ASSUME NEW u \in Requests \ {r} PROVE SessionUser(u)' = SessionUser(u)
      OBVIOUS
    <3>1. (u \in profiles') = (u \in profiles)
      BY <1>1
    <3> QED BY <1>1, <3>1 DEF SessionUser
  <2>3. Alone'
    BY <1>1, <1>6, <2>1 DEF SerialInv, Alone, OthersStay, Working
  <2>4. ReadFresh'
    <3> SUFFICES ASSUME NEW q \in Requests, pc'[q] \in {"get", "set"}
                 PROVE  read'[q] = SessionUser(me[q])'
      BY DEF ReadFresh
    <3>1. q # r /\ me'[q] = me[q] /\ Working(q) /\ read'[q] = SessionUser(me[q])
      BY <1>1, <1>6 DEF SerialInv, ReadFresh, OthersStay, Working
    <3>2. me[q] \in Requests \ {r}
      BY <2>1, <3>1 DEF Base, RequestShapes, RequestShape
    <3>3. (me[q] \in profiles') = (me[q] \in profiles)
      BY <1>1, <3>2
    <3> QED BY <1>1, <3>1, <3>3 DEF SessionUser
  <2>5. NoSessionYet'
    BY <1>1, <1>6 DEF SerialInv, NoSessionYet, OthersStay
  <2>6. SessionMatchesUser'
    BY <1>1, <1>6, <2>2 DEF SerialInv, SessionMatchesUser, NoSessionYet
  <2> QED BY <2>3, <2>4, <2>5, <2>6 DEF SerialInv
<1>7. VersionInv => VersionInv'
  BY <1>1, QuietVersion
<1> QED BY <1>2, <1>4, <1>5, <1>6, <1>7 DEF Base

LEMMA FindCreatedStep ==
  ASSUME Base, NEW r \in Requests, FindCreated(r)
  PROVE  /\ Base'
         /\ SerialInv => SerialInv'
         /\ VersionInv => VersionInv'
<1>1. /\ pc[r] = "find" /\ me[r] = r /\ Exists(r) /\ token[r] = None
      /\ input[r] # None => users[r] = input[r]
      /\ OthersStay(r) /\ pc'[r] = "get" /\ read'[r] = SessionUser(r)
      /\ UNCHANGED <<users, profiles, session, token, me, input, newest, past>>
  BY DEF Base, TypeOK, RequestShapes, RequestShape, Working, FindCreated, Goto, history, OthersStay
<1>2. TypeOK'
  BY FindCreatedType
<1>3. read'[r] # None
  BY <1>1, SessionUserType, NoneAssumption DEF Base
<1>4. RequestShape(r)'
  BY <1>1, <1>3 DEF RequestShape, Working, Exists
<1>5. Base'
  BY <1>1, <1>2, <1>4, QuietBase
<1>6. Working(r) /\ pc'[r] = "get"
  BY <1>1 DEF Working
<1> QED BY <1>1, <1>5, <1>6, QuietSerial, QuietVersion, NobodyElse

LEMMA SignInStep ==
  ASSUME Base, NEW r \in Requests, NEW u \in Requests, SignIn(r, u)
  PROVE  /\ Base'
         /\ Serial /\ SerialInv => SerialInv'
         /\ VersionInv => VersionInv'
<1>1. /\ pc[r] = "new" /\ input[r] = None /\ token[r] = None /\ Exists(u) /\ Undisturbed(u)
      /\ OthersStay(r) /\ pc'[r] = "get" /\ me'[r] = u /\ read'[r] = SessionUser(u)
      /\ UNCHANGED <<users, profiles, session, token, input, newest, past>>
  BY DEF Base, TypeOK, RequestShapes, RequestShape, SignIn, Goto, history, OthersStay
<1>2. TypeOK'
  BY SignInType
<1>3. read'[r] # None
  BY <1>1, SessionUserType, NoneAssumption DEF Base
<1>4. RequestShape(r)'
  BY <1>1, <1>3 DEF RequestShape, Working, Exists
<1>5. Base'
  BY <1>1, <1>2, <1>4, QuietBase
<1>6. Serial => \A q \in Requests \ {r} : Working(q) => me[q] # u
  <2> SUFFICES ASSUME Serial, NEW q \in Requests \ {r}, Working(q), me[q] = u PROVE FALSE
    OBVIOUS
  <2>1. Active(q)
    BY DEF Working, Active
  <2>2. EmailOf(q) = users[u].email
    BY DEF Base, RequestShapes, RequestShape, EmailOf
  <2> QED BY <1>1, <2>1, <2>2 DEF Undisturbed
<1> QED BY <1>1, <1>5, <1>6, QuietSerial, QuietVersion

LEMMA GetSessionStep ==
  ASSUME Base, NEW r \in Requests, GetSession(r)
  PROVE  /\ Base'
         /\ SerialInv => SerialInv'
         /\ VersionInv => VersionInv'
<1> DEFINE u == me[r]
<1>1. /\ pc[r] = "get" /\ u \in Requests /\ Exists(u) /\ token[r] = None /\ read[r] # None
      /\ input[r] # None => u = r /\ users[r] = input[r]
      /\ OthersStay(r) /\ pc'[r] = "set" /\ version'[r] = NewSessionVersion(u)
      /\ UNCHANGED <<users, profiles, session, token, me, input, read, newest, past>>
  BY DEF Base, TypeOK, RequestShapes, RequestShape, Working, GetSession, Goto, history, OthersStay
<1>2. TypeOK'
  BY GetSessionType
<1>3. RequestShape(r)'
  BY <1>1 DEF RequestShape, Working, Exists
<1>4. Base'
  BY <1>1, <1>2, <1>3, QuietBase
<1>5. SerialInv => read'[r] = SessionUser(u)
  BY <1>1 DEF SerialInv, ReadFresh
<1>6. SerialInv => SerialInv'
  BY <1>1, <1>5, QuietSerial, NobodyElse DEF Working
<1>7. ASSUME VersionInv, NEW t \in Requests, Current(t, u)
      PROVE  token[t].version < version'[r]
  <2>1. session[u] # None /\ token[t].version <= session[u].version
    BY <1>1, <1>7 DEF VersionInv, VersionsBelow
  <2>2. session[u].version \in Nat /\ token[t].version \in Nat
    BY <1>1, <1>7, <2>1, Typed DEF Base, AuthSessions, Tokens, Current
  <2> QED BY <1>1, <2>1, <2>2 DEF NewSessionVersion
<1>8. VersionInv => VersionInv'
  BY <1>1, <1>7, QuietVersion
<1> QED BY <1>4, <1>6, <1>8

(* Storing the session and signing the token for it is one step, so the    *)
(* newest token always carries the version that is stored.                 *)
LEMMA SetSessionStep ==
  ASSUME Base, NEW r \in Requests, SetSession(r)
  PROVE  /\ Base'
         /\ SerialInv => SerialInv'
         /\ SerialInv /\ VersionInv => VersionInv'
<1> DEFINE u == me[r]
<1>1. /\ pc[r] = "set" /\ u \in Requests /\ Exists(u) /\ token[r] = None
      /\ input[r] # None => u = r /\ users[r] = input[r]
      /\ UNCHANGED <<users, profiles, me, input, read, version, past>>
      /\ \A q \in Requests \ {r} : pc'[q] = pc[q]
  BY DEF Base, TypeOK, RequestShapes, RequestShape, Working, SetSession, Goto, OthersStay
<1>2. TypeOK'
  BY SetSessionType
<1>3. CASE Goto(r, "failed") /\ UNCHANGED <<session, token, newest>>
  <2>1. pc'[r] = "failed" /\ OthersStay(r)
    BY <1>1, <1>3 DEF Base, TypeOK, Goto, OthersStay
  <2>2. RequestShape(r)'
    BY <1>1, <1>3, <2>1 DEF RequestShape, Working
  <2> QED BY <1>1, <1>2, <1>3, <2>1, <2>2, QuietBase, QuietSerial, QuietVersion DEF Working
<1>4. CASE /\ session' = [session EXCEPT ![u] = NewSession(r)]
           /\ token' = [token EXCEPT ![r] = [user |-> u, version |-> version[r], valid |-> TRUE]]
           /\ newest' = [newest EXCEPT ![u] = r]
           /\ Goto(r, "done")
  <2> DEFINE tok == [user |-> u, version |-> version[r], valid |-> TRUE]
  <2>1. /\ session'[u] = NewSession(r) /\ \A v \in Requests \ {u} : session'[v] = session[v]
        /\ newest'[u] = r /\ \A v \in Requests \ {u} : newest'[v] = newest[v]
        /\ token'[r] = tok /\ \A q \in Requests \ {r} : token'[q] = token[q]
        /\ pc'[r] = "done" /\ OthersStay(r)
    BY <1>1, <1>4 DEF Base, TypeOK, Goto, OthersStay
  <2>2. tok.user = u /\ tok.version = version[r] /\ tok.valid /\ tok # None
    <3>1. tok \in Tokens
      BY <1>1, Typed DEF Base, Tokens
    <3> QED BY <3>1, NoneAssumption
  <2>3. NewSession(r) # None /\ NewSession(r).user = read[r] /\ NewSession(r).version = version[r]
    <3>1. read[r] \in SessionUsers
      BY <1>1, Typed DEF Base, RequestShapes, RequestShape
    <3>2. NewSession(r) \in AuthSessions
      BY <3>1, Typed DEF Base, NewSession, AuthSessions
    <3> QED BY <3>2, NoneAssumption DEF NewSession
  <2> HIDE DEF tok
  <2>4. RequestShapes'
    <3>1. RequestShape(r)'
      BY <1>1, <2>1, <2>2 DEF RequestShape, Working, Exists
    <3> QED BY <1>1, <2>1, <3>1, ShapesOfOthers DEF UsersKept, RequestShapes
  <2>5. OfUsers' /\ OneUserPerEmail'
    BY <1>1, <2>1 DEF Base, OfUsers, OneUserPerEmail, Exists
  <2>6. NewestHolds'
    <3> SUFFICES ASSUME NEW v \in Requests, newest'[v] # None
                 PROVE  /\ token'[newest'[v]] # None /\ token'[newest'[v]].user = v
                        /\ LongSessions /\ token'[newest'[v]].valid =>
                             session'[v] # None /\ session'[v].version = token'[newest'[v]].version
      BY DEF NewestHolds
    <3>1. CASE v = u
      BY <2>1, <2>2, <2>3, <3>1
    <3>2. CASE v # u
      <4>1. newest'[v] = newest[v] /\ newest[v] \in Requests /\ newest[v] # r
        BY <1>1, <2>1, <3>2, Typed DEF Base, NewestHolds
      <4> QED BY <1>1, <2>1, <3>2, <4>1 DEF Base, NewestHolds
    <3> QED BY <3>1, <3>2
  <2>7. Base'
    BY <1>2, <2>4, <2>5, <2>6 DEF Base
  <2>8. ASSUME SerialInv PROVE SerialInv'
    <3>1. Alone'
      BY <1>1, <2>1, <2>8 DEF SerialInv, Alone, OthersStay, Working
    <3>2. \A q \in Requests \ {r} : Working(q) => me[q] # u
      BY <1>1, <2>8, NobodyElse DEF Working
    <3>3. NoSessionYet'
      BY <1>1, <2>1, <2>8, <3>2
         DEF SerialInv, NoSessionYet, Base, RequestShapes, RequestShape, Working
    <3>4. ReadFresh'
      BY <1>1, <2>1, <2>8 DEF SerialInv, ReadFresh, SessionUser
    <3>5. SessionMatchesUser'
      <4>1. read[r] = SessionUser(u)
        BY <1>1, <2>8 DEF SerialInv, ReadFresh
      <4>2. \A v \in Requests : SessionUser(v)' = SessionUser(v)
        BY <1>1 DEF SessionUser
      <4> QED BY <2>1, <2>3, <2>8, <4>1, <4>2 DEF SerialInv, SessionMatchesUser
    <3> QED BY <3>1, <3>3, <3>4, <3>5 DEF SerialInv
  <2>9. ASSUME SerialInv, VersionInv PROVE VersionInv'
    <3>1. \A q \in Requests \ {r} : pc[q] = "set" => me[q] # u
      BY <1>1, <2>9, NobodyElse DEF Working
    <3>2. \A t \in Requests \ {r}, v \in Requests : Current(t, v)' <=> Current(t, v)
      BY <1>1, <2>1 DEF Current
    <3>3. \A v \in Requests : Current(r, v)' => v = u
      BY <2>1, <2>2 DEF Current
    <3>4. VersionFresh'
      <4> SUFFICES ASSUME NEW q \in Requests, NEW t \in Requests, pc'[q] = "set", Current(t, me[q])'
                   PROVE  token'[t].version < version'[q]
        BY DEF VersionFresh
      <4>1. q # r /\ pc[q] = "set" /\ me'[q] = me[q] /\ me[q] # u /\ me[q] \in Requests
        BY <1>1, <2>1, <3>1 DEF Base, RequestShapes, RequestShape, Working
      <4>2. t # r
        BY <1>1, <3>3, <4>1 DEF Current
      <4>3. Current(t, me[q])
        BY <1>1, <2>1, <4>2 DEF Current
      <4> QED BY <1>1, <2>1, <2>9, <4>1, <4>2, <4>3 DEF VersionInv, VersionFresh
    <3>5. VersionsBelow'
      <4> SUFFICES ASSUME NEW t \in Requests, NEW v \in Requests, Current(t, v)'
                   PROVE  /\ session'[v] # None
                          /\ token'[t].version <= session'[v].version
                          /\ token'[t].version = session'[v].version => newest'[v] = t
        BY DEF VersionsBelow
      <4>1. CASE t = r
        <5>1. v = u /\ version[r] \in Nat
          BY <3>3, <4>1, Typed DEF Base
        <5> QED BY <2>1, <2>2, <2>3, <4>1, <5>1
      <4>2. CASE t # r /\ v = u
        <5>1. token[t].version < version[r] /\ token[t] \in Tokens /\ version[r] \in Nat
          BY <1>1, <2>9, <3>2, <4>2, Typed DEF VersionInv, VersionFresh, Base, Current
        <5>2. token[t].version \in Nat
          BY <5>1 DEF Tokens
        <5> QED BY <2>1, <2>3, <4>2, <5>1, <5>2
      <4>3. CASE t # r /\ v # u
        BY <2>1, <2>9, <3>2, <4>3 DEF VersionInv, VersionsBelow
      <4> QED BY <4>1, <4>2, <4>3
    <3> QED BY <3>4, <3>5 DEF VersionInv
  <2> QED BY <2>7, <2>8, <2>9
<1> QED BY <1>3, <1>4 DEF SetSession

LEMMA LogoutGuardStep ==
  ASSUME Base, NEW r \in Requests, NEW t \in Requests, LogoutGuard(r, t)
  PROVE  /\ Base'
         /\ Serial /\ SerialInv => SerialInv'
         /\ VersionInv => VersionInv'
<1> DEFINE u == token[t].user
<1>1. /\ pc[r] = "new" /\ input[r] = None /\ token[r] = None /\ Undisturbed(u)
      /\ OthersStay(r) /\ pc'[r] = "delete" /\ me'[r] = u /\ u \in Requests /\ Exists(u)
      /\ UNCHANGED <<users, profiles, session, token, input, read, newest, past>>
  <2>1. u \in Requests /\ Exists(u)
    BY LogoutGuardType DEF Base, RequestShapes, RequestShape, LogoutGuard, Accepts
  <2> QED BY <2>1
          DEF Base, TypeOK, RequestShapes, RequestShape, LogoutGuard, Goto, history, OthersStay
<1>2. TypeOK'
  BY LogoutGuardType DEF Base
<1>3. RequestShape(r)'
  BY <1>1 DEF RequestShape, Working, Exists
<1>4. Base'
  BY <1>1, <1>2, <1>3, QuietBase
<1>5. Serial => \A q \in Requests \ {r} : Working(q) => me[q] # u
  <2> SUFFICES ASSUME Serial, NEW q \in Requests \ {r}, Working(q), me[q] = u PROVE FALSE
    OBVIOUS
  <2>1. Active(q)
    BY DEF Working, Active
  <2>2. EmailOf(q) = users[u].email
    BY DEF Base, RequestShapes, RequestShape, EmailOf
  <2> QED BY <1>1, <2>1, <2>2 DEF Undisturbed
<1> QED BY <1>1, <1>4, <1>5, QuietSerial, QuietVersion

LEMMA LogoutStep ==
  ASSUME Base, NEW r \in Requests, Logout(r)
  PROVE  /\ Base'
         /\ SerialInv => SerialInv'
         /\ VersionInv => VersionInv'
<1> DEFINE u == me[r]
<1>1. /\ pc[r] = "delete" /\ u \in Requests /\ token[r] = None
      /\ OthersStay(r) /\ pc'[r] = "done"
      /\ session'[u] = None /\ \A v \in Requests \ {u} : session'[v] = session[v]
      /\ newest'[u] = None /\ \A v \in Requests \ {u} : newest'[v] = newest[v]
      /\ UNCHANGED <<users, profiles, token, me, input, read, version>>
      /\ past \subseteq past'
      /\ \A t \in Requests : token[t] # None /\ token[t].user = u => t \in past'
  BY DEF Base, TypeOK, RequestShapes, RequestShape, Working, Logout, Goto, OthersStay
<1>2. TypeOK'
  BY LogoutType DEF Base
<1>3. RequestShapes'
  <2>1. RequestShape(r)'
    BY <1>1 DEF RequestShape, Working
  <2> QED BY <1>1, <2>1, ShapesOfOthers DEF UsersKept, RequestShapes
<1>4. OfUsers' /\ OneUserPerEmail'
  BY <1>1 DEF Base, OfUsers, OneUserPerEmail, Exists
<1>5. NewestHolds'
  BY <1>1 DEF Base, NewestHolds
<1>6. SerialInv => SerialInv'
  <2> SUFFICES ASSUME SerialInv PROVE SerialInv'
    OBVIOUS
  <2>1. Alone'
    BY <1>1 DEF SerialInv, Alone, OthersStay, Working
  <2>2. ReadFresh'
    BY <1>1 DEF SerialInv, ReadFresh, OthersStay, SessionUser
  <2>3. NoSessionYet'
    BY <1>1 DEF SerialInv, NoSessionYet, OthersStay
  <2>4. SessionMatchesUser'
    BY <1>1 DEF SerialInv, SessionMatchesUser, SessionUser
  <2> QED BY <2>1, <2>2, <2>3, <2>4 DEF SerialInv
<1>7. VersionInv => VersionInv'
  <2> SUFFICES ASSUME VersionInv PROVE VersionInv'
    OBVIOUS
  <2>1. \A t, v \in Requests : Current(t, v)' => Current(t, v) /\ v # u
    BY <1>1 DEF Current
  <2>2. VersionFresh'
    BY <1>1, <2>1 DEF VersionInv, VersionFresh, OthersStay, Base, RequestShapes, RequestShape, Working
  <2>3. VersionsBelow'
    BY <1>1, <2>1 DEF VersionInv, VersionsBelow
  <2> QED BY <2>2, <2>3 DEF VersionInv
<1> QED BY <1>2, <1>3, <1>4, <1>5, <1>6, <1>7 DEF Base

(* A token or a session expires. *)
LEMMA TokenExpiresStep ==
  ASSUME Base, NEW r \in Requests, TokenExpires(r)
  PROVE  /\ Base'
         /\ SerialInv => SerialInv'
         /\ VersionInv => VersionInv'
<1>1. /\ token[r] # None /\ token'[r] # None
      /\ token'[r].user = token[r].user /\ token'[r].version = token[r].version /\ ~token'[r].valid
      /\ \A q \in Requests \ {r} : token'[q] = token[q]
      /\ UNCHANGED <<users, profiles, session, pc, me, input, read, version, newest, past>>
  <2>1. token[r] \in Tokens /\ token'[r] = [token[r] EXCEPT !.valid = FALSE]
    BY Typed DEF Base, TypeOK, TokenExpires
  <2>2. /\ token'[r] \in Tokens /\ token'[r].user = token[r].user
        /\ token'[r].version = token[r].version /\ token'[r].valid = FALSE
    BY <2>1 DEF Tokens
  <2>3. token'[r] # None
    BY <2>2, NoneAssumption
  <2>4. \A q \in Requests \ {r} : token'[q] = token[q]
    BY DEF Base, TypeOK, TokenExpires
  <2> QED BY <2>2, <2>3, <2>4 DEF TokenExpires, history
<1>2. TypeOK'
  BY TokenExpiresType DEF Base
<1>3. RequestShapes'
  BY <1>1 DEF Base, RequestShapes, RequestShape, Working, Exists
<1>4. OfUsers' /\ OneUserPerEmail'
  BY <1>1 DEF Base, OfUsers, OneUserPerEmail, Exists
<1>5. NewestHolds'
  <2>1. \A u \in Requests : newest[u] # None => newest[u] \in Requests
    BY Typed DEF Base
  <2> QED BY <1>1, <2>1 DEF Base, NewestHolds
<1>6. SerialInv => SerialInv'
  BY <1>1 DEF SerialInv, Alone, ReadFresh, NoSessionYet, SessionMatchesUser, SessionUser, Working
<1>7. VersionInv => VersionInv'
  <2>1. \A t, v \in Requests : Current(t, v)' => Current(t, v) /\ token'[t] = token[t]
    BY <1>1 DEF Current
  <2> QED BY <1>1, <2>1 DEF VersionInv, VersionFresh, VersionsBelow,
          Current, Base, RequestShapes, RequestShape, Working
<1> QED BY <1>2, <1>3, <1>4, <1>5, <1>6, <1>7 DEF Base

LEMMA SessionExpiresStep ==
  ASSUME Base, NEW u \in Requests, SessionExpires(u)
  PROVE  /\ Base'
         /\ SerialInv => SerialInv'
         /\ LongSessions /\ VersionInv => VersionInv'
<1>1. /\ session'[u] = None /\ \A v \in Requests \ {u} : session'[v] = session[v]
      /\ UNCHANGED <<users, profiles, token, pc, me, input, read, version, newest, past>>
      /\ LongSessions => \A t \in Requests : token[t] # None /\ token[t].user = u => ~token[t].valid
  BY DEF Base, TypeOK, SessionExpires, history
<1>2. TypeOK'
  BY SessionExpiresType DEF Base
<1>3. RequestShapes'
  BY <1>1 DEF Base, RequestShapes, RequestShape, Working, Exists
<1>4. OfUsers' /\ OneUserPerEmail'
  BY <1>1 DEF Base, OfUsers, OneUserPerEmail, Exists
<1>5. NewestHolds'
  <2>1. \A v \in Requests : newest[v] # None => newest[v] \in Requests
    BY Typed DEF Base
  <2> QED BY <1>1, <2>1 DEF Base, NewestHolds
<1>6. SerialInv => SerialInv'
  <2>1. \A v \in Requests : SessionUser(v)' = SessionUser(v)
    BY <1>1 DEF SessionUser
  <2> QED BY <1>1, <2>1
          DEF SerialInv, Alone, ReadFresh, NoSessionYet, SessionMatchesUser, SessionUser, Working
<1>7. LongSessions /\ VersionInv => VersionInv'
  <2>1. \A t, v \in Requests : Current(t, v)' <=> Current(t, v)
    BY <1>1 DEF Current
  <2>2. LongSessions => \A t \in Requests : ~Current(t, u)
    BY <1>1 DEF Current
  <2> QED BY <1>1, <2>1, <2>2 DEF VersionInv, VersionFresh, VersionsBelow, Current
<1> QED BY <1>2, <1>3, <1>4, <1>5, <1>6, <1>7 DEF Base

-----------------------------------------------------------------------------
IInv ==
    /\ Base
    /\ Serial => SerialInv
    /\ Serial /\ LongSessions => VersionInv

LEMMA InitIInv == Init => IInv
<1> SUFFICES ASSUME Init PROVE IInv
  OBVIOUS
<1>1. SerialInv
  BY DEF Init, SerialInv, Alone, ReadFresh, NoSessionYet, SessionMatchesUser, Working
<1>2. VersionInv
  BY DEF Init, VersionInv, VersionFresh, VersionsBelow, Current
<1> QED BY <1>1, <1>2, InitBase DEF IInv

LEMMA StepIInv == IInv /\ [Next]_vars => IInv'
<1> SUFFICES ASSUME IInv, [Next]_vars PROVE IInv'
  OBVIOUS
<1>1. CASE UNCHANGED vars
  <2> USE <1>1 DEF vars, history
  <2>1. Base'
    BY DEF IInv, Base, TypeOK, RequestShapes, RequestShape, OfUsers, OneUserPerEmail, NewestHolds,
       Exists, Working
  <2>2. Serial => SerialInv'
    BY DEF IInv, SerialInv, Alone, ReadFresh, NoSessionYet, SessionMatchesUser, SessionUser, Working
  <2>3. Serial /\ LongSessions => VersionInv'
    BY DEF IInv, VersionInv, VersionFresh, VersionsBelow, Current
  <2> QED BY <2>1, <2>2, <2>3 DEF IInv
<1>2. ASSUME NEW r \in Requests, NEW e \in Emails, NEW role \in Roles, FindByEmail(r, e, role)
      PROVE  IInv'
  BY <1>2, FindByEmailStep DEF IInv
<1>3. ASSUME NEW r \in Requests,
             \/ CreateUser(r) \/ CreateProfile(r) \/ FindCreated(r)
             \/ GetSession(r) \/ SetSession(r)
      PROVE  IInv'
  BY <1>3, CreateUserStep, CreateProfileStep, FindCreatedStep, GetSessionStep, SetSessionStep DEF IInv
<1>4. ASSUME NEW r \in Requests, NEW u \in Requests, SignIn(r, u) \/ LogoutGuard(r, u)
      PROVE  IInv'
  BY <1>4, SignInStep, LogoutGuardStep DEF IInv
<1>5. ASSUME NEW r \in Requests, Logout(r) \/ TokenExpires(r) \/ SessionExpires(r)
      PROVE  IInv'
  BY <1>5, LogoutStep, TokenExpiresStep, SessionExpiresStep DEF IInv
<1> QED BY <1>1, <1>2, <1>3, <1>4, <1>5 DEF Next

LEMMA InductiveInvariant == Spec => []IInv
<1> QED BY InitIInv, StepIInv, PTL DEF Spec

-----------------------------------------------------------------------------
(* Every variable of Sessions keeps its type, whatever requests race.      *)
THEOREM SessionsTypeOK == Spec => []TypeOK
<1>1. IInv => TypeOK
  BY DEF IInv, Base
<1> QED BY <1>1, InductiveInvariant, PTL

(* However many sign-ups race with one email, one user results: the lookup *)
(* alone would let several through, the unique index does not.             *)
THEOREM EmailsAreUnique == Spec => []OneUserPerEmail
<1>1. IInv => OneUserPerEmail
  BY DEF IInv, Base
<1> QED BY <1>1, InductiveInvariant, PTL

(* Where a session lives as long as its tokens, the guard accepts the      *)
(* newest token until it expires, also when requests of one account race.  *)
THEOREM SignInIsKept == LongSessions => (Spec => []SignInSticks)
<1> SUFFICES ASSUME LongSessions PROVE Spec => []SignInSticks
  OBVIOUS
<1>1. IInv => SignInSticks
  BY DEF IInv, Base, NewestHolds, SignInSticks, Accepts
<1> QED BY <1>1, InductiveInvariant, PTL

(* Where the requests of an account are taken one at a time, every stored  *)
(* session carries the role of its user and the business if there is one.  *)
THEOREM SessionCarriesBusiness == Serial => (Spec => []SessionMatchesUser)
<1> SUFFICES ASSUME Serial PROVE Spec => []SessionMatchesUser
  OBVIOUS
<1>1. IInv => SessionMatchesUser
  BY DEF IInv, SerialInv
<1> QED BY <1>1, InductiveInvariant, PTL

(* A new sign-in invalidates the tokens before it (auth.service.ts:185),   *)
(* whatever has expired in between: under both disciplines the guard       *)
(* accepts no other token than the newest.                                 *)
THEOREM OlderTokensRefused == Serial /\ LongSessions => (Spec => []OnlyNewestAccepted)
<1> SUFFICES ASSUME Serial /\ LongSessions PROVE Spec => []OnlyNewestAccepted
  OBVIOUS
<1>1. IInv => OnlyNewestAccepted
  <2> SUFFICES ASSUME IInv, NEW t \in Requests \ past, Accepts(t)
               PROVE  newest[token[t].user] = t
    BY DEF OnlyNewestAccepted
  <2>1. token[t].user \in Requests
    BY Typed DEF IInv, Base, Accepts, Tokens
  <2>2. Current(t, token[t].user)
    BY DEF Accepts, Current
  <2> QED BY <2>1, <2>2 DEF IInv, VersionInv, VersionsBelow, Accepts
<1> QED BY <1>1, InductiveInvariant, PTL
=============================================================================
