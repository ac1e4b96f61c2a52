------------------------------- MODULE Sessions -------------------------------
(***************************************************************************)
(* AuthService, SessionService and AuthGuard: sign-up, sign-in and logout  *)
(* running concurrently over the users and businesses collections and the  *)
(* Redis session of each user (session:<userId>).  Every awaited call is   *)
(* one action.  A token names a user and the version of the session it was *)
(* issued for; the guard of a later request compares that version with the *)
(* stored one.                                                             *)
(*                                                                         *)
(* A request serves one call.  A sign-up mints at most one user id, so     *)
(* requests and user ids are the same set, Requests, and the token that a  *)
(* request returns is token[r].  Names, passwords and signatures are data. *)
(***************************************************************************)
EXTENDS Integers

CONSTANTS
    Emails, Requests,
    Faults,         \* the calls that may be rejected without having any effect
    LongSessions,   \* TRUE: AUTH_SESSION_TTL is not below the life of a token
    Serial,         \* TRUE: a sign-in or logout of an account overlaps no other
                    \*       request of that account
    None

ASSUME FaultsAssumption ==
    Faults \subseteq {"profile", "set"} /\ LongSessions \in BOOLEAN /\ Serial \in BOOLEAN

VARIABLES
    users,      \* users[u]: the document with _id u, or None
    profiles,   \* the users that have a businesses document
    session,    \* session[u]: the value under session:<u>, or None
    token,      \* token[r]: the token that r returned, or None
    pc,         \* pc[r]: where the handler of r waits
    me,         \* me[r]: the user r is about, or None
    input,      \* input[r]: the email and role of a sign-up, or None
    read,       \* read[r]: the SessionUser r has made from the user it read, or None
    version,    \* version[r]: newSessionVersion
    newest,     \* history: the request of u's last token, or None after a logout
    past        \* history: the tokens issued before their user's last logout

vars == <<users, profiles, session, token, pc, me, input, read, version, newest, past>>

Roles == {"client", "business", "admin"}

Users == [email: Emails, role: Roles]

SessionUsers == [role: Roles, business: BOOLEAN]

AuthSessions == [user: SessionUsers, version: Nat]

Tokens == [user: Requests, version: Nat, valid: BOOLEAN]

ASSUME NoneAssumption ==
    /\ None \notin Requests /\ None \notin Users /\ None \notin SessionUsers
    /\ None \notin AuthSessions /\ None \notin Tokens

TypeOK ==
    /\ users \in [Requests -> Users \cup {None}]
    /\ profiles \subseteq Requests
    /\ session \in [Requests -> AuthSessions \cup {None}]
    /\ token \in [Requests -> Tokens \cup {None}]
    /\ pc \in [Requests -> {"new", "create", "profile", "find", "get", "set", "delete",
                            "done", "refused", "failed"}]
    /\ me \in [Requests -> Requests \cup {None}]
    /\ input \in [Requests -> Users \cup {None}]
    /\ read \in [Requests -> SessionUsers \cup {None}]
    /\ version \in [Requests -> Nat]
    /\ newest \in [Requests -> Requests \cup {None}]
    /\ past \subseteq Requests

Init ==
    /\ users = [u \in Requests |-> None]
    /\ profiles = {}
    /\ session = [u \in Requests |-> None]
    /\ token = [r \in Requests |-> None]
    /\ pc = [r \in Requests |-> "new"]
    /\ me = [r \in Requests |-> None]
    /\ input = [r \in Requests |-> None]
    /\ read = [r \in Requests |-> None]
    /\ version = [r \in Requests |-> 0]
    /\ newest = [u \in Requests |-> None]
    /\ past = {}

history == <<newest, past>>

Exists(u) == users[u] # None

Active(r) == pc[r] \notin {"new", "done", "refused", "failed"}

EmailOf(r) == IF input[r] # None THEN input[r].email ELSE users[me[r]].email

Undisturbed(u) == Serial => \A r \in Requests : Active(r) => EmailOf(r) # users[u].email

Goto(r, where) == pc' = [pc EXCEPT ![r] = where]

(* #toSessionUser of a user read with its business populated *)
SessionUser(u) == [role |-> users[u].role, business |-> u \in profiles]

-----------------------------------------------------------------------------
(* signupClient, signupAdmin, signupBusiness *)

Registered(e) == \E u \in Requests : Exists(u) /\ users[u].email = e

FindByEmail(r, e, role) ==
    /\ pc[r] = "new"
    /\ input' = [input EXCEPT ![r] = [email |-> e, role |-> role]]
    /\ me' = [me EXCEPT ![r] = r]
    /\ Goto(r, IF Registered(e) THEN "refused" ELSE "create")
    /\ UNCHANGED <<users, profiles, session, token, read, version, history>>

(* Mutant: no unique index on email. *)
NeverDuplicate(e) == FALSE

(* The unique index on email. *)
DuplicateEmail(e) == Registered(e)

CreateUser(r) ==
    /\ pc[r] = "create"
    /\ IF DuplicateEmail(input[r].email)
       THEN Goto(r, "failed") /\ UNCHANGED <<users, read>>
       ELSE /\ users' = [users EXCEPT ![r] = input[r]]
            /\ IF input[r].role = "business"
               THEN Goto(r, "profile") /\ UNCHANGED read
               ELSE /\ Goto(r, "get")
                    /\ read' = [read EXCEPT ![r] = [role |-> input[r].role, business |-> FALSE]]
    /\ UNCHANGED <<profiles, session, token, me, input, version, history>>

(* Mutant: the session is made from the user as it was created. *)
CreateProfileOnly(r) ==
    /\ pc[r] = "profile"
    /\ profiles' = profiles \cup {r}
    /\ read' = [read EXCEPT ![r] = SessionUser(r)]
    /\ Goto(r, "get")
    /\ UNCHANGED <<users, session, token, me, input, version, history>>

CreateProfile(r) ==
    /\ pc[r] = "profile"
    /\ \/ profiles' = profiles \cup {r} /\ Goto(r, "find")
       \/ "profile" \in Faults /\ Goto(r, "failed") /\ UNCHANGED profiles
    /\ UNCHANGED <<users, session, token, me, input, read, version, history>>

(* The user is read again, now with its business. *)
FindCreated(r) ==
    /\ pc[r] = "find"
    /\ read' = [read EXCEPT ![r] = SessionUser(r)]
    /\ Goto(r, "get")
    /\ UNCHANGED <<users, profiles, session, token, me, input, version, history>>

-----------------------------------------------------------------------------
(* signIn with the right password; any other is refused without effect. *)
SignIn(r, u) ==
    /\ pc[r] = "new"
    /\ Exists(u)
    /\ Undisturbed(u)
    /\ me' = [me EXCEPT ![r] = u]
    /\ read' = [read EXCEPT ![r] = SessionUser(u)]
    /\ Goto(r, "get")
    /\ UNCHANGED <<users, profiles, session, token, input, version, history>>

-----------------------------------------------------------------------------
(* #createAuthSessionForUser *)

(* Mutants: the version is not increased; it starts from undefined. *)
SameVersion(u) == IF session[u] = None THEN 1 ELSE session[u].version

VersionFromUndefined(u) == IF session[u] = None THEN -1 ELSE session[u].version + 1

NewSessionVersion(u) == IF session[u] = None THEN 1 ELSE session[u].version + 1

GetSession(r) ==
    /\ pc[r] = "get"
    /\ version' = [version EXCEPT ![r] = NewSessionVersion(me[r])]
    /\ Goto(r, "set")
    /\ UNCHANGED <<users, profiles, session, token, me, input, read, history>>

(* Mutant: a session that is there is kept (SET NX). *)
KeptSession(r) ==
    IF session[me[r]] # None THEN session[me[r]]
    ELSE [user |-> read[r], version |-> version[r]]

NewSession(r) == [user |-> read[r], version |-> version[r]]

(* SETEX with a fresh time to live; the token is signed for it at once. *)
SetSession(r) ==
    /\ pc[r] = "set"
    /\ \/ /\ session' = [session EXCEPT ![me[r]] = NewSession(r)]
          /\ token' = [token EXCEPT ![r] =
                 [user |-> me[r], version |-> version[r], valid |-> TRUE]]
          /\ newest' = [newest EXCEPT ![me[r]] = r]
          /\ Goto(r, "done")
       \/ "set" \in Faults /\ Goto(r, "failed") /\ UNCHANGED <<session, token, newest>>
    /\ UNCHANGED <<users, profiles, me, input, read, version, past>>

-----------------------------------------------------------------------------
(* AuthGuard, and the logout behind it *)

Accepts(t) ==
    /\ token[t] # None
    /\ token[t].valid
    /\ session[token[t].user] # None
    /\ session[token[t].user].version = token[t].version

LogoutGuard(r, t) ==
    /\ pc[r] = "new"
    /\ Accepts(t)
    /\ Undisturbed(token[t].user)
    /\ me' = [me EXCEPT ![r] = token[t].user]
    /\ Goto(r, "delete")
    /\ UNCHANGED <<users, profiles, session, token, input, read, version, history>>

Logout(r) ==
    /\ pc[r] = "delete"
    /\ session' = [session EXCEPT ![me[r]] = None]
    /\ newest' = [newest EXCEPT ![me[r]] = None]
    /\ past' = past \cup {t \in Requests : token[t] # None /\ token[t].user = me[r]}
    /\ Goto(r, "done")
    /\ UNCHANGED <<users, profiles, token, me, input, read, version>>

-----------------------------------------------------------------------------
(* The passing of time *)

(* expiresIn: '6d' *)
TokenExpires(r) ==
    /\ token[r] # None
    /\ token[r].valid
    /\ token' = [token EXCEPT ![r].valid = FALSE]
    /\ UNCHANGED <<users, profiles, session, pc, me, input, read, version, history>>

(* A session whose life is not below a token's outlives every token that   *)
(* was issued when it was set or before.                                   *)
SessionExpires(u) ==
    /\ session[u] # None
    /\ LongSessions => \A r \in Requests : token[r] # None /\ token[r].user = u => ~token[r].valid
    /\ session' = [session EXCEPT ![u] = None]
    /\ UNCHANGED <<users, profiles, token, pc, me, input, read, version, history>>

-----------------------------------------------------------------------------
Next ==
    \/ \E r \in Requests, e \in Emails, role \in Roles : FindByEmail(r, e, role)
    \/ \E r \in Requests : CreateUser(r)
    \/ \E r \in Requests : CreateProfile(r)
    \/ \E r \in Requests : FindCreated(r)
    \/ \E r, u \in Requests : SignIn(r, u)
    \/ \E r \in Requests : GetSession(r)
    \/ \E r \in Requests : SetSession(r)
    \/ \E r, t \in Requests : LogoutGuard(r, t)
    \/ \E r \in Requests : Logout(r)
    \/ \E r \in Requests : TokenExpires(r)
    \/ \E u \in Requests : SessionExpires(u)

Spec == Init /\ [][Next]_vars

-----------------------------------------------------------------------------
(* A sign-up for an email that is taken throws "User exists"               *)
(* (auth.service.ts:47), and however sign-ups race between the lookup and  *)
(* the insert, two users never share an email.                             *)
OneUserPerEmail ==
    \A u, v \in Requests : Exists(u) /\ Exists(v) /\ users[u].email = users[v].email => u = v

(* "Increments the session version to invalidate previous sessions"        *)
(* (auth.service.ts:185): of the tokens issued since its user last logged  *)
(* out the guard accepts only the newest, also when sessions and tokens    *)
(* have expired in between.                                                *)
OnlyNewestAccepted ==
    \A t \in Requests \ past : Accepts(t) => newest[token[t].user] = t

(* A user who has signed in stays signed in until the token expires or a   *)
(* logout: nothing else makes the guard refuse the newest token.           *)
SignInSticks ==
    \A u \in Requests :
        newest[u] # None /\ token[newest[u]].valid => Accepts(newest[u])

(* The session an owner works with carries the business whenever it exists *)
(* (@AuthBusiness takes it from there), and its role is the user's.        *)
SessionMatchesUser ==
    \A u \in Requests : session[u] # None => session[u].user = SessionUser(u)
=============================================================================
