------------------------------- MODULE Accounts -------------------------------
(***************************************************************************)
(* Who a request is made by: the OAuth callback, the bearer tokens that    *)
(* auth.middleware.ts reconciles with the rows of users on every request   *)
(* (account.service.ts), and what moderators and administrators do to      *)
(* those rows.                                                             *)
(*                                                                         *)
(* A login is one READ COMMITTED transaction: three reads, each of what is *)
(* committed by then, and writes that are computed from what was read.     *)
(* Roles stand for the permissions that grant something; every account has *)
(* the player's.                                                           *)
(***************************************************************************)
EXTENDS Backend, Naturals, Sequences

CONSTANTS Rows,        \* guids of rows of users
          People,      \* BeatKhana profiles: a guid and a Discord ID each
          Platforms,   \* platform IDs
          Tokens,      \* what the tokens that are presented claim,
          Granted,     \* and those that BeatKhana gives for a code
          States,      \* OAuth states
          AdminRow,    \* the account that startup.service.ts ensures,
          AdminPerson, \* and whose it is
          Patches,     \* the kinds of PATCH that administrators send
          MaxEdits     \* bound: how often moderators change a row

Roles == {"role:moderator", "role:admin"}

Account == [bk : People \cup {None}, discord : People \cup {None},
            platform : Platforms \cup {None},
            roles : SUBSET Roles, banned : BOOLEAN]

\* verifyAccessToken: whom a valid token names.  The plugin's own platform ID
\* comes first in the list of the linked ones.
Claims(t) ==
    /\ t.person \in People \cup {None}
    /\ t.trusted \in Platforms \cup {None}
    /\ t.ids \in Seq(Platforms)
    /\ t.trusted # None => t.ids # << >> /\ t.ids[1] = t.trusted
    /\ t.person = None => t.trusted # None

ASSUME AccountsAssumption ==
    /\ None \notin People \cup Platforms \cup Rows
    /\ AdminRow \in Rows
    /\ AdminPerson \in People
    /\ Patches \subseteq {"roles", "platform", "identity"}
    /\ Granted \subseteq Tokens
    /\ MaxEdits \in Nat
    /\ \A t \in Tokens : Claims(t)

VARIABLES users,    \* users[a]: the row, or None
          history,  \* rows that retained matches refer to
          oauth,    \* states that wait for their callback
          edits,    \* how often a moderator has changed a row
          accReq    \* what each slot is executing, and what it has read

accountsVars == <<users, history, oauth, edits, accReq>>

LoginOp == {"read_platform", "read_discord", "read_bk", "commit"}
\* A row as a transaction has read it.
Copy == [row : Rows, was : Account]
AccountRequest ==
    [op : {"idle", "admitted"} \cup LoginOp,
     callback : BOOLEAN,                      \* it only signs in
     token : Tokens \cup {None},
     platform : Copy \cup {None}, discord : Copy \cup {None},
     bk : Copy \cup {None},
     me : Rows \cup {None}, may : SUBSET Roles] \* req.user
ASSUME AccountRowsAssumption == None \notin Account \cup Copy
NoAccountRequest ==
    [op |-> "idle", callback |-> FALSE, token |-> None, platform |-> None,
     discord |-> None, bk |-> None, me |-> None, may |-> {}]

WholeList(p, ids, roles) ==   \* mutant: the list of platforms is stored
    [bk |-> p, discord |-> p, platform |-> ids, roles |-> roles, banned |-> FALSE]
Person(p, ids, roles) ==
    [bk |-> p, discord |-> p, platform |-> IF ids = << >> THEN None ELSE ids[1],
     roles |-> roles, banned |-> FALSE]

AccountsInit ==
    /\ users = [a \in Rows |-> IF a = AdminRow
                               THEN Person(AdminPerson, << >>, Roles) ELSE None]
    /\ history = {}
    /\ oauth = {}
    /\ edits = 0
    /\ accReq = [s \in Slots |-> NoAccountRequest]

Live == {a \in Rows : users[a] # None}
Copies(r) == {r.platform, r.discord, r.bk} \ {None}
\* A guid is never given twice.
Unused == {a \in Rows \ Live : \A s \in Slots :
              accReq[s].me # a /\ \A c \in Copies(accReq[s]) : c.row # a}

SetRequest(s, r) == accReq' = [accReq EXCEPT ![s] = r]
In(s, op) == accReq[s].op = op
Answer(s) == SetRequest(s, NoAccountRequest)
\* What a read of one of the rows in A may return.
ReadOf(A) == IF A = {} THEN {None} ELSE {[row |-> a, was |-> users[a]] : a \in A}

-----------------------------------------------------------------------------
(* What the database accepts.                                              *)

\* users_has_identity, the unique columns, and the references of retained
\* matches: neither their row nor its platform may go.
Accepted(u) ==
    /\ \A a \in Rows : u[a] # None =>
          /\ u[a].discord # None \/ u[a].platform # None
          /\ \A b \in Rows : u[b] # None /\ a # b =>
                /\ u[a].discord = u[b].discord => u[a].discord = None
                /\ u[a].bk = u[b].bk => u[a].bk = None
                /\ u[a].platform = u[b].platform => u[a].platform = None
    /\ \A a \in history : u[a] # None /\ u[a].platform # None

-----------------------------------------------------------------------------
(* Signing in.                                                             *)

\* GET /auth/login.  A state that is consumed is like one that never was.
OAuthStart(o) ==
    /\ o \notin oauth
    /\ oauth' = oauth \cup {o}
    /\ UNCHANGED <<users, history, edits, accReq>>

Begin(s, t, callback) ==
    /\ In(s, "idle")
    /\ SetRequest(s, [NoAccountRequest EXCEPT
                         !.op = "read_platform", !.token = t,
                         !.callback = callback])

\* GET /auth/callback: the state is consumed at once, the code exchanged then.
OAuthCallback(s, o, t) ==
    /\ o \in oauth
    /\ t \in Granted
    /\ oauth' = oauth \ {o}
    /\ Begin(s, t, TRUE)
    /\ UNCHANGED <<users, history, edits>>

\* requireAuth, requireModerator, optionalAuth
BearerToken(s, t) ==
    /\ Begin(s, t, FALSE)
    /\ UNCHANGED <<users, history, oauth, edits>>

\* The row with the first of the token's platform IDs that any row has.
PlatformRows(ids) ==
    {a \in Live : \E i \in DOMAIN ids :
        /\ users[a].platform = ids[i]
        /\ \A j \in 1..(i - 1) : \A b \in Live : users[b].platform # ids[j]}

ReadPlatform(s) ==
    /\ In(s, "read_platform")
    /\ \E copy \in ReadOf(PlatformRows(accReq[s].token.ids)) :
          SetRequest(s, [accReq[s] EXCEPT
                !.platform = copy,
                !.op = IF accReq[s].token.person = None THEN "commit"
                                                        ELSE "read_discord"])
    /\ UNCHANGED <<users, history, oauth, edits>>

ReadDiscord(s) ==
    /\ In(s, "read_discord")
    /\ \E copy \in ReadOf({a \in Live : users[a].discord = accReq[s].token.person}) :
          SetRequest(s, [accReq[s] EXCEPT !.discord = copy, !.op = "read_bk"])
    /\ UNCHANGED <<users, history, oauth, edits>>

ReadBeatKhana(s) ==
    /\ In(s, "read_bk")
    /\ \E copy \in ReadOf({a \in Live : users[a].bk = accReq[s].token.person}) :
          SetRequest(s, [accReq[s] EXCEPT !.bk = copy, !.op = "commit"])
    /\ UNCHANGED <<users, history, oauth, edits>>

\* The transaction fails: a constraint, a lock cycle, a lost connection; or
\* the code exchange or the token did, before it.
LoginRefused(s) ==
    /\ accReq[s].op \in LoginOp
    /\ Answer(s)
    /\ UNCHANGED <<users, history, oauth, edits>>

BeatKhanaFirst(r) ==   \* mutant: the login identity comes before the platform
    IF r.bk # None THEN r.bk ELSE IF r.platform # None THEN r.platform ELSE r.discord
Canonical(r) == IF r.platform # None THEN r.platform
                ELSE IF r.bk # None THEN r.bk ELSE r.discord

\* The other rows that were found by the person's identities.
Duplicates(r) ==
    {c \in {r.discord, r.bk} \ {None} :
        /\ c.row # Canonical(r).row
        /\ c = r.bk /\ r.discord # None => r.discord.row # c.row \/ r.discord = c}

\* mergeLocalAuthorization: the rows whose permissions and bans are kept.
Authorities(r) == {Canonical(r)} \cup Duplicates(r)

KnownFirst(t, known) ==
    IF \E i \in DOMAIN t.ids : t.ids[i] = known THEN known
    ELSE IF t.ids # << >> THEN t.ids[1] ELSE known
\* The plugin's ID, or the known one if the token lists it, or the first.
PlatformOf(t, known) ==
    IF t.trusted # None THEN t.trusted ELSE KnownFirst(t, known)

\* A duplicate without a platform is deleted, another one gives the person's
\* identities up.
Emptied(d, p, row) ==
    IF d.was.platform = None THEN None
    ELSE [row EXCEPT !.discord = IF d.was.discord = p THEN None ELSE @,
                     !.bk = IF d.was.bk = p THEN None ELSE @]

Cleared(r) ==
    [a \in Rows |->
        IF users[a] # None /\ \E d \in Duplicates(r) : d.row = a
        THEN Emptied(CHOOSE d \in Duplicates(r) : d.row = a,
                     r.token.person, users[a])
        ELSE users[a]]

\* upsertFromBeatKhana: everything that is written comes from the copies.
Merged(r) ==
    [Cleared(r) EXCEPT ![Canonical(r).row] =
        [bk |-> r.token.person, discord |-> r.token.person,
         platform |-> PlatformOf(r.token, Canonical(r).was.platform),
         roles |-> UNION {c.was.roles : c \in Authorities(r)},
         banned |-> \E c \in Authorities(r) : c.was.banned]]

Admit(s, a) ==
    IF accReq[s].callback THEN Answer(s)
    ELSE SetRequest(s, [NoAccountRequest EXCEPT
                           !.op = "admitted", !.me = a,
                           !.may = users'[a].roles])

\* A row that was found; upsertPluginAccount only refreshes it.
SignIn(s) ==
    LET r == accReq[s] IN
    /\ In(s, "commit")
    /\ Canonical(r) # None
    /\ users[Canonical(r).row] # None
    /\ users' = IF r.token.person = None THEN users ELSE Merged(r)
    /\ Accepted(users')
    /\ Admit(s, Canonical(r).row)
    /\ UNCHANGED <<history, oauth, edits>>

SignUp(s) ==
    LET r == accReq[s] IN
    /\ In(s, "commit")
    /\ Canonical(r) = None
    /\ \E a \in Unused :
          /\ users' = [users EXCEPT ![a] = Person(r.token.person, r.token.ids, {})]
          /\ Accepted(users')
          /\ Admit(s, a)
    /\ UNCHANGED <<history, oauth, edits>>

\* The row was deleted meanwhile: without a current season the transaction
\* commits what it did to the duplicates, and the request fails after it.
SignInGone(s) ==
    LET r == accReq[s] IN
    /\ In(s, "commit")
    /\ Canonical(r) # None
    /\ users[Canonical(r).row] = None
    /\ users' = Cleared(r)
    /\ Accepted(users')
    /\ Answer(s)
    /\ UNCHANGED <<history, oauth, edits>>

-----------------------------------------------------------------------------
(* What a request does once it is admitted, with the row of req.user.      *)

Holds(s, roles) == In(s, "admitted") /\ accReq[s].may \cap roles # {}
Write(s, a, row) ==
    /\ users[a] # None
    /\ edits < MaxEdits
    /\ edits' = edits + 1
    /\ users' = [users EXCEPT ![a] = row]
    /\ Accepted(users')
    /\ Answer(s)
    /\ UNCHANGED <<history, oauth>>

SetBan(s, a, banned) ==   \* PUT and DELETE /users/:userGuid/ban
    /\ Holds(s, Roles)
    /\ Write(s, a, [users[a] EXCEPT !.banned = banned])

PatchUser(s, a) ==        \* PATCH /users/:userGuid, one field of it
    /\ Holds(s, {"role:admin"})
    /\ \/ /\ "roles" \in Patches
          /\ \E roles \in SUBSET Roles :
                Write(s, a, [users[a] EXCEPT !.roles = roles])
       \/ /\ "platform" \in Patches
          /\ \E x \in Platforms \cup {None} :
                Write(s, a, [users[a] EXCEPT !.platform = x])
       \/ /\ "identity" \in Patches
          /\ \E p \in People \cup {None} :
                \/ Write(s, a, [users[a] EXCEPT !.bk = p])
                \/ Write(s, a, [users[a] EXCEPT !.discord = p])

DeleteUser(s, a) ==       \* DELETE /users/:userGuid
    /\ Holds(s, {"role:admin"})
    /\ Write(s, a, None)

\* Any other handler, or one that finds nothing to do.
Finish(s) ==
    /\ In(s, "admitted")
    /\ Answer(s)
    /\ UNCHANGED <<users, history, oauth, edits>>

\* queue.service.ts makes a match of players with a platform.
PlayMatch(a) ==
    /\ users[a] # None
    /\ users[a].platform # None
    /\ a \notin history
    /\ history' = history \cup {a}
    /\ UNCHANGED <<users, oauth, edits, accReq>>

AccountsNext ==
    \/ \E o \in States :
          \/ OAuthStart(o)
          \/ \E s \in Slots, t \in Granted : OAuthCallback(s, o, t)
    \/ \E s \in Slots :
          \/ \E t \in Tokens : BearerToken(s, t)
          \/ ReadPlatform(s)
          \/ ReadDiscord(s)
          \/ ReadBeatKhana(s)
          \/ SignIn(s)
          \/ SignUp(s)
          \/ SignInGone(s)
          \/ LoginRefused(s)
          \/ Finish(s)
          \/ \E a \in Rows :
                \/ \E banned \in BOOLEAN : SetBan(s, a, banned)
                \/ PatchUser(s, a)
                \/ DeleteUser(s, a)
    \/ \E a \in Rows : PlayMatch(a)

AccountsSpec == AccountsInit /\ [][AccountsNext]_accountsVars

-----------------------------------------------------------------------------
(* The rows of users and oauth_states, and what the requests have read.    *)
AccountsTypeOK ==
    /\ users \in [Rows -> Account \cup {None}]
    /\ history \subseteq Rows
    /\ oauth \subseteq States
    /\ edits \in 0..MaxEdits
    /\ accReq \in [Slots -> AccountRequest]

\* What a login with token t has in hand before its commit, if nobody else
\* writes while it reads.
Undisturbed(t) ==
    LET reads(A) == IF t.person = None THEN {None} ELSE ReadOf(A) IN
    {[NoAccountRequest EXCEPT !.op = "commit", !.token = t,
                              !.platform = c[1], !.discord = c[2], !.bk = c[3]] :
        c \in ReadOf(PlatformRows(t.ids))
              \X reads({a \in Live : users[a].discord = t.person})
              \X reads({a \in Live : users[a].bk = t.person})}

(* A login that runs alone is never refused by the database, whoever it is *)
(* and however logins, patches and bans that overlapped have spread his    *)
(* identities over the rows: what upsertFromBeatKhana writes would leave   *)
(* no identity in two rows, remove no player whom retained matches refer   *)
(* to, and take no such player's platform.  Whoever is refused in a race   *)
(* only has to try again.                                                  *)
LoginAloneSucceeds ==
    \A t \in Tokens : \A r \in Undisturbed(t) :
        /\ Canonical(r) = None =>
              \A a \in Unused : Accepted([users EXCEPT ![a] =
                                             Person(t.person, t.ids, {})])
        /\ Canonical(r) # None /\ t.person # None => Accepted(Merged(r))

\* The step in which the transaction of s signs its request in.
SignsIn(s) == In(s, "commit") /\ accReq'[s].op = "admitted"
SignedIn(s) == accReq'[s].me

(* "CompCube permissions are managed locally and must survive every login  *)
(* and token validation": the account that a request continues with has    *)
(* every role and every ban that the rows which the login has found have   *)
(* at the moment of its commit.                                            *)
AuthorizationSurvivesLogins ==
    [][\A s \in Slots : SignsIn(s) =>
          \A c \in Copies(accReq[s]) : users[c.row] # None =>
             /\ users[c.row].roles \subseteq users'[SignedIn(s)].roles
             /\ users[c.row].banned => users'[SignedIn(s)].banned]_accountsVars
=============================================================================
