---------------------------- MODULE AccountsProofs ----------------------------
(***************************************************************************)
(* For any number of rows, people, platforms, tokens and requests at a     *)
(* time: whatever logins, merges and moderators have done to the rows, a   *)
(* login that runs alone is accepted by the database.  And for any number  *)
(* of rows, people, platforms and tokens: while requests come one after    *)
(* another, the account that remains of a merge has the roles and bans of  *)
(* the rows that were found (lost_roles shows why two are too many).       *)
(*                                                                         *)
(* The invariant says what a login has in hand before each of its reads    *)
(* (HasRead): a login of a plugin without a person never looks for one;    *)
(* and that the rows satisfy the constraints of the database.  To the      *)
(* second theorem belongs another (FreshCopies): what the one login has    *)
(* read is still in the rows.                                              *)
(***************************************************************************)
EXTENDS Accounts, TLAPS

\* What a request has in hand, by how far it has come.
HasRead(r) ==
    /\ r.op \in LoginOp => r.token \in Tokens
    /\ r.op = "read_platform" => r.platform = None
    /\ r.op \in {"read_platform", "read_discord"} => r.discord = None
    /\ r.op \in {"read_platform", "read_discord", "read_bk"} => r.bk = None
    /\ r.op \in {"read_discord", "read_bk"} => r.token.person # None
    /\ r.op = "commit" /\ r.token.person = None => r.discord = None /\ r.bk = None

ReadsInOrder == \A s \in Slots : HasRead(accReq[s])

\* The constraints of the database hold between the transactions.
RowsAccepted == Accepted(users)

\* The inductive invariant.
AccountsInv ==
    /\ AccountsTypeOK
    /\ ReadsInOrder
    /\ RowsAccepted

RowsTyped(u) == u \in [Rows -> Account \cup {None}]

-----------------------------------------------------------------------------
(* What a token names and what is read is typed.                           *)

\* A valid token names people and platforms (code: verifyAccessToken).
LEMMA TokenTyped ==
    ASSUME NEW t \in Tokens
    PROVE  /\ t.person \in People \cup {None}
           /\ t.trusted \in Platforms \cup {None}
           /\ t.ids \in Seq(Platforms)
           /\ t.trusted # None => t.ids # << >> /\ t.ids[1] = t.trusted
           /\ t.person = None => t.trusted # None
  BY AccountsAssumption DEF Claims

\* A read returns a copy of a live row, or nothing.
LEMMA ReadTyped ==
    ASSUME RowsTyped(users), NEW A, A \subseteq Live, NEW c \in ReadOf(A)
    PROVE  c \in Copy \cup {None}
  BY DEF RowsTyped, ReadOf, Live, Copy

\* An idle request has nothing.
LEMMA NoRequestTyped ==
    /\ NoAccountRequest \in AccountRequest
    /\ NoAccountRequest.op = "idle"
    /\ NoAccountRequest.callback = FALSE
    /\ NoAccountRequest.token = None
    /\ NoAccountRequest.platform = None
    /\ NoAccountRequest.discord = None
    /\ NoAccountRequest.bk = None
  BY DEF NoAccountRequest, AccountRequest

\* An idle request satisfies the invariant.
LEMMA NoRequestSound == HasRead(NoAccountRequest)
  BY NoRequestTyped DEF HasRead, LoginOp

\* A step of one slot keeps the requests, if what it leaves there is sound.
LEMMA OneRequest ==
    ASSUME accReq \in [Slots -> AccountRequest], ReadsInOrder,
           NEW s \in Slots, NEW r \in AccountRequest, HasRead(r),
           SetRequest(s, r)
    PROVE  accReq' \in [Slots -> AccountRequest] /\ ReadsInOrder'
  BY DEF SetRequest, ReadsInOrder

\* An answered request.
LEMMA AnswerSound ==
    ASSUME accReq \in [Slots -> AccountRequest], ReadsInOrder,
           NEW s \in Slots, Answer(s)
    PROVE  accReq' \in [Slots -> AccountRequest] /\ ReadsInOrder'
  BY NoRequestTyped, NoRequestSound, OneRequest DEF Answer

\* The copies of a request.
LEMMA CopiesTyped ==
    ASSUME NEW r \in AccountRequest
    PROVE  /\ Copies(r) \subseteq Copy
           /\ Canonical(r) # None => Canonical(r) \in Copies(r)
           /\ Duplicates(r) \subseteq Copies(r)
           /\ \A c \in Copies(r) : /\ c \in Copy
                                   /\ c.row \in Rows
                                   /\ c.was \in Account
  <1>1. /\ r.platform \in Copy \cup {None}
        /\ r.discord \in Copy \cup {None}
        /\ r.bk \in Copy \cup {None}
    BY DEF AccountRequest
  <1>2. Copies(r) \subseteq Copy
    BY <1>1 DEF Copies
  <1>3. Canonical(r) # None => Canonical(r) \in Copies(r)
    BY DEF Canonical, Copies
  <1>4. Duplicates(r) \subseteq Copies(r)
    BY DEF Duplicates, Copies
  <1>5. \A c \in Copy : c.row \in Rows /\ c.was \in Account
    BY DEF Copy
  <1> QED BY <1>2, <1>3, <1>4, <1>5

\* A row of users has typed columns.
LEMMA AccountTyped ==
    ASSUME NEW a \in Account
    PROVE  /\ a.bk \in People \cup {None}
           /\ a.discord \in People \cup {None}
           /\ a.platform \in Platforms \cup {None}
           /\ a.roles \in SUBSET Roles
           /\ a.banned \in BOOLEAN
           /\ a # None
  BY AccountRowsAssumption DEF Account

\* What is inserted for somebody new is a row (code: upsertFromBeatKhana).
LEMMA PersonTyped ==
    ASSUME NEW t \in Tokens
    PROVE  /\ Person(t.person, t.ids, {}) \in Account
           /\ Person(t.person, t.ids, {}).bk = t.person
           /\ Person(t.person, t.ids, {}).discord = t.person
           /\ t.trusted # None => Person(t.person, t.ids, {}).platform = t.trusted
           /\ Person(t.person, t.ids, {}).roles = {}
  <1>1. t.ids # << >> => t.ids[1] \in Platforms
    BY TokenTyped
  <1>2. (IF t.ids = << >> THEN None ELSE t.ids[1]) \in Platforms \cup {None}
    BY <1>1
  <1> QED BY <1>2, TokenTyped DEF Person, Account

\* The platform that a login writes (code: upsertFromBeatKhana).
LEMMA PlatformTyped ==
    ASSUME NEW t \in Tokens, NEW known \in Platforms \cup {None}
    PROVE  /\ PlatformOf(t, known) \in Platforms \cup {None}
           /\ t.trusted # None => PlatformOf(t, known) = t.trusted
  <1>1. t.ids # << >> => t.ids[1] \in Platforms
    BY TokenTyped
  <1> QED BY <1>1, TokenTyped DEF PlatformOf, KnownFirst

\* What is left of a duplicate is a row or nothing.
LEMMA EmptiedTyped ==
    ASSUME NEW d, NEW p, NEW row \in Account
    PROVE  Emptied(d, p, row) \in Account \cup {None}
  <1> DEFINE e == [row EXCEPT !.discord = IF d.was.discord = p THEN None ELSE @,
                              !.bk = IF d.was.bk = p THEN None ELSE @]
  <1>1. e \in Account
    BY DEF Account
  <1> QED BY <1>1 DEF Emptied

\* The duplicates are rows or nothing after a merge.
LEMMA ClearedTyped ==
    ASSUME RowsTyped(users), NEW r
    PROVE  RowsTyped(Cleared(r))
  <1>1. \A a \in Rows : users[a] \in Account \cup {None}
    BY DEF RowsTyped
  <1>2. \A a \in Rows : Cleared(r)[a] \in Account \cup {None}
    BY <1>1, EmptiedTyped DEF Cleared
  <1>3. Cleared(r) = [a \in Rows |-> Cleared(r)[a]]
    BY DEF Cleared
  <1> QED BY <1>2, <1>3 DEF RowsTyped

MergedRow(r) ==
    [bk |-> r.token.person, discord |-> r.token.person,
     platform |-> PlatformOf(r.token, Canonical(r).was.platform),
     roles |-> UNION {c.was.roles : c \in Authorities(r)},
     banned |-> \E c \in Authorities(r) : c.was.banned]

\* The canonical row of a merge, and the others.
LEMMA MergeTyped ==
    ASSUME RowsTyped(users), NEW r \in AccountRequest, r.token \in Tokens,
           Canonical(r) # None
    PROVE  /\ MergedRow(r) \in Account
           /\ MergedRow(r).bk = r.token.person
           /\ MergedRow(r).discord = r.token.person
           /\ r.token.trusted # None => MergedRow(r).platform = r.token.trusted
           /\ \A c \in Authorities(r) : c.was.roles \subseteq MergedRow(r).roles
           /\ \A c \in Authorities(r) : c.was.banned => MergedRow(r).banned
           /\ Canonical(r).row \in Rows
           /\ RowsTyped(Merged(r))
           /\ Merged(r)[Canonical(r).row] = MergedRow(r)
  <1>1. Canonical(r) \in Copies(r) /\ Authorities(r) \subseteq Copies(r)
    BY CopiesTyped DEF Authorities
  <1>2. /\ Canonical(r).row \in Rows
        /\ \A c \in Authorities(r) : c.was \in Account
        /\ Canonical(r).was \in Account
    BY <1>1, CopiesTyped
  <1>3. \A c \in Authorities(r) : c.was.roles \in SUBSET Roles
    BY <1>2, AccountTyped
  <1>4. UNION {c.was.roles : c \in Authorities(r)} \in SUBSET Roles
    BY <1>3
  <1>5. Canonical(r).was.platform \in Platforms \cup {None}
    BY <1>2, AccountTyped
  <1>6. /\ PlatformOf(r.token, Canonical(r).was.platform) \in Platforms \cup {None}
        /\ r.token.trusted # None =>
              PlatformOf(r.token, Canonical(r).was.platform) = r.token.trusted
    BY <1>5, PlatformTyped
  <1>7. (\E c \in Authorities(r) : c.was.banned) \in BOOLEAN
    OBVIOUS
  <1>8. r.token.person \in People \cup {None}
    BY TokenTyped
  <1>9. /\ MergedRow(r).bk = r.token.person
        /\ MergedRow(r).discord = r.token.person
        /\ MergedRow(r).platform = PlatformOf(r.token, Canonical(r).was.platform)
        /\ MergedRow(r).roles = UNION {c.was.roles : c \in Authorities(r)}
        /\ MergedRow(r).banned = (\E c \in Authorities(r) : c.was.banned)
    BY DEF MergedRow
  <1>10. MergedRow(r) \in Account
    BY <1>4, <1>6, <1>7, <1>8 DEF MergedRow, Account
  <1>11. \A c \in Authorities(r) : c.was.roles \subseteq MergedRow(r).roles
    BY <1>9
  <1>12. \A c \in Authorities(r) : c.was.banned => MergedRow(r).banned
    BY <1>9, Zenon
  <1>13. RowsTyped(Cleared(r))
    BY ClearedTyped
  <1>14. Merged(r) = [Cleared(r) EXCEPT ![Canonical(r).row] = MergedRow(r)]
    BY DEF Merged, MergedRow
  <1>15. RowsTyped(Merged(r)) /\ Merged(r)[Canonical(r).row] = MergedRow(r)
    BY <1>2, <1>10, <1>13, <1>14 DEF RowsTyped
  <1> QED BY <1>2, <1>6, <1>9, <1>10, <1>11, <1>12, <1>15

-----------------------------------------------------------------------------
(* The steps.                                                              *)

\* A request that begins (code: the callback, requireAuth).
LEMMA BeginSound ==
    ASSUME accReq \in [Slots -> AccountRequest], ReadsInOrder,
           NEW s \in Slots, NEW t \in Tokens, NEW callback \in BOOLEAN,
           Begin(s, t, callback)
    PROVE  accReq' \in [Slots -> AccountRequest] /\ ReadsInOrder'
  <1> DEFINE r == [NoAccountRequest EXCEPT !.op = "read_platform", !.token = t,
                                           !.callback = callback]
  <1>1. /\ r \in AccountRequest
        /\ r.op = "read_platform" /\ r.token = t
        /\ r.platform = None /\ r.discord = None /\ r.bk = None
    BY NoRequestTyped DEF AccountRequest, LoginOp
  <1>2. SetRequest(s, r)
    BY DEF Begin
  <1> HIDE DEF r
  <1>3. HasRead(r)
    BY <1>1 DEF HasRead
  <1> QED BY <1>1, <1>2, <1>3, OneRequest

\* A request that is admitted with a live row, or was only a sign-in.
LEMMA AdmitSound ==
    ASSUME accReq \in [Slots -> AccountRequest], ReadsInOrder,
           NEW s \in Slots, NEW a \in Rows, users'[a] \in Account, Admit(s, a)
    PROVE  /\ accReq' \in [Slots -> AccountRequest] /\ ReadsInOrder'
           /\ accReq'[s].op = "admitted" => accReq'[s].me = a
  <1> DEFINE r == [NoAccountRequest EXCEPT !.op = "admitted", !.me = a,
                                           !.may = users'[a].roles]
  <1>1. users'[a].roles \in SUBSET Roles
    BY AccountTyped
  <1>2. r \in AccountRequest /\ r.op = "admitted" /\ r.me = a
    BY <1>1, NoRequestTyped DEF AccountRequest
  <1>3. CASE accReq[s].callback
    <2>1. Answer(s)
      BY <1>3 DEF Admit
    <2>2. accReq'[s] = NoAccountRequest
      BY <2>1 DEF Answer, SetRequest
    <2> QED BY <2>1, <2>2, AnswerSound, NoRequestTyped
  <1>4. CASE ~accReq[s].callback
    <2>1. SetRequest(s, r)
      BY <1>4 DEF Admit
    <2> HIDE DEF r
    <2>2. HasRead(r)
      BY <1>2 DEF HasRead, LoginOp
    <2>3. accReq'[s] = r
      BY <2>1 DEF SetRequest
    <2> QED BY <1>2, <2>1, <2>2, <2>3, OneRequest
  <1> QED BY <1>3, <1>4

\* What every accepted write of users keeps.
LEMMA AcceptedKeeps ==
    ASSUME Accepted(users'), history' = history
    PROVE  RowsAccepted'
  BY DEF Accepted, RowsAccepted

\* The three reads of a login.
LEMMA ReadsSound ==
    ASSUME AccountsInv, NEW s \in Slots,
           ReadPlatform(s) \/ ReadDiscord(s) \/ ReadBeatKhana(s)
    PROVE  AccountsInv'
  <1>0. /\ accReq \in [Slots -> AccountRequest] /\ ReadsInOrder
        /\ RowsTyped(users) /\ accReq[s] \in AccountRequest
        /\ HasRead(accReq[s])
    BY SMTT(60) DEF AccountsInv, AccountsTypeOK, ReadsInOrder, RowsTyped
  <1>1. UNCHANGED <<users, history, oauth, edits>>
    BY DEF ReadPlatform, ReadDiscord, ReadBeatKhana
  <1>2. CASE ReadPlatform(s)
    <2>1. PICK c \in ReadOf(PlatformRows(accReq[s].token.ids)) :
             SetRequest(s, [accReq[s] EXCEPT
                 !.platform = c,
                 !.op = IF accReq[s].token.person = None THEN "commit"
                                                         ELSE "read_discord"])
      BY <1>2 DEF ReadPlatform
    <2>2. PlatformRows(accReq[s].token.ids) \subseteq Live
      BY DEF PlatformRows
    <2>3. c \in Copy \cup {None}
      BY <1>0, <2>2, ReadTyped
    <2> DEFINE r == [accReq[s] EXCEPT
                 !.platform = c,
                 !.op = IF accReq[s].token.person = None THEN "commit"
                                                         ELSE "read_discord"]
    <2>4. /\ r \in AccountRequest
          /\ r.op = IF r.token.person = None THEN "commit" ELSE "read_discord"
          /\ r.token = accReq[s].token
          /\ r.discord = accReq[s].discord
          /\ r.bk = accReq[s].bk
      BY <1>0, <2>3, ZenonT(60) DEF AccountRequest, LoginOp
    <2>5. SetRequest(s, r)
      BY <2>1
    <2>6. accReq[s].op = "read_platform"
      BY <1>2 DEF ReadPlatform, In
    <2> HIDE DEF r
    <2>7. HasRead(r)
      BY <1>0, <2>4, <2>6 DEF HasRead, LoginOp
    <2>8. accReq' \in [Slots -> AccountRequest] /\ ReadsInOrder'
      BY <1>0, <2>4, <2>5, <2>7, OneRequest
    <2> QED BY <1>1, <2>8 DEF AccountsInv, AccountsTypeOK, RowsAccepted, Accepted
  <1>3. CASE ReadDiscord(s)
    <2>1. PICK c \in ReadOf({a \in Live : users[a].discord = accReq[s].token.person}) :
             SetRequest(s, [accReq[s] EXCEPT !.discord = c, !.op = "read_bk"])
      BY <1>3 DEF ReadDiscord
    <2>2. {a \in Live : users[a].discord = accReq[s].token.person} \subseteq Live
      OBVIOUS
    <2>3. c \in Copy \cup {None}
      BY <1>0, <2>2, ReadTyped
    <2> DEFINE r == [accReq[s] EXCEPT !.discord = c, !.op = "read_bk"]
    <2>4. /\ r \in AccountRequest
          /\ r.op = "read_bk"
          /\ r.token = accReq[s].token
          /\ r.bk = accReq[s].bk
      BY <1>0, <2>3 DEF AccountRequest, LoginOp
    <2>5. SetRequest(s, r)
      BY <2>1
    <2>6. accReq[s].op = "read_discord"
      BY <1>3 DEF ReadDiscord, In
    <2> HIDE DEF r
    <2>7. HasRead(r)
      BY <1>0, <2>4, <2>6 DEF HasRead, LoginOp
    <2>8. accReq' \in [Slots -> AccountRequest] /\ ReadsInOrder'
      BY <1>0, <2>4, <2>5, <2>7, OneRequest
    <2> QED BY <1>1, <2>8 DEF AccountsInv, AccountsTypeOK, RowsAccepted, Accepted
  <1>4. CASE ReadBeatKhana(s)
    <2>1. PICK c \in ReadOf({a \in Live : users[a].bk = accReq[s].token.person}) :
             SetRequest(s, [accReq[s] EXCEPT !.bk = c, !.op = "commit"])
      BY <1>4 DEF ReadBeatKhana
    <2>2. {a \in Live : users[a].bk = accReq[s].token.person} \subseteq Live
      OBVIOUS
    <2>3. c \in Copy \cup {None}
      BY <1>0, <2>2, ReadTyped
    <2> DEFINE r == [accReq[s] EXCEPT !.bk = c, !.op = "commit"]
    <2>4. /\ r \in AccountRequest
          /\ r.op = "commit"
          /\ r.token = accReq[s].token
      BY <1>0, <2>3 DEF AccountRequest, LoginOp
    <2>5. SetRequest(s, r)
      BY <2>1
    <2>6. accReq[s].op = "read_bk"
      BY <1>4 DEF ReadBeatKhana, In
    <2> HIDE DEF r
    <2>7. HasRead(r)
      BY <1>0, <2>4, <2>6 DEF HasRead, LoginOp
    <2>8. accReq' \in [Slots -> AccountRequest] /\ ReadsInOrder'
      BY <1>0, <2>4, <2>5, <2>7, OneRequest
    <2> QED BY <1>1, <2>8 DEF AccountsInv, AccountsTypeOK, RowsAccepted, Accepted
  <1> QED BY <1>2, <1>3, <1>4

\* A login that commits (code: upsertFromBeatKhana, upsertPluginAccount).
LEMMA SignInSound ==
    ASSUME AccountsInv, NEW s \in Slots, SignIn(s)
    PROVE  AccountsInv' /\ (accReq'[s].op = "admitted" =>
                               accReq'[s].me = Canonical(accReq[s]).row)
  <1> DEFINE r == accReq[s]
             a == Canonical(r).row
  <1>0. /\ accReq \in [Slots -> AccountRequest] /\ ReadsInOrder
        /\ RowsTyped(users) /\ r \in AccountRequest /\ HasRead(r)
    BY DEF AccountsInv, AccountsTypeOK, ReadsInOrder, RowsTyped
  <1>1. /\ r.op = "commit" /\ Canonical(r) # None /\ users[a] # None
        /\ users' = IF r.token.person = None THEN users ELSE Merged(r)
        /\ Accepted(users') /\ Admit(s, a)
        /\ history' = history /\ oauth' = oauth /\ edits' = edits
    BY DEF SignIn, In
  <1>2. r.token \in Tokens
    BY <1>0, <1>1 DEF HasRead, LoginOp
  <1> HIDE DEF r
  <1>3. a \in Rows /\ RowsTyped(Merged(r)) /\ Merged(r)[a] \in Account
    BY <1>0, <1>1, <1>2, MergeTyped
  <1>4. RowsTyped(users') /\ users'[a] \in Account
    BY <1>0, <1>1, <1>3 DEF RowsTyped
  <1>5. /\ accReq' \in [Slots -> AccountRequest] /\ ReadsInOrder'
        /\ accReq'[s].op = "admitted" => accReq'[s].me = a
    BY <1>0, <1>1, <1>3, <1>4, AdmitSound
  <1>6. RowsAccepted'
    BY <1>1, AcceptedKeeps
  <1>7. AccountsTypeOK'
    BY <1>1, <1>4, <1>5 DEF AccountsInv, AccountsTypeOK, RowsTyped
  <1> QED BY <1>5, <1>6, <1>7 DEF AccountsInv, r

\* A login of somebody new.
LEMMA SignUpSound ==
    ASSUME AccountsInv, NEW s \in Slots, SignUp(s)
    PROVE  /\ AccountsInv'
           /\ \E a \in Rows :
                /\ users' = [users EXCEPT
                      ![a] = Person(accReq[s].token.person, accReq[s].token.ids, {})]
                /\ accReq'[s].op = "admitted" => accReq'[s].me = a
           /\ accReq[s].op = "commit" /\ accReq[s].token \in Tokens
           /\ Canonical(accReq[s]) = None /\ Accepted(users')
  <1> DEFINE r == accReq[s]
             p == Person(r.token.person, r.token.ids, {})
  <1>0. /\ accReq \in [Slots -> AccountRequest] /\ ReadsInOrder
        /\ RowsTyped(users) /\ r \in AccountRequest /\ HasRead(r)
    BY DEF AccountsInv, AccountsTypeOK, ReadsInOrder, RowsTyped
  <1>1. /\ r.op = "commit" /\ Canonical(r) = None
        /\ history' = history /\ oauth' = oauth /\ edits' = edits
    BY DEF SignUp, In
  <1>2. PICK a \in Unused : /\ users' = [users EXCEPT ![a] = p]
                            /\ Accepted(users') /\ Admit(s, a)
    BY DEF SignUp
  <1>3. r.token \in Tokens
    BY <1>0, <1>1 DEF HasRead, LoginOp
  <1>4. a \in Rows
    BY DEF Unused
  <1>5. p \in Account
    BY <1>3, PersonTyped
  <1>6. RowsTyped(users') /\ users'[a] = p
    BY <1>0, <1>2, <1>4, <1>5 DEF RowsTyped
  <1>7. /\ accReq' \in [Slots -> AccountRequest] /\ ReadsInOrder'
        /\ accReq'[s].op = "admitted" => accReq'[s].me = a
    BY <1>0, <1>2, <1>4, <1>5, <1>6, AdmitSound
  <1>8. RowsAccepted'
    BY <1>1, <1>2, AcceptedKeeps
  <1>9. AccountsInv'
    BY <1>1, <1>6, <1>7, <1>8 DEF AccountsInv, AccountsTypeOK, RowsTyped
  <1> QED BY <1>1, <1>2, <1>3, <1>4, <1>7, <1>9

\* A write of a moderator or an administrator.
LEMMA WriteSound ==
    ASSUME AccountsInv, NEW s \in Slots, NEW a \in Rows,
           NEW row \in Account \cup {None}, Write(s, a, row)
    PROVE  AccountsInv'
  <1>1. accReq' \in [Slots -> AccountRequest] /\ ReadsInOrder'
    BY AnswerSound DEF Write, AccountsInv, AccountsTypeOK
  <1>2. RowsTyped(users')
    BY DEF Write, AccountsInv, AccountsTypeOK, RowsTyped
  <1>3. edits' \in 0..MaxEdits
    BY AccountsAssumption DEF Write, AccountsInv, AccountsTypeOK
  <1>4. RowsAccepted'
    BY AcceptedKeeps DEF Write
  <1> QED BY <1>1, <1>2, <1>3, <1>4
          DEF Write, AccountsInv, AccountsTypeOK, RowsTyped

\* The writes that bans and patches make are rows.
LEMMA EditsSound ==
    ASSUME AccountsInv, NEW s \in Slots, NEW a \in Rows,
           \/ \E banned \in BOOLEAN : SetBan(s, a, banned)
           \/ PatchUser(s, a)
           \/ DeleteUser(s, a)
    PROVE  AccountsInv'
  <1>1. users[a] \in Account \cup {None}
    BY DEF AccountsInv, AccountsTypeOK
  <1>2. ASSUME NEW banned \in BOOLEAN, SetBan(s, a, banned)
        PROVE  AccountsInv'
    <2>1. Write(s, a, [users[a] EXCEPT !.banned = banned]) /\ users[a] # None
      BY <1>2 DEF SetBan, Write
    <2>2. [users[a] EXCEPT !.banned = banned] \in Account
      BY <1>1, <2>1 DEF Account
    <2> QED BY <2>1, <2>2, WriteSound
  <1>3. CASE PatchUser(s, a)
    <2>1. CASE \E roles \in SUBSET Roles : Write(s, a, [users[a] EXCEPT !.roles = roles])
      <3>1. PICK roles \in SUBSET Roles : Write(s, a, [users[a] EXCEPT !.roles = roles])
        BY <2>1
      <3>2. users[a] # None
        BY <3>1 DEF Write
      <3>3. [users[a] EXCEPT !.roles = roles] \in Account
        BY <1>1, <3>2 DEF Account
      <3> QED BY <3>1, <3>3, WriteSound
    <2>2. CASE \E x \in Platforms \cup {None} :
                  Write(s, a, [users[a] EXCEPT !.platform = x])
      <3>1. PICK x \in Platforms \cup {None} :
               Write(s, a, [users[a] EXCEPT !.platform = x])
        BY <2>2
      <3>2. users[a] # None
        BY <3>1 DEF Write
      <3>3. [users[a] EXCEPT !.platform = x] \in Account
        BY <1>1, <3>2 DEF Account
      <3> QED BY <3>1, <3>3, WriteSound
    <2>3. CASE \E p \in People \cup {None} :
                  \/ Write(s, a, [users[a] EXCEPT !.bk = p])
                  \/ Write(s, a, [users[a] EXCEPT !.discord = p])
      <3>1. PICK p \in People \cup {None} :
               \/ Write(s, a, [users[a] EXCEPT !.bk = p])
               \/ Write(s, a, [users[a] EXCEPT !.discord = p])
        BY <2>3
      <3>2. users[a] # None
        BY <3>1 DEF Write
      <3>3. /\ [users[a] EXCEPT !.bk = p] \in Account
            /\ [users[a] EXCEPT !.discord = p] \in Account
        BY <1>1, <3>2 DEF Account
      <3> QED BY <3>1, <3>3, WriteSound
    <2> QED BY <1>3, <2>1, <2>2, <2>3 DEF PatchUser
  <1>4. CASE DeleteUser(s, a)
    BY <1>4, WriteSound DEF DeleteUser
  <1> QED BY <1>2, <1>3, <1>4

-----------------------------------------------------------------------------
(* The invariant.                                                          *)

\* The initial state: the administrator's row.
LEMMA InitSound == AccountsInit => AccountsInv
  <1> SUFFICES ASSUME AccountsInit PROVE AccountsInv
    OBVIOUS
  <1>1. Person(AdminPerson, << >>, Roles) \in Account
    BY AccountsAssumption DEF Person, Account
  <1>2. AccountsTypeOK
    BY <1>1, NoRequestTyped, AccountsAssumption DEF AccountsInit, AccountsTypeOK
  <1>3. ReadsInOrder
    BY NoRequestSound DEF AccountsInit, ReadsInOrder
  <1>4. RowsAccepted
    BY AccountsAssumption DEF AccountsInit, RowsAccepted, Accepted, Person
  <1> QED BY <1>2, <1>3, <1>4 DEF AccountsInv

\* Every step keeps it.
LEMMA NextSound == AccountsInv /\ [AccountsNext]_accountsVars => AccountsInv'
  <1> SUFFICES ASSUME AccountsInv, [AccountsNext]_accountsVars PROVE AccountsInv'
    OBVIOUS
  <1>0. accReq \in [Slots -> AccountRequest] /\ ReadsInOrder
    BY DEF AccountsInv, AccountsTypeOK
  <1>1. ASSUME NEW o \in States, OAuthStart(o) PROVE AccountsInv'
    BY <1>1 DEF OAuthStart, AccountsInv, AccountsTypeOK, ReadsInOrder,
              RowsAccepted, Accepted
  <1>2. ASSUME NEW o \in States, NEW s \in Slots, NEW t \in Granted,
               OAuthCallback(s, o, t)
        PROVE  AccountsInv'
    <2>1. t \in Tokens /\ Begin(s, t, TRUE)
      BY <1>2, AccountsAssumption DEF OAuthCallback
    <2>2. accReq' \in [Slots -> AccountRequest] /\ ReadsInOrder'
      BY <1>0, <2>1, BeginSound
    <2> QED BY <1>2, <2>2
            DEF OAuthCallback, AccountsInv, AccountsTypeOK, RowsAccepted, Accepted
  <1>3. ASSUME NEW s \in Slots, NEW t \in Tokens, BearerToken(s, t)
        PROVE  AccountsInv'
    <2>1. Begin(s, t, FALSE)
      BY <1>3 DEF BearerToken
    <2>2. accReq' \in [Slots -> AccountRequest] /\ ReadsInOrder'
      BY <1>0, <2>1, BeginSound
    <2> QED BY <1>3, <2>2
            DEF BearerToken, AccountsInv, AccountsTypeOK, RowsAccepted, Accepted
  <1>4. ASSUME NEW s \in Slots, ReadPlatform(s) \/ ReadDiscord(s) \/ ReadBeatKhana(s)
        PROVE  AccountsInv'
    BY <1>4, ReadsSound
  <1>5. ASSUME NEW s \in Slots, SignIn(s) PROVE AccountsInv'
    BY <1>5, SignInSound
  <1>6. ASSUME NEW s \in Slots, SignUp(s) PROVE AccountsInv'
    BY <1>6, SignUpSound
  <1>7. ASSUME NEW s \in Slots, SignInGone(s) PROVE AccountsInv'
    <2>1. /\ users' = Cleared(accReq[s]) /\ Accepted(users') /\ Answer(s)
          /\ history' = history /\ oauth' = oauth /\ edits' = edits
      BY <1>7 DEF SignInGone
    <2>2. RowsTyped(users')
      BY <2>1, ClearedTyped DEF AccountsInv, AccountsTypeOK, RowsTyped
    <2>3. accReq' \in [Slots -> AccountRequest] /\ ReadsInOrder'
      BY <1>0, <2>1, AnswerSound
    <2>4. RowsAccepted'
      BY <2>1, AcceptedKeeps
    <2> QED BY <2>1, <2>2, <2>3, <2>4 DEF AccountsInv, AccountsTypeOK, RowsTyped
  <1>8. ASSUME NEW s \in Slots, LoginRefused(s) \/ Finish(s) PROVE AccountsInv'
    <2>1. Answer(s) /\ UNCHANGED <<users, history, oauth, edits>>
      BY <1>8 DEF LoginRefused, Finish
    <2>2. accReq' \in [Slots -> AccountRequest] /\ ReadsInOrder'
      BY <1>0, <2>1, AnswerSound
    <2> QED BY <2>1, <2>2 DEF AccountsInv, AccountsTypeOK, RowsAccepted, Accepted
  <1>9. ASSUME NEW s \in Slots, NEW a \in Rows,
               \/ \E banned \in BOOLEAN : SetBan(s, a, banned)
               \/ PatchUser(s, a)
               \/ DeleteUser(s, a)
        PROVE  AccountsInv'
    BY <1>9, EditsSound
  <1>10. ASSUME NEW a \in Rows, PlayMatch(a) PROVE AccountsInv'
    BY <1>10 DEF PlayMatch, AccountsInv, AccountsTypeOK, ReadsInOrder,
              RowsAccepted, Accepted
  <1>11. CASE UNCHANGED accountsVars
    BY <1>11 DEF accountsVars, AccountsInv, AccountsTypeOK, ReadsInOrder,
              RowsAccepted, Accepted
  <1> QED BY <1>1, <1>2, <1>3, <1>4, <1>5, <1>6, <1>7, <1>8, <1>9, <1>10, <1>11
          DEF AccountsNext

\* AccountsInv is an invariant, whatever overlaps (code: account.service.ts,
\* auth.route.ts, users.route.ts).
THEOREM AccountsInvariance == AccountsSpec => []AccountsInv
  BY InitSound, NextSound, PTL DEF AccountsSpec

\* The rows of users and oauth_states, and what the requests have read, are
\* well typed.
THEOREM AccountsTypeCorrect == AccountsSpec => []AccountsTypeOK
  <1>1. AccountsInv => AccountsTypeOK
    BY DEF AccountsInv
  <1> QED BY <1>1, AccountsInvariance, PTL

-----------------------------------------------------------------------------
(* A login that runs alone.                                                *)

\* A read whose rows are still what they were.
LEMMA ReadFresh ==
    ASSUME RowsTyped(users), NEW A, A \subseteq Live, NEW c \in ReadOf(A)
    PROVE  /\ c = None => A = {}
           /\ c # None => /\ c.row \in A /\ c.row \in Rows
                          /\ users[c.row] \in Account
                          /\ c.was = users[c.row]
  <1>1. c \in Copy \cup {None}
    BY ReadTyped
  <1>2. CASE A = {}
    BY <1>2 DEF ReadOf
  <1>3. CASE A # {}
    <2>1. PICK a \in A : c = [row |-> a, was |-> users[a]]
      BY <1>3 DEF ReadOf
    <2>2. a \in Rows /\ users[a] \in Account
      BY <2>1 DEF RowsTyped, Live
    <2>3. [row |-> a, was |-> users[a]] \in Copy
      BY <2>2 DEF Copy
    <2>4. c # None
      BY <2>1, <2>3, AccountRowsAssumption
    <2> QED BY <2>1, <2>2, <2>4
  <1> QED BY <1>2, <1>3

\* The rows that have the identity of a person (code: the reads by discordId
\* and by beatKhanaGuid).
DiscordRows(p) == {a \in Live : users[a].discord = p}
BeatKhanaRows(p) == {a \in Live : users[a].bk = p}

\* What an undisturbed login has read.
LEMMA UndisturbedReads ==
    ASSUME RowsTyped(users), NEW t \in Tokens, NEW r \in Undisturbed(t)
    PROVE  /\ r \in AccountRequest
           /\ r.token = t
           /\ r.platform \in ReadOf(PlatformRows(t.ids))
           /\ t.person = None => r.discord = None /\ r.bk = None
           /\ t.person # None => /\ r.discord \in ReadOf(DiscordRows(t.person))
                                 /\ r.bk \in ReadOf(BeatKhanaRows(t.person))
  <1> DEFINE D == IF t.person = None THEN {None} ELSE ReadOf(DiscordRows(t.person))
             B == IF t.person = None THEN {None} ELSE ReadOf(BeatKhanaRows(t.person))
             R(x, y, z) == [NoAccountRequest EXCEPT !.op = "commit", !.token = t,
                               !.platform = x, !.discord = y, !.bk = z]
  <1>1. PICK x \in ReadOf(PlatformRows(t.ids)), y \in D, z \in B : r = R(x, y, z)
    BY DEF Undisturbed, DiscordRows, BeatKhanaRows
  <1>2. /\ PlatformRows(t.ids) \subseteq Live
        /\ DiscordRows(t.person) \subseteq Live
        /\ BeatKhanaRows(t.person) \subseteq Live
    BY DEF PlatformRows, DiscordRows, BeatKhanaRows
  <1>3. x \in Copy \cup {None} /\ y \in Copy \cup {None} /\ z \in Copy \cup {None}
    BY <1>2, ReadTyped
  <1>4. /\ R(x, y, z) \in AccountRequest /\ R(x, y, z).token = t
        /\ R(x, y, z).platform = x /\ R(x, y, z).discord = y /\ R(x, y, z).bk = z
    BY <1>3, NoRequestTyped DEF NoAccountRequest, AccountRequest, LoginOp
  <1> QED BY <1>1, <1>4

\* The first platform of a token decides whom the login finds by platform.
LEMMA FirstPlatformDecides ==
    ASSUME RowsTyped(users), NEW t \in Tokens, t.ids # << >>,
           NEW a \in Live, users[a].platform = t.ids[1]
    PROVE  /\ a \in PlatformRows(t.ids)
           /\ \A x \in PlatformRows(t.ids) : users[x].platform = t.ids[1]
  <1>1. t.ids \in Seq(Platforms) /\ 1 \in DOMAIN t.ids /\ DOMAIN t.ids = 1..Len(t.ids)
        /\ Len(t.ids) \in Nat
    BY TokenTyped
  <1>2. a \in PlatformRows(t.ids)
    BY <1>1 DEF PlatformRows
  <1>3. ASSUME NEW x \in PlatformRows(t.ids) PROVE users[x].platform = t.ids[1]
    <2>1. PICK i \in DOMAIN t.ids :
             /\ users[x].platform = t.ids[i]
             /\ \A j \in 1..(i - 1) : \A b \in Live : users[b].platform # t.ids[j]
      BY DEF PlatformRows
    <2>2. i \in Nat /\ i >= 1
      BY <1>1, <2>1
    <2>3. i = 1
      BY <2>1, <2>2
    <2> QED BY <2>1, <2>3
  <1> QED BY <1>2, <1>3

\* Nobody is found: a new row has identities of its own.
LEMMA SignUpAccepted ==
    ASSUME RowsTyped(users), Accepted(users), history \subseteq Rows,
           NEW t \in Tokens, NEW r \in Undisturbed(t), Canonical(r) = None,
           NEW a \in Unused
    PROVE  Accepted([users EXCEPT ![a] = Person(t.person, t.ids, {})])
  <1> DEFINE p == Person(t.person, t.ids, {})
             next == [users EXCEPT ![a] = p]
  <1>1. /\ p \in Account /\ p # None /\ p.bk = t.person /\ p.discord = t.person
        /\ p.platform = IF t.ids = << >> THEN None ELSE t.ids[1]
    BY PersonTyped, AccountTyped DEF Person
  <1>2. r.platform = None /\ r.discord = None /\ r.bk = None
    BY DEF Canonical
  <1>3. /\ PlatformRows(t.ids) = {}
        /\ t.person # None => DiscordRows(t.person) = {} /\ BeatKhanaRows(t.person) = {}
    <2>1. /\ PlatformRows(t.ids) \subseteq Live
          /\ DiscordRows(t.person) \subseteq Live
          /\ BeatKhanaRows(t.person) \subseteq Live
      BY DEF PlatformRows, DiscordRows, BeatKhanaRows
    <2> QED BY <1>2, <2>1, UndisturbedReads, ReadFresh
  <1>4. ASSUME NEW b \in Rows, users[b] # None
        PROVE  /\ t.person # None => users[b].discord # t.person /\ users[b].bk # t.person
               /\ p.platform # None => users[b].platform # p.platform
    <2>1. b \in Live
      BY <1>4 DEF Live
    <2>2. t.person # None => users[b].discord # t.person /\ users[b].bk # t.person
      BY <1>3, <2>1 DEF DiscordRows, BeatKhanaRows
    <2>3. p.platform # None => users[b].platform # p.platform
      BY <1>1, <1>3, <2>1, FirstPlatformDecides
    <2> QED BY <2>2, <2>3
  <1>5. p.discord # None \/ p.platform # None
    BY <1>1, TokenTyped, AccountsAssumption
  <1>6. a \in Rows /\ users[a] = None
    BY DEF Unused, Live
  <1>7. next[a] = p /\ \A b \in Rows : b # a => next[b] = users[b]
    BY <1>6 DEF RowsTyped
  <1> HIDE DEF p, next
  <1>8. ASSUME NEW b \in Rows, next[b] # None
        PROVE  /\ next[b].discord # None \/ next[b].platform # None
               /\ \A c \in Rows : next[c] # None /\ b # c =>
                     /\ next[b].discord = next[c].discord => next[b].discord = None
                     /\ next[b].bk = next[c].bk => next[b].bk = None
                     /\ next[b].platform = next[c].platform => next[b].platform = None
    BY <1>1, <1>4, <1>5, <1>6, <1>7, <1>8 DEF Accepted
  <1>9. \A b \in history : next[b] # None /\ next[b].platform # None
    BY <1>1, <1>6, <1>7 DEF Accepted
  <1> QED BY <1>8, <1>9 DEF Accepted, next, p

\* The rows that a login has found are what they were, and whoever has an
\* identity of its person is among them.
LEMMA FoundAlone ==
    ASSUME RowsTyped(users), NEW t \in Tokens, t.person # None,
           NEW r \in Undisturbed(t)
    PROVE  /\ \A c \in Copies(r) : /\ c.row \in Rows /\ c.was = users[c.row]
                                   /\ users[c.row] \in Account
           /\ \A b \in Live : users[b].discord = t.person => r.discord # None
           /\ \A b \in Live : users[b].bk = t.person => r.bk # None
           /\ r.discord # None => users[r.discord.row].discord = t.person
           /\ r.bk # None => users[r.bk.row].bk = t.person
           /\ r.platform # None => r.platform.row \in PlatformRows(t.ids)
           /\ PlatformRows(t.ids) # {} => r.platform # None
  <1>1. /\ PlatformRows(t.ids) \subseteq Live
        /\ DiscordRows(t.person) \subseteq Live
        /\ BeatKhanaRows(t.person) \subseteq Live
    BY DEF PlatformRows, DiscordRows, BeatKhanaRows
  <1>2. /\ r.platform \in ReadOf(PlatformRows(t.ids))
        /\ r.discord \in ReadOf(DiscordRows(t.person))
        /\ r.bk \in ReadOf(BeatKhanaRows(t.person))
    BY UndisturbedReads
  <1>3. /\ r.platform = None => PlatformRows(t.ids) = {}
        /\ r.platform # None => /\ r.platform.row \in PlatformRows(t.ids)
                                /\ r.platform.row \in Rows
                                /\ users[r.platform.row] \in Account
                                /\ r.platform.was = users[r.platform.row]
    BY <1>1, <1>2, ReadFresh
  <1>4. /\ r.discord = None => DiscordRows(t.person) = {}
        /\ r.discord # None => /\ r.discord.row \in DiscordRows(t.person)
                               /\ r.discord.row \in Rows
                               /\ users[r.discord.row] \in Account
                               /\ r.discord.was = users[r.discord.row]
    BY <1>1, <1>2, ReadFresh
  <1>5. /\ r.bk = None => BeatKhanaRows(t.person) = {}
        /\ r.bk # None => /\ r.bk.row \in BeatKhanaRows(t.person)
                          /\ r.bk.row \in Rows
                          /\ users[r.bk.row] \in Account
                          /\ r.bk.was = users[r.bk.row]
    BY <1>1, <1>2, ReadFresh
  <1>6. \A c \in Copies(r) : /\ c.row \in Rows /\ c.was = users[c.row]
                             /\ users[c.row] \in Account
    BY <1>3, <1>4, <1>5 DEF Copies
  <1> QED BY <1>3, <1>4, <1>5, <1>6 DEF DiscordRows, BeatKhanaRows

\* What a merge leaves of a row that is not the canonical one: without the
\* person's identities, with its platform.
RowLeft(p, old, new) ==
    new # None =>
        /\ old # None
        /\ new.platform = old.platform
        /\ new.discord # p /\ new.discord \in {old.discord, None}
        /\ new.bk # p /\ new.bk \in {old.bk, None}
        /\ new.discord # None \/ new.platform # None

\* The duplicates give the identities up (code: upsertFromBeatKhana).
LEMMA DuplicatesGiveUp ==
    ASSUME RowsTyped(users), Accepted(users), NEW t \in Tokens, t.person # None,
           NEW r \in Undisturbed(t), Canonical(r) # None,
           NEW a \in Rows, a # Canonical(r).row
    PROVE  /\ RowLeft(t.person, users[a], Cleared(r)[a])
           /\ users[a] # None /\ users[a].platform # None => Cleared(r)[a] # None
  <1> DEFINE D == {d \in Duplicates(r) : d.row = a}
             p == t.person
  <1>0. users[a] \in Account \cup {None} /\ r.token = t
    BY UndisturbedReads DEF RowsTyped
  <1>1. ASSUME NEW d \in D
        PROVE  d \in Copies(r) /\ d.was = users[a] /\ users[a] \in Account
    BY FoundAlone DEF Duplicates, Copies
  <1>2. CASE D # {} /\ users[a] # None
    <2>1. PICK d \in D : Cleared(r)[a] = Emptied(d, p, users[a])
      <3>1. (CHOOSE d \in Duplicates(r) : d.row = a) \in D
        BY <1>2
      <3> QED BY <1>0, <1>2, <3>1 DEF Cleared
    <2>2. d.was = users[a] /\ users[a] \in Account
      BY <1>1
    <2> DEFINE e == [users[a] EXCEPT
                        !.discord = IF d.was.discord = p THEN None ELSE @,
                        !.bk = IF d.was.bk = p THEN None ELSE @]
    <2>3. /\ e.platform = users[a].platform
          /\ e.discord = IF users[a].discord = p THEN None ELSE users[a].discord
          /\ e.bk = IF users[a].bk = p THEN None ELSE users[a].bk
          /\ e # None
      BY <2>2, AccountTyped DEF Account
    <2>4. Cleared(r)[a] = IF users[a].platform = None THEN None ELSE e
      BY <2>1, <2>2 DEF Emptied
    <2> HIDE DEF e
    <2> QED BY <1>2, <2>3, <2>4 DEF RowLeft
  <1>3. CASE D = {} \/ users[a] = None
    <2>1. Cleared(r)[a] = users[a]
      BY <1>3 DEF Cleared
    <2>2. ASSUME users[a] # None
          PROVE  users[a].discord # p /\ users[a].bk # p
      <3>1. a \in Live
        BY <2>2 DEF Live
      <3>2. users[a].discord # p
        <4>1. SUFFICES ASSUME users[a].discord = p PROVE FALSE
          OBVIOUS
        <4>2. r.discord # None /\ users[r.discord.row].discord = p
          BY <3>1, <4>1, FoundAlone
        <4>3. r.discord \in Copies(r)
          BY <4>2 DEF Copies
        <4>4. r.discord.row \in Rows /\ users[r.discord.row] \in Account
          BY <4>3, FoundAlone
        <4>5. r.discord.row = a
          BY <2>2, <4>1, <4>2, <4>4, AccountTyped DEF Accepted
        <4>6. r.discord \in Duplicates(r)
          BY <4>2, <4>5 DEF Duplicates
        <4> QED BY <1>3, <2>2, <4>5, <4>6
      <3>3. users[a].bk # p
        <4>1. SUFFICES ASSUME users[a].bk = p PROVE FALSE
          OBVIOUS
        <4>2. r.bk # None /\ users[r.bk.row].bk = p
          BY <3>1, <4>1, FoundAlone
        <4>3. r.bk \in Copies(r)
          BY <4>2 DEF Copies
        <4>4. r.bk.row \in Rows /\ users[r.bk.row] \in Account
          BY <4>3, FoundAlone
        <4>5. r.bk.row = a
          BY <2>2, <4>1, <4>2, <4>4, AccountTyped DEF Accepted
        <4>6. r.discord # None /\ r.discord.row = a =>
                 r.discord.row # Canonical(r).row /\ r.discord \in Duplicates(r)
          BY DEF Duplicates
        <4>7. r.discord # None => r.discord.row = a
          BY <1>3, <2>2, <4>2, <4>5 DEF Duplicates
        <4>8. r.bk \in Duplicates(r) \/ (r.discord # None /\ r.discord.row = a)
          BY <4>2, <4>5, <4>7 DEF Duplicates
        <4> QED BY <1>3, <2>2, <4>5, <4>6, <4>8
      <3> QED BY <3>2, <3>3
    <2>3. users[a] # None => users[a].discord # None \/ users[a].platform # None
      BY DEF Accepted
    <2> QED BY <1>0, <2>1, <2>2, <2>3 DEF RowLeft
  <1> QED BY <1>2, <1>3

\* The platform that a merge writes is no other row's, and is there if the row
\* had one (code: the platform decides first whom the login continues with).
LEMMA PlatformIsFree ==
    ASSUME RowsTyped(users), Accepted(users), NEW t \in Tokens, t.person # None,
           NEW r \in Undisturbed(t), Canonical(r) # None
    PROVE  LET k == Canonical(r).row
               x == PlatformOf(t, users[k].platform) IN
           /\ users[k].platform # None => x # None
           /\ \A a \in Rows : a # k /\ users[a] # None /\ x # None =>
                 users[a].platform # x
  <1> DEFINE k == Canonical(r).row
             x == PlatformOf(t, users[k].platform)
  <1>1. Canonical(r) \in Copies(r) /\ k \in Rows /\ users[k] \in Account
    BY FoundAlone DEF Canonical, Copies
  <1>2. k \in Live /\ users[k].platform \in Platforms \cup {None}
    BY <1>1, AccountTyped DEF Live
  <1>3. t.ids # << >> => t.ids[1] \in Platforms /\ t.ids[1] # None
    BY TokenTyped, AccountsAssumption
  <1>4. x = users[k].platform \/ (t.ids # << >> /\ x = t.ids[1])
    BY TokenTyped DEF PlatformOf, KnownFirst
  <1>5. users[k].platform # None => x # None
    BY <1>3, <1>4
  <1>6. ASSUME NEW a \in Rows, a # k, users[a] # None, x # None,
               users[a].platform = x
        PROVE  FALSE
    <2>1. a \in Live
      BY <1>6 DEF Live
    <2>2. x # users[k].platform
      BY <1>1, <1>2, <1>6, AccountTyped DEF Accepted
    <2>3. t.ids # << >> /\ users[a].platform = t.ids[1]
      BY <1>4, <1>6, <2>2
    <2>4. /\ a \in PlatformRows(t.ids)
          /\ \A y \in PlatformRows(t.ids) : users[y].platform = t.ids[1]
      BY <2>1, <2>3, FirstPlatformDecides
    <2>5. r.platform # None /\ r.platform.row \in PlatformRows(t.ids)
      BY <2>4, FoundAlone
    <2>6. Canonical(r) = r.platform
      BY <2>5 DEF Canonical
    <2>7. users[k].platform = t.ids[1]
      BY <2>4, <2>5, <2>6
    <2> QED BY <1>6, <2>2, <2>3, <2>7
  <1> QED BY <1>5, <1>6

\* Somebody is found: the merge satisfies every constraint.
LEMMA MergeAccepted ==
    ASSUME RowsTyped(users), Accepted(users), history \subseteq Rows,
           NEW t \in Tokens, t.person # None,
           NEW r \in Undisturbed(t), Canonical(r) # None
    PROVE  Accepted(Merged(r))
  <1> DEFINE k == Canonical(r).row
             x == PlatformOf(t, users[k].platform)
             next == Merged(r)
  <1>1. Canonical(r) \in Copies(r) /\ k \in Rows /\ users[k] \in Account
        /\ Canonical(r).was = users[k]
    BY FoundAlone DEF Canonical, Copies
  <1>2. r \in AccountRequest /\ r.token = t
    BY UndisturbedReads
  <1>3. /\ next[k] = MergedRow(r) /\ MergedRow(r) \in Account
        /\ MergedRow(r).bk = t.person /\ MergedRow(r).discord = t.person
    BY <1>2, MergeTyped
  <1>4. MergedRow(r).platform = x
    BY <1>1, <1>2 DEF MergedRow
  <1>5. /\ next[k] # None /\ next[k].bk = t.person /\ next[k].discord = t.person
        /\ next[k].platform = x
    BY <1>3, <1>4, AccountTyped
  <1>6. ASSUME NEW a \in Rows, a # k
        PROVE  /\ RowLeft(t.person, users[a], next[a])
               /\ users[a] # None /\ users[a].platform # None => next[a] # None
    <2>1. next[a] = Cleared(r)[a]
      BY <1>6 DEF Merged, Cleared
    <2> QED BY <1>6, <2>1, DuplicatesGiveUp
  <1>7. /\ users[k].platform # None => x # None
        /\ \A a \in Rows : a # k /\ users[a] # None /\ x # None => users[a].platform # x
    BY PlatformIsFree
  <1>8. users[k] # None
    BY <1>1, AccountTyped
  <1> HIDE DEF next, k, x
  <1>9. ASSUME NEW a \in Rows, next[a] # None
        PROVE  next[a].discord # None \/ next[a].platform # None
    BY <1>5, <1>6, <1>9 DEF RowLeft
  <1>10. ASSUME NEW a \in Rows, NEW b \in Rows, next[a] # None, next[b] # None, a # b
         PROVE  /\ next[a].discord = next[b].discord => next[a].discord = None
                /\ next[a].bk = next[b].bk => next[a].bk = None
                /\ next[a].platform = next[b].platform => next[a].platform = None
    <2>1. CASE a = k
      BY <1>5, <1>6, <1>7, <1>10, <2>1 DEF RowLeft
    <2>2. CASE b = k
      BY <1>5, <1>6, <1>7, <1>10, <2>2 DEF RowLeft
    <2>3. CASE a # k /\ b # k
      BY <1>6, <1>10, <2>3 DEF RowLeft, Accepted
    <2> QED BY <2>1, <2>2, <2>3
  <1>11. ASSUME NEW a \in history PROVE next[a] # None /\ next[a].platform # None
    <2>1. a \in Rows /\ users[a] # None /\ users[a].platform # None
      BY <1>11 DEF Accepted
    <2> QED BY <1>5, <1>6, <1>7, <2>1 DEF RowLeft
  <1>12. Accepted(next)
    BY <1>9, <1>10, <1>11 DEF Accepted
  <1> QED BY <1>12 DEF next

\* A login that runs alone is never refused by the database (code:
\* upsertFromBeatKhana, upsertPluginAccount, users_has_identity and the unique
\* columns of users).
THEOREM LoginsSucceedAlone == AccountsSpec => []LoginAloneSucceeds
  <1>1. AccountsInv => LoginAloneSucceeds
    <2> SUFFICES ASSUME AccountsInv, NEW t \in Tokens, NEW r \in Undisturbed(t)
                 PROVE  /\ Canonical(r) = None =>
                              \A a \in Unused :
                                 Accepted([users EXCEPT ![a] = Person(t.person, t.ids, {})])
                        /\ Canonical(r) # None /\ t.person # None => Accepted(Merged(r))
      BY DEF LoginAloneSucceeds
    <2>1. RowsTyped(users) /\ Accepted(users) /\ history \subseteq Rows
      BY DEF AccountsInv, AccountsTypeOK, RowsTyped, RowsAccepted
    <2>2. Canonical(r) = None =>
             \A a \in Unused : Accepted([users EXCEPT ![a] = Person(t.person, t.ids, {})])
      BY <2>1, SignUpAccepted
    <2>3. Canonical(r) # None /\ t.person # None => Accepted(Merged(r))
      BY <2>1, MergeAccepted
    <2> QED BY <2>2, <2>3
  <1> QED BY <1>1, AccountsInvariance, PTL

-----------------------------------------------------------------------------
(* What a login leaves behind.                                             *)

\* Requests are signed in by the transaction's last step and by nothing else.
LEMMA OnlyCommitsSignIn ==
    ASSUME AccountsInv, AccountsNext, NEW s \in Slots, SignsIn(s)
    PROVE  SignIn(s) \/ SignUp(s)
  <1>1. accReq \in [Slots -> AccountRequest] /\ accReq[s].op = "commit"
    BY DEF AccountsInv, AccountsTypeOK, SignsIn, In
  <1>2. accReq'[s].op = "admitted" /\ accReq' # accReq
    BY <1>1 DEF SignsIn
  <1>3. ASSUME NEW t \in Slots, NEW r, r.op # "admitted", SetRequest(t, r)
        PROVE  FALSE
    <2>1. accReq'[s] = IF s = t THEN r ELSE accReq[s]
      BY <1>1, <1>3 DEF SetRequest
    <2> QED BY <1>1, <1>2, <1>3, <2>1
  <1>4. ASSUME NEW t \in Slots, Answer(t) PROVE FALSE
    BY <1>3, <1>4, NoRequestTyped DEF Answer
  <1>5. ASSUME NEW t \in Slots, NEW token, NEW callback \in BOOLEAN,
               Begin(t, token, callback)
        PROVE  FALSE
    <2> DEFINE r == [NoAccountRequest EXCEPT !.op = "read_platform",
                                  !.token = token, !.callback = callback]
    <2>1. r.op = "read_platform" /\ SetRequest(t, r)
      BY <1>5 DEF Begin, NoAccountRequest
    <2> HIDE DEF r
    <2> QED BY <1>3, <2>1
  <1>6. ASSUME NEW t \in Slots, ReadPlatform(t) PROVE FALSE
    <2>1. PICK c : SetRequest(t, [accReq[t] EXCEPT !.platform = c,
                     !.op = IF accReq[t].token.person = None THEN "commit"
                                                             ELSE "read_discord"])
      BY <1>6 DEF ReadPlatform
    <2> DEFINE r == [accReq[t] EXCEPT !.platform = c,
                     !.op = IF accReq[t].token.person = None THEN "commit"
                                                             ELSE "read_discord"]
    <2>2. r.op # "admitted"
      BY <1>1 DEF AccountRequest
    <2>3. SetRequest(t, r)
      BY <2>1
    <2> HIDE DEF r
    <2> QED BY <1>3, <2>2, <2>3
  <1>7. ASSUME NEW t \in Slots, ReadDiscord(t) PROVE FALSE
    <2>1. PICK c : SetRequest(t, [accReq[t] EXCEPT !.discord = c, !.op = "read_bk"])
      BY <1>7 DEF ReadDiscord
    <2> DEFINE r == [accReq[t] EXCEPT !.discord = c, !.op = "read_bk"]
    <2>2. r.op # "admitted"
      BY <1>1 DEF AccountRequest
    <2>3. SetRequest(t, r)
      BY <2>1
    <2> HIDE DEF r
    <2> QED BY <1>3, <2>2, <2>3
  <1>8. ASSUME NEW t \in Slots, ReadBeatKhana(t) PROVE FALSE
    <2>1. PICK c : SetRequest(t, [accReq[t] EXCEPT !.bk = c, !.op = "commit"])
      BY <1>8 DEF ReadBeatKhana
    <2> DEFINE r == [accReq[t] EXCEPT !.bk = c, !.op = "commit"]
    <2>2. r.op # "admitted"
      BY <1>1 DEF AccountRequest
    <2>3. SetRequest(t, r)
      BY <2>1
    <2> HIDE DEF r
    <2> QED BY <1>3, <2>2, <2>3
  <1>9. ASSUME NEW t \in Slots, NEW a, Admit(t, a) PROVE t = s
    <2>1. \E r : SetRequest(t, r)
      BY <1>9 DEF Admit, Answer
    <2> QED BY <1>1, <1>2, <2>1 DEF SetRequest
  <1>10. ASSUME NEW t \in Slots, NEW a \in Rows,
                \/ \E banned \in BOOLEAN : SetBan(t, a, banned)
                \/ PatchUser(t, a)
                \/ DeleteUser(t, a)
         PROVE  FALSE
    <2>1. Answer(t)
      BY <1>10 DEF SetBan, PatchUser, DeleteUser, Write
    <2> QED BY <1>4, <2>1
  <1>11. ASSUME NEW t \in Slots, SignIn(t) \/ SignUp(t) PROVE t = s
    <2>1. \E a : Admit(t, a)
      BY <1>11 DEF SignIn, SignUp
    <2> QED BY <1>9, <2>1
  <1>12. ASSUME NEW t \in Slots, SignInGone(t) \/ LoginRefused(t) \/ Finish(t)
         PROVE  FALSE
    <2>1. Answer(t)
      BY <1>12 DEF SignInGone, LoginRefused, Finish
    <2> QED BY <1>4, <2>1
  <1>13. ASSUME NEW o \in States, OAuthStart(o) PROVE FALSE
    BY <1>2, <1>13 DEF OAuthStart
  <1>14. ASSUME NEW o \in States, NEW t \in Slots, NEW token \in Granted,
                OAuthCallback(t, o, token)
         PROVE  FALSE
    BY <1>5, <1>14 DEF OAuthCallback
  <1>15. ASSUME NEW t \in Slots, NEW token \in Tokens, BearerToken(t, token)
         PROVE  FALSE
    BY <1>5, <1>15 DEF BearerToken
  <1>16. ASSUME NEW a \in Rows, PlayMatch(a) PROVE FALSE
    BY <1>2, <1>16 DEF PlayMatch
  <1>17. \E t \in Slots : SignIn(t) \/ SignUp(t)
    BY <1>6, <1>7, <1>8, <1>10, <1>12, <1>13, <1>14, <1>15, <1>16 DEF AccountsNext
  <1> QED BY <1>11, <1>17

\* What the logins have read is still in the rows.
FreshCopies == \A s \in Slots : \A c \in Copies(accReq[s]) : c.was = users[c.row]

\* An idle request, and one that has been admitted, have no copies.
LEMMA NothingCopied ==
    ASSUME NEW s \in Slots, accReq \in [Slots -> AccountRequest],
           \/ Answer(s)
           \/ \E a : Admit(s, a)
           \/ \E t, callback : Begin(s, t, callback)
    PROVE  Copies(accReq'[s]) = {}
  <1>1. ASSUME NEW r, SetRequest(s, r),
               r.platform = None, r.discord = None, r.bk = None
        PROVE  Copies(accReq'[s]) = {}
    <2>1. accReq'[s] = r
      BY <1>1 DEF SetRequest
    <2> QED BY <1>1, <2>1 DEF Copies
  <1>2. CASE Answer(s)
    BY <1>1, <1>2, NoRequestTyped DEF Answer
  <1>3. ASSUME NEW a, Admit(s, a) PROVE Copies(accReq'[s]) = {}
    <2> DEFINE r == [NoAccountRequest EXCEPT !.op = "admitted", !.me = a,
                                             !.may = users'[a].roles]
    <2>1. CASE accReq[s].callback
      BY <1>2, <1>3, <2>1 DEF Admit
    <2>2. CASE ~accReq[s].callback
      <3>1. SetRequest(s, r)
        BY <1>3, <2>2 DEF Admit
      <3>2. r.platform = None /\ r.discord = None /\ r.bk = None
        BY DEF NoAccountRequest
      <3> HIDE DEF r
      <3> QED BY <1>1, <3>1, <3>2
    <2> QED BY <2>1, <2>2
  <1>4. ASSUME NEW t, NEW callback, Begin(s, t, callback)
        PROVE  Copies(accReq'[s]) = {}
    <2> DEFINE r == [NoAccountRequest EXCEPT !.op = "read_platform", !.token = t,
                                             !.callback = callback]
    <2>1. SetRequest(s, r)
      BY <1>4 DEF Begin
    <2>2. r.platform = None /\ r.discord = None /\ r.bk = None
      BY DEF NoAccountRequest
    <2> HIDE DEF r
    <2> QED BY <1>1, <2>1, <2>2
  <1> QED BY <1>2, <1>3, <1>4

\* A read copies what is in the row.
LEMMA ReadsAreFresh ==
    ASSUME AccountsInv, FreshCopies, NEW s \in Slots,
           ReadPlatform(s) \/ ReadDiscord(s) \/ ReadBeatKhana(s)
    PROVE  FreshCopies'
  <1>0. /\ RowsTyped(users) /\ accReq \in [Slots -> AccountRequest]
        /\ accReq[s] \in AccountRequest
    BY DEF AccountsInv, AccountsTypeOK, RowsTyped
  <1>1. ASSUME NEW A, A \subseteq Live, NEW c \in ReadOf(A), c # None
        PROVE  c.was = users[c.row]
    BY <1>0, <1>1, ReadFresh
  <1>2. users' = users
    BY DEF ReadPlatform, ReadDiscord, ReadBeatKhana
  <1>3. PICK c : /\ c # None => c.was = users[c.row]
                 /\ Copies(accReq'[s]) \subseteq Copies(accReq[s]) \cup {c}
                 /\ \A t \in Slots : t # s => accReq'[t] = accReq[t]
    <2>1. CASE ReadPlatform(s)
      <3>1. PICK c \in ReadOf(PlatformRows(accReq[s].token.ids)) :
               SetRequest(s, [accReq[s] EXCEPT
                   !.platform = c,
                   !.op = IF accReq[s].token.person = None THEN "commit"
                                                           ELSE "read_discord"])
        BY <2>1 DEF ReadPlatform
      <3>2. PlatformRows(accReq[s].token.ids) \subseteq Live
        BY DEF PlatformRows
      <3>3. /\ accReq'[s].platform = c /\ accReq'[s].discord = accReq[s].discord
            /\ accReq'[s].bk = accReq[s].bk
            /\ \A t \in Slots : t # s => accReq'[t] = accReq[t]
        BY <1>0, <3>1 DEF SetRequest, AccountRequest
      <3> QED BY <1>1, <3>2, <3>3 DEF Copies
    <2>2. CASE ReadDiscord(s)
      <3>1. PICK c \in ReadOf({a \in Live : users[a].discord = accReq[s].token.person}) :
               SetRequest(s, [accReq[s] EXCEPT !.discord = c, !.op = "read_bk"])
        BY <2>2 DEF ReadDiscord
      <3>2. /\ accReq'[s].platform = accReq[s].platform /\ accReq'[s].discord = c
            /\ accReq'[s].bk = accReq[s].bk
            /\ \A t \in Slots : t # s => accReq'[t] = accReq[t]
        BY <1>0, <3>1 DEF SetRequest, AccountRequest
      <3> QED BY <1>1, <3>2 DEF Copies
    <2>3. CASE ReadBeatKhana(s)
      <3>1. PICK c \in ReadOf({a \in Live : users[a].bk = accReq[s].token.person}) :
               SetRequest(s, [accReq[s] EXCEPT !.bk = c, !.op = "commit"])
        BY <2>3 DEF ReadBeatKhana
      <3>2. /\ accReq'[s].platform = accReq[s].platform
            /\ accReq'[s].discord = accReq[s].discord
            /\ accReq'[s].bk = c
            /\ \A t \in Slots : t # s => accReq'[t] = accReq[t]
        BY <1>0, <3>1 DEF SetRequest, AccountRequest
      <3> QED BY <1>1, <3>2 DEF Copies
    <2> QED BY <2>1, <2>2, <2>3
  <1>4. ASSUME NEW t \in Slots, NEW d \in Copies(accReq'[t])
        PROVE  d.was = users[d.row]
    <2>1. CASE t # s
      BY <1>3, <1>4, <2>1 DEF FreshCopies
    <2>2. CASE t = s
      <3>1. d # None
        BY <1>4 DEF Copies
      <3>2. d \in Copies(accReq[s]) \/ d = c
        BY <1>3, <1>4, <2>2
      <3> QED BY <1>3, <3>1, <3>2 DEF FreshCopies
    <2> QED BY <2>1, <2>2
  <1> QED BY <1>2, <1>4 DEF FreshCopies, Copies

\* While there is one request at a time, nobody changes a row that it has read.
LEMMA FreshSound ==
    ASSUME \A s, t \in Slots : s = t, AccountsInv, FreshCopies,
           [AccountsNext]_accountsVars
    PROVE  FreshCopies'
  <1>0. accReq \in [Slots -> AccountRequest]
    BY DEF AccountsInv, AccountsTypeOK
  <1>1. ASSUME NEW s \in Slots,
               \/ Answer(s)
               \/ \E a : Admit(s, a)
               \/ \E t, callback : Begin(s, t, callback)
        PROVE  FreshCopies'
    <2>1. Copies(accReq'[s]) = {}
      BY <1>0, <1>1, NothingCopied
    <2>2. \A t \in Slots : Copies(accReq'[t]) = {}
      <3> SUFFICES ASSUME NEW t \in Slots PROVE Copies(accReq'[t]) = {}
        OBVIOUS
      <3>1. t = s
        OBVIOUS
      <3> QED BY <2>1, <3>1
    <2> QED BY <2>2 DEF FreshCopies, Copies
  <1>2. ASSUME UNCHANGED <<users, accReq>> PROVE FreshCopies'
    BY <1>2 DEF FreshCopies, Copies
  <1>3. ASSUME NEW o \in States, OAuthStart(o) PROVE FreshCopies'
    BY <1>2, <1>3 DEF OAuthStart
  <1>4. ASSUME NEW s \in Slots, NEW o, NEW t,
               OAuthCallback(s, o, t) \/ BearerToken(s, t)
        PROVE  FreshCopies'
    BY <1>1, <1>4 DEF OAuthCallback, BearerToken
  <1>5. ASSUME NEW s \in Slots, ReadPlatform(s) \/ ReadDiscord(s) \/ ReadBeatKhana(s)
        PROVE  FreshCopies'
    BY <1>5, ReadsAreFresh
  <1>6. ASSUME NEW s \in Slots, SignIn(s) \/ SignUp(s) PROVE FreshCopies'
    BY <1>1, <1>6 DEF SignIn, SignUp
  <1>7. ASSUME NEW s \in Slots, SignInGone(s) \/ LoginRefused(s) \/ Finish(s)
        PROVE  FreshCopies'
    BY <1>1, <1>7 DEF SignInGone, LoginRefused, Finish
  <1>8. ASSUME NEW s \in Slots, NEW a,
               \/ \E banned \in BOOLEAN : SetBan(s, a, banned)
               \/ PatchUser(s, a)
               \/ DeleteUser(s, a)
        PROVE  FreshCopies'
    <2>1. Answer(s)
      BY <1>8 DEF SetBan, PatchUser, DeleteUser, Write
    <2> QED BY <1>1, <2>1
  <1>9. ASSUME NEW a, PlayMatch(a) PROVE FreshCopies'
    BY <1>2, <1>9 DEF PlayMatch
  <1>10. CASE UNCHANGED accountsVars
    BY <1>2, <1>10 DEF accountsVars
  <1> QED BY <1>3, <1>4, <1>5, <1>6, <1>7, <1>8, <1>9, <1>10 DEF AccountsNext

\* What a login has read is among the rows whose roles and bans are kept, if
\* what it has read of one row is one thing.
LEMMA CopiesAreAsked ==
    ASSUME NEW r \in AccountRequest, NEW c \in Copies(r),
           \A d \in Copies(r) : d.row = c.row => d.was = c.was
    PROVE  /\ Canonical(r) # None
           /\ \E d \in Authorities(r) : d.row = c.row /\ d.was = c.was
  <1>1. c \in {r.platform, r.discord, r.bk} /\ c # None
    BY DEF Copies
  <1>2. Canonical(r) # None /\ Canonical(r) \in Copies(r)
    BY <1>1, CopiesTyped DEF Canonical
  <1>4. CASE c.row = Canonical(r).row
    BY <1>2, <1>4 DEF Authorities
  <1>5. CASE c.row # Canonical(r).row
    <2>1. c # r.platform
      BY <1>1, <1>5 DEF Canonical
    <2>2. c \in {r.discord, r.bk} \ {None}
      BY <1>1, <2>1
    <2>3. CASE c \in Duplicates(r)
      BY <1>2, <2>3 DEF Authorities
    <2>4. CASE c \notin Duplicates(r)
      <3>1. /\ c = r.bk /\ r.discord # None
            /\ r.discord.row = c.row /\ r.discord # c
        BY <1>5, <2>2, <2>4 DEF Duplicates
      <3>2. r.discord \in Duplicates(r)
        BY <1>5, <3>1 DEF Duplicates
      <3>3. r.discord \in Copies(r)
        BY <3>1 DEF Copies
      <3> QED BY <1>2, <3>1, <3>2, <3>3 DEF Authorities
    <2> QED BY <2>3, <2>4
  <1> QED BY <1>2, <1>4, <1>5

\* While requests come one after another, the account that remains has the roles
\* and bans of the rows that the login has found (code: mergeLocalAuthorization
\* and "must survive every login and token validation").
THEOREM MergesKeepAuthorization ==
    ASSUME \A s, t \in Slots : s = t
    PROVE  AccountsSpec => AuthorizationSurvivesLogins
  <1>1. AccountsInit => FreshCopies
    BY NoRequestTyped DEF AccountsInit, FreshCopies, Copies
  <1>2. AccountsInv /\ FreshCopies /\ [AccountsNext]_accountsVars => FreshCopies'
    BY FreshSound
  <1>3. AccountsInv /\ FreshCopies /\ [AccountsNext]_accountsVars =>
           [\A s \in Slots : SignsIn(s) =>
              \A c \in Copies(accReq[s]) : users[c.row] # None =>
                 /\ users[c.row].roles \subseteq users'[SignedIn(s)].roles
                 /\ users[c.row].banned => users'[SignedIn(s)].banned]_accountsVars
    <2> SUFFICES ASSUME AccountsInv, FreshCopies, AccountsNext, NEW s \in Slots,
                        SignsIn(s), NEW c \in Copies(accReq[s])
                 PROVE  /\ users[c.row].roles \subseteq users'[SignedIn(s)].roles
                        /\ users[c.row].banned => users'[SignedIn(s)].banned
      OBVIOUS
    <2> DEFINE r == accReq[s]
    <2>1. /\ RowsTyped(users) /\ r \in AccountRequest /\ HasRead(r)
          /\ r.op = "commit" /\ r.token \in Tokens /\ accReq'[s].op = "admitted"
      BY DEF AccountsInv, AccountsTypeOK, RowsTyped, SignsIn, In,
             ReadsInOrder, HasRead, LoginOp
    <2>2. c.was = users[c.row] /\ \A d \in Copies(r) : d.row = c.row => d.was = c.was
      BY DEF FreshCopies
    <2>3. /\ Canonical(r) # None
          /\ \E d \in Authorities(r) : d.row = c.row /\ d.was = c.was
      BY <2>1, <2>2, CopiesAreAsked
    <2>4. SignIn(s)
      BY <2>3, OnlyCommitsSignIn DEF SignUp
    <2>5. /\ users' = IF r.token.person = None THEN users ELSE Merged(r)
          /\ SignedIn(s) = Canonical(r).row
      BY <2>1, <2>4, SignInSound DEF SignIn, SignedIn
    <2>6. CASE r.token.person = None
      <3>1. r.discord = None /\ r.bk = None
        BY <2>1, <2>6 DEF HasRead
      <3>2. c = r.platform /\ c # None
        BY <3>1 DEF Copies
      <3>3. Canonical(r) = c
        BY <3>2 DEF Canonical
      <3>4. users[c.row] = users'[SignedIn(s)]
        BY <2>5, <2>6, <3>3
      <3> QED BY <3>4
    <2>7. CASE r.token.person # None
      <3>1. PICK d \in Authorities(r) : d.row = c.row /\ d.was = c.was
        BY <2>3
      <3>2. users'[SignedIn(s)] = MergedRow(r)
        BY <2>1, <2>3, <2>5, <2>7, MergeTyped
      <3>3. /\ d.was.roles \subseteq MergedRow(r).roles
            /\ d.was.banned => MergedRow(r).banned
        BY <2>1, <2>3, <3>1, MergeTyped
      <3> QED BY <2>2, <3>1, <3>2, <3>3
    <2> QED BY <2>6, <2>7
  <1> QED BY <1>1, <1>2, <1>3, AccountsInvariance, PTL
          DEF AccountsSpec, AuthorizationSurvivesLogins
=============================================================================
