-------------------------------- MODULE Accounts --------------------------------
(***************************************************************************)
(* Accounts and sessions of the panel: panel/app/auth.py, the routers       *)
(* auth_views.py, account.py and users.py, the users page of views.py, the  *)
(* installer's first account (modules/40-panel.sh) and `install.sh --reset`. *)
(* Requests run in threads over one database connection: what a handler     *)
(* reads before its transaction, the write, the COMMIT and what it does     *)
(* after that are steps of their own. Other threads read the write before   *)
(* its COMMIT; the installer and --reset, which are other processes, do not.*)
(***************************************************************************)
EXTENDS Naturals, FiniteSets

CONSTANTS
    Names,     \* user names
    Admin,     \* the one the installer creates
    Threads,   \* of the panel's pool
    MaxPw,     \* bound: passwords ever made
    MaxStops,  \* bound: times the panel or the installer stops half way
    NoUser,    \* no such row
    NoPw,      \* a message that shows no password
    NoThread,  \* nobody has the transaction
    Idle       \* a thread without a request

ASSUME AdminAssumption == Admin \in Names
ASSUME BoundsAssumption == MaxPw \in Nat /\ MaxStops \in Nat
ASSUME NullAssumption ==
    NoPw \notin Nat /\ NoUser \notin [pw : Nat, v : Nat] /\ NoThread \notin Threads

VARIABLES
    users,     \* name -> row, as the panel's connection reads it
    stored,    \* the same as committed: what survives and others read
    writer,    \* the thread whose transaction is open
    made,      \* passwords made so far are 1..made
    known,     \* those somebody has typed or been shown
    cookies,   \* every session token handed out
    secrets,   \* session secrets made so far; the last one signs
    panel,     \* "absent" until installed, then "down" or "up"
    req,       \* the request each thread serves
    flash,     \* the password app.state.users_flash shows
    install,   \* the next step of 40-panel.sh or of --reset
    bootPw,    \* the password it has given the first account and not shown
    stops

\* history
VARIABLES
    revoked,   \* tokens outstanding when their user's password was changed
    spared,    \* tokens that the last change of the password does not end
    reborn,    \* names whose row was deleted: their versions start again
    orphaned,  \* an account went (deleted, or its creation rolled back)
               \* while a delete of its own was running
    dropped    \* passwords whose only copy was overwritten or lost in a stop

setup   == <<install, bootPw>>
service == <<panel, secrets, setup, stops>>
tables  == <<users, stored, writer>>
history == <<revoked, spared, reborn, orphaned, dropped>>
vars    == <<tables, made, known, cookies, req, flash, service, history>>

Passwords == 1..MaxPw
Row       == [pw : Passwords, v : Nat]
Users     == {u \in Names : users[u] # NoUser}
Stored    == {u \in Names : stored[u] # NoUser}
Token     == [u : Names, v : Nat, s : {0, 1}]
Writing   == {"change", "create", "delete", "reset"}
Ops       == Writing \cup {"issue", "reissue", "answer", "flash", "clear"}
Request   == [op : Ops, u : Names, x : Names, pw : Passwords \cup {NoPw}, v : Nat]

ASSUME IdleAssumption == Idle \notin Request

Init ==
    /\ users = [u \in Names |-> NoUser] /\ stored = users /\ writer = NoThread
    /\ made = 0
    /\ known = {} /\ cookies = {}
    /\ secrets = 0
    /\ panel = "absent"
    /\ req = [t \in Threads |-> Idle]
    /\ flash = NoPw
    /\ install = "none" /\ bootPw = NoPw
    /\ stops = 0
    /\ revoked = {} /\ spared = {} /\ reborn = {} /\ orphaned = FALSE /\ dropped = {}

(* require_user: the row is there, with the token's version.                *)
Valid(c) == c.s = secrets /\ users[c.u] # NoUser /\ users[c.u].v = c.v

Begins(t, op, u, x, pw) ==
    /\ panel = "up"
    /\ req[t] = Idle
    /\ req' = [req EXCEPT ![t] = [op |-> op, u |-> u, x |-> x, pw |-> pw, v |-> 0]]

Serves(t, op) == req[t] # Idle /\ req[t].op = op

Goes(t, op, pw) == req' = [req EXCEPT ![t].op = op, ![t].pw = pw]
Returns(t)      == req' = [req EXCEPT ![t] = Idle]

(* A password that is generated, or that somebody types.                    *)
Generates(pw) == made < MaxPw /\ pw = made + 1 /\ made' = pw
Types(pw)     == Generates(pw) /\ known' = known \cup {pw}

Only(pw) == {pw} \ {NoPw}

--------------------------------------------------------------------------------
(* Plausible mistakes, used to show what the properties see. *)

(* The version is left alone. *)
RotatedKeepsVersion(row, pw) == IF row = NoUser THEN NoUser ELSE [row EXCEPT !.pw = pw]

(* A secret of its own for every boot. *)
SecretPerBoot(old) == old + 1

(* The count is compared, the name is not. *)
MayDeleteSelf(u, x) == Cardinality(Users) > 1

(* The first message stays until it has been read. *)
FlashKeepsFirst(t) ==
    /\ Serves(t, "flash")
    /\ flash' = IF flash = NoPw THEN req[t].pw ELSE flash
    /\ Returns(t)
    /\ UNCHANGED <<tables, made, known, cookies, service, history>>

--------------------------------------------------------------------------------
(* db.transaction: BEGIN, one statement on the row of x and an audit row,   *)
(* then COMMIT. BEGIN fails inside the transaction of another thread.       *)
Writes(t, op, row) ==
    /\ Serves(t, op)
    /\ writer = NoThread /\ writer' = t
    /\ users' = [users EXCEPT ![req[t].x] = row]
    /\ UNCHANGED <<stored, made, known, cookies, req, flash, service, history>>

(* The request fails before its statement has taken effect: BEGIN refused   *)
(* (by a transaction of any router), the name taken, the row locked.        *)
Refused(t) ==
    /\ \E op \in Writing : Serves(t, op)
    /\ writer # t
    /\ Returns(t)
    /\ UNCHANGED <<tables, made, known, cookies, flash, service, history>>

DeleteRuns(x, t) == \E r \in Threads \ {t} : Serves(r, "delete") /\ req[r].u = x

(* ROLLBACK, after the audit row or the COMMIT failed.                      *)
Rollback(t) ==
    /\ writer = t /\ writer' = NoThread
    /\ users' = stored
    /\ Returns(t)
    /\ orphaned' = (orphaned \/ (req[t].op = "create" /\ DeleteRuns(req[t].x, t)))
    /\ UNCHANGED <<stored, made, known, cookies, flash, service,
                   revoked, spared, reborn, dropped>>

Commits(t, op, next, pw) ==
    /\ writer = t /\ Serves(t, op)
    /\ writer' = NoThread
    /\ stored' = users
    /\ Goes(t, next, pw)
    /\ UNCHANGED <<users, made, known, cookies, flash, service, dropped>>

(* UPDATE users SET pw_hash, pw_version = pw_version + 1 WHERE username     *)
Rotated(row, pw) == IF row = NoUser THEN NoUser ELSE [pw |-> pw, v |-> row.v + 1]

Outstanding(u) == {c \in cookies : c.u = u /\ users[u] # NoUser}

(* The change ends what was outstanding; of what an earlier one left over   *)
(* only a token that was read ahead, at this very version, goes on.         *)
Revokes(u) ==
    /\ revoked' = revoked \cup Outstanding(u)
    /\ spared' = {c \in spared : c.u = u /\ users[u] # NoUser => c.v = users[u].v}
    /\ UNCHANGED <<reborn, orphaned>>
--------------------------------------------------------------------------------
(* POST /login: the password is checked, then the version is read, then the *)
(* token is handed out.                                                     *)
Login(t, u) ==
    /\ users[u] # NoUser /\ users[u].pw \in known
    /\ Begins(t, "issue", u, u, NoPw)
    /\ UNCHANGED <<tables, made, known, cookies, flash, service, history>>

(* A version read from a row that another thread has not committed.         *)
Ahead(u, v) ==
    {c \in {[u |-> u, v |-> v, s |-> secrets]} : users[u] \notin {NoUser, stored[u]}}

Reads(t, v) ==
    /\ req' = [req EXCEPT ![t].op = "answer", ![t].v = v]
    /\ spared' = spared \cup Ahead(req[t].u, v)

Issue(t) ==
    /\ Serves(t, "issue")
    /\ LET row == users[req[t].u]
       IN  Reads(t, IF row = NoUser THEN 0 ELSE row.v)
    /\ UNCHANGED <<tables, made, known, cookies, flash, service,
                   revoked, reborn, orphaned, dropped>>

(* set_cookie, of a login or of a changed password.                         *)
HandOut(t) ==
    /\ Serves(t, "answer")
    /\ cookies' = cookies \cup {[u |-> req[t].u, v |-> req[t].v, s |-> secrets]}
    /\ Returns(t)
    /\ UNCHANGED <<tables, made, known, flash, service, history>>

(* POST /me/password, with the right current password.                      *)
Change(t, c, pw) ==
    /\ users[c.u].pw \in known
    /\ Begins(t, "change", c.u, c.u, pw)
    /\ Types(pw)
    /\ UNCHANGED <<tables, cookies, flash, service, history>>

ChangeTx(t) == Writes(t, "change", Rotated(users[req[t].x], req[t].pw))

ChangeCommit(t) ==
    /\ Commits(t, "change", "reissue", NoPw)
    /\ Revokes(req[t].x)

(* The version is read again. A row that is gone makes the request fail.    *)
Reissue(t) ==
    /\ Serves(t, "reissue")
    /\ IF users[req[t].u] = NoUser
         THEN Returns(t) /\ UNCHANGED spared
         ELSE Reads(t, users[req[t].u].v)
    /\ UNCHANGED <<tables, made, known, cookies, flash, service,
                   revoked, reborn, orphaned, dropped>>

(* POST /users *)
Create(t, c, x, pw) ==
    /\ users[x] = NoUser
    /\ Begins(t, "create", c.u, x, pw)
    /\ Types(pw)
    /\ UNCHANGED <<tables, cookies, flash, service, history>>

FirstVersion == 0

CreateTx(t) ==
    /\ Serves(t, "create") /\ users[req[t].x] = NoUser
    /\ Writes(t, "create", [pw |-> req[t].pw, v |-> FirstVersion])

CreateCommit(t) ==
    /\ Commits(t, "create", "flash", NoPw)
    /\ UNCHANGED <<revoked, spared, reborn, orphaned>>

(* POST /users/{username}/delete: not yourself, not the last one.           *)
MayDelete(u, x) == x # u /\ Cardinality(Users) > 1

Delete(t, c, x) ==
    /\ MayDelete(c.u, x)
    /\ Begins(t, "delete", c.u, x, NoPw)
    /\ UNCHANGED <<tables, made, known, cookies, flash, service, history>>

DeleteTx(t) == Writes(t, "delete", NoUser)

DeleteCommit(t) ==
    /\ Commits(t, "delete", "flash", NoPw)
    /\ reborn' = reborn \cup ({req[t].x} \cap Stored)
    /\ orphaned' = (orphaned \/
         (req[t].x \in Stored \ {req[t].u} /\ DeleteRuns(req[t].x, t)))
    /\ UNCHANGED <<revoked, spared>>

(* POST /users/{username}/reset-password *)
Reset(t, c, x, pw) ==
    /\ users[x] # NoUser
    /\ Begins(t, "reset", c.u, x, pw)
    /\ Generates(pw)
    /\ UNCHANGED <<tables, known, cookies, flash, service, history>>

ResetTx(t) == Writes(t, "reset", Rotated(users[req[t].x], req[t].pw))

ResetCommit(t) ==
    /\ Commits(t, "reset", "flash", req[t].pw)
    /\ Revokes(req[t].x)

(* Any request of users.py that is refused leaves a message too.            *)
Refuse(t, c) ==
    /\ Begins(t, "flash", c.u, c.u, NoPw)
    /\ UNCHANGED <<tables, made, known, cookies, flash, service, history>>

(* _flash: one slot for all sessions.                                       *)
Flash(t) ==
    /\ Serves(t, "flash")
    /\ flash' = req[t].pw
    /\ dropped' = dropped \cup Only(flash)
    /\ Returns(t)
    /\ UNCHANGED <<tables, made, known, cookies, service, revoked, spared, reborn, orphaned>>

(* GET /users: reads the message, then clears the slot.                     *)
UsersPage(t, c) ==
    /\ Begins(t, "clear", c.u, c.u, flash)
    /\ UNCHANGED <<tables, made, known, cookies, flash, service, history>>

Clear(t) ==
    /\ Serves(t, "clear")
    /\ known' = known \cup Only(req[t].pw)
    /\ dropped' = dropped \cup (Only(flash) \ {req[t].pw})
    /\ flash' = NoPw
    /\ Returns(t)
    /\ UNCHANGED <<tables, made, cookies, service, revoked, spared, reborn, orphaned>>
--------------------------------------------------------------------------------
(* create_app: the secret of the first boot is kept in the database.        *)
Secret(old) == IF old = 0 THEN 1 ELSE old

Boot ==
    /\ panel = "down"
    /\ panel' = "up"
    /\ secrets' = Secret(secrets)
    /\ UNCHANGED <<tables, made, known, cookies, req, flash, setup, stops, history>>

(* Threads, app.state and an open transaction are gone; what was committed  *)
(* and the cookies are not.                                                 *)
PanelEnds ==
    /\ panel' = "down"
    /\ users' = stored /\ writer' = NoThread
    /\ req' = [t \in Threads |-> Idle]
    /\ flash' = NoPw
    /\ dropped' = dropped \cup Only(flash)
         \cup UNION {Only(req[t].pw) : t \in {r \in Threads : req[r] # Idle}}
    /\ UNCHANGED <<stored, made, known, cookies, secrets, revoked, spared, reborn, orphaned>>

PanelStops ==
    /\ panel = "up"
    /\ stops < MaxStops /\ stops' = stops + 1
    /\ PanelEnds
    /\ UNCHANGED setup

(* 40-panel.sh: has-admin, create-admin, show the password, restart.        *)
HasAdmin ==
    /\ install = "none"
    /\ install' = IF Stored = {} THEN "create" ELSE "restart"
    /\ UNCHANGED <<bootPw, tables, made, known, cookies, req, flash, panel, secrets, stops, history>>

(* Another process writes when the panel has no transaction open.           *)
Stores(u, row) ==
    /\ writer = NoThread /\ UNCHANGED writer
    /\ users' = [users EXCEPT ![u] = row]
    /\ stored' = users'

(* The INSERT fails, and the installer stops, if the name exists by now.    *)
CreateAdmin(pw) ==
    /\ install = "create"
    /\ Generates(pw)
    /\ IF stored[Admin] # NoUser
         THEN install' = "none" /\ UNCHANGED <<tables, bootPw>>
         ELSE /\ Stores(Admin, [pw |-> pw, v |-> FirstVersion])
              /\ install' = "echo" /\ bootPw' = pw
    /\ UNCHANGED <<known, cookies, req, flash, panel, secrets, stops, history>>

Echo ==
    /\ install = "echo"
    /\ known' = known \cup Only(bootPw)
    /\ install' = "restart" /\ bootPw' = NoPw
    /\ UNCHANGED <<tables, made, cookies, req, flash, panel, secrets, stops, history>>

(* systemctl restart gateway-panel *)
Restart ==
    /\ install = "restart"
    /\ install' = "none"
    /\ PanelEnds
    /\ UNCHANGED <<bootPw, stops>>

InstallerStops ==
    /\ install # "none"
    /\ stops < MaxStops /\ stops' = stops + 1
    /\ install' = "none" /\ bootPw' = NoPw
    /\ dropped' = dropped \cup Only(bootPw)
    /\ UNCHANGED <<tables, made, known, cookies, req, flash, panel, secrets,
                   revoked, spared, reborn, orphaned>>

(* install.sh --reset: the hash and not the version, so that the sessions of *)
(* the old password go on, or a new row.                                    *)
ResetAdmin(pw) ==
    /\ install = "none" /\ panel # "absent"
    /\ Types(pw)
    /\ Stores(Admin, IF stored[Admin] = NoUser
                       THEN [pw |-> pw, v |-> FirstVersion]
                       ELSE [stored[Admin] EXCEPT !.pw = pw])
    /\ revoked' = revoked \cup Outstanding(Admin)
    /\ spared' = spared \cup {c \in Outstanding(Admin) : Valid(c)}
    /\ install' = "restart"
    /\ UNCHANGED <<bootPw, cookies, req, flash, panel, secrets, stops,
                   reborn, orphaned, dropped>>
--------------------------------------------------------------------------------
Authenticated(t, c) ==
    /\ Valid(c)
    /\ \/ \E x \in Names, pw \in Passwords : Create(t, c, x, pw) \/ Reset(t, c, x, pw)
       \/ \E x \in Names : Delete(t, c, x)
       \/ \E pw \in Passwords : Change(t, c, pw)
       \/ Refuse(t, c)
       \/ UsersPage(t, c)

Thread(t) ==
    \/ \E u \in Names : Login(t, u)
    \/ \E c \in cookies : Authenticated(t, c)
    \/ Issue(t) \/ Reissue(t) \/ HandOut(t) \/ Flash(t) \/ Clear(t)
    \/ ChangeTx(t) \/ CreateTx(t) \/ DeleteTx(t) \/ ResetTx(t)
    \/ ChangeCommit(t) \/ CreateCommit(t) \/ DeleteCommit(t) \/ ResetCommit(t)
    \/ Refused(t) \/ Rollback(t)

Machine ==
    \/ Boot \/ PanelStops \/ HasAdmin \/ Echo \/ Restart \/ InstallerStops
    \/ \E pw \in Passwords : CreateAdmin(pw) \/ ResetAdmin(pw)

Next == Machine \/ \E t \in Threads : Thread(t)

Spec == Init /\ [][Next]_vars
--------------------------------------------------------------------------------
(* Types; only one session secret is ever made, no token is revoked that    *)
(* was not handed out, and without a transaction everybody reads the same.  *)
TypeOK ==
    /\ {users, stored} \subseteq [Names -> Row \cup {NoUser}]
    /\ writer \in Threads \cup {NoThread}
    /\ writer = NoThread => users = stored
    /\ made \in 0..MaxPw
    /\ known \subseteq 1..made /\ dropped \subseteq 1..made
    /\ cookies \subseteq Token /\ revoked \subseteq cookies /\ spared \subseteq Token
    /\ secrets \in {0, 1}
    /\ panel \in {"absent", "down", "up"}
    /\ orphaned \in BOOLEAN
    /\ req \in [Threads -> Request \cup {Idle}]
    /\ {flash, bootPw} \subseteq 1..made \cup {NoPw}
    /\ install \in {"none", "create", "echo", "restart"}
    /\ stops \in 0..MaxStops
    /\ reborn \subseteq Names

(* "rotating a password invalidates every outstanding cookie for that user" *)
(* holds for good, through failures, restarts and later changes, but for    *)
(* three cases. An account that is deleted and made again starts its        *)
(* versions again. `install.sh --reset` changes the password and leaves the *)
(* version, so the sessions of the old password go on, until the next       *)
(* change in the panel. And a login that reads the version of a change not  *)
(* yet committed has a token that is one ahead: it outlives that change, or *)
(* the next one when that change is rolled back, but no further one.        *)
RevokedStaysRevoked ==
    \A c \in revoked \ spared : c.u \notin reborn => ~Valid(c)

(* "Can't delete the last remaining user": once anybody has logged in there *)
(* is an account, unless one of them was removed, by another deletion or by *)
(* the rollback of its creation, while it was itself deleting the other.    *)
AnAccountRemains == cookies # {} /\ ~orphaned => Stored # {}

(* Every account has a password that somebody knows or is about to see,     *)
(* unless a restart or the next message in the one flash slot erased it. A  *)
(* request that fails leaves no password behind that nobody has seen.       *)
PasswordsAreKnown ==
    \A u \in Stored : stored[u].pw \in
      known \cup dropped \cup {flash, bootPw}
        \cup {req[t].pw : t \in {r \in Threads : Serves(r, "flash") \/ Serves(r, "clear")}}

(* A session ends or revives only by an edit of its account, never by a     *)
(* restart, by another user's login or by the installer's restart.          *)
SessionsDependOnUsersOnly ==
    [][users' = users => \A c \in cookies : Valid(c) = Valid(c)']_vars
================================================================================
