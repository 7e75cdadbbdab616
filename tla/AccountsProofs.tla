----------------------------- MODULE AccountsProofs -----------------------------
(***************************************************************************)
(* Theorems about Accounts, for any names, threads, passwords and restarts. *)
(***************************************************************************)
EXTENDS Accounts, TLAPS

(* A request holds no password that was not made, and one that will write a *)
(* password holds one.                                                      *)
HeldAreMade ==
    \A t \in Threads : req[t] # Idle =>
      /\ req[t].pw \in 1..made \cup {NoPw}
      /\ req[t].op \in {"change", "create", "reset"} => req[t].pw \in 1..made

(* The secret exists before anything is signed with it. *)
SecretFirst ==
    /\ panel = "up" => secrets = 1
    /\ \A t \in Threads : req[t] # Idle => secrets = 1
    /\ cookies # {} => secrets = 1
    /\ \A c \in cookies : c.s = 1

(* An open transaction is a request's, and has written the request's row.   *)
OneRowOpen ==
    \A t \in Threads : writer = t =>
      LET r == req[t]
      IN  /\ r # Idle /\ r.op \in Writing
          /\ users = [stored EXCEPT ![r.x] = users[r.x]]
          /\ r.op \in {"change", "reset"} => users[r.x] = Rotated(stored[r.x], r.pw)
          /\ r.op = "create" =>
               stored[r.x] = NoUser /\ users[r.x] = [pw |-> r.pw, v |-> FirstVersion]
          /\ r.op = "delete" => users[r.x] = NoUser

(* Versions only grow while an account lives. No token is ahead of its      *)
(* account, but for a spared one, by one.                                   *)
Version(u) == IF stored[u] = NoUser THEN 0 ELSE stored[u].v

NotAhead(c) == c.u \in reborn \/ c.v <= Version(c.u)
Behind(c)   == c.u \in reborn \/ (c.u \in Stored /\ c.v < Version(c.u))

Answer(t) == [u |-> req[t].u, v |-> req[t].v, s |-> secrets]

VersionsGrow ==
    /\ \A c \in spared : c.u \in reborn \/ c.v <= Version(c.u) + 1
    /\ \A c \in cookies \ spared : NotAhead(c)
    /\ \A c \in revoked \ spared : Behind(c)
    /\ \A t \in Threads : Serves(t, "answer") => Answer(t) \in spared \/ NotAhead(Answer(t))

(* Who deletes an account has one, unless that one went.                    *)
Creates(w, u) == writer = w /\ req[w].op = "create" /\ req[w].x = u

DeleterRemains ==
    /\ AnAccountRemains
    /\ \A t \in Threads : Serves(t, "delete") =>
         /\ req[t].u # req[t].x
         /\ orphaned \/ req[t].u \in Stored \/ \E w \in Threads \ {t} : Creates(w, req[t].u)
    /\ \A t \in Threads : req[t] # Idle =>
         cookies # {} \/ (req[t].op \in {"issue", "answer"} /\ Stored # {})

(* Passwords that were typed are known, and the installer holds one only    *)
(* until it has shown it.                                                   *)
CopiesKept ==
    /\ PasswordsAreKnown
    /\ \A t \in Threads : req[t] # Idle /\ req[t].op \in {"change", "create"}
         => req[t].pw \in known
    /\ install # "echo" => bootPw = NoPw

TypesInv == TypeOK /\ HeldAreMade

(* The actions, without their grouping: a request begins, goes on without   *)
(* a write, writes, commits or rolls back, or the machine makes a step.     *)
Asks(t) ==
    \/ \E u \in Names : Login(t, u)
    \/ \E c \in cookies : Valid(c) /\
         \/ \E x \in Names, pw \in Passwords : Create(t, c, x, pw) \/ Reset(t, c, x, pw)
         \/ \E x \in Names : Delete(t, c, x)
         \/ \E pw \in Passwords : Change(t, c, pw)
         \/ Refuse(t, c)
         \/ UsersPage(t, c)

Talks(t) == Issue(t) \/ Reissue(t) \/ HandOut(t) \/ Flash(t) \/ Clear(t) \/ Refused(t)

Opens(t)   == ChangeTx(t) \/ CreateTx(t) \/ DeleteTx(t) \/ ResetTx(t)
Commit(t)  == ChangeCommit(t) \/ CreateCommit(t) \/ DeleteCommit(t) \/ ResetCommit(t)

Around ==
    \/ Boot \/ PanelStops \/ HasAdmin \/ Echo \/ Restart \/ InstallerStops
    \/ \E pw \in Passwords : CreateAdmin(pw) \/ ResetAdmin(pw)
    \/ UNCHANGED vars

Steps ==
    \/ \E t \in Threads : Asks(t) \/ Talks(t) \/ Opens(t) \/ Commit(t) \/ Rollback(t)
    \/ Around

LEMMA NextIsSteps == [Next]_vars => Steps
  BY DEF Next, Machine, Thread, Authenticated, Steps, Asks, Talks, Opens, Commit, Around

LEMMA WritingOps == Writing \subseteq Ops /\ {"reissue", "answer", "flash"} \subseteq Ops
  BY DEF Ops, Writing

LEMMA RowsAreRows == \A row \in Row : row # NoUser /\ row.v \in Nat /\ row.pw \in Passwords
  BY NullAssumption DEF Row, Passwords

(* What a begun request leaves alone. *)
LEMMA AsksDo ==
  ASSUME NEW t \in Threads, Asks(t)
  PROVE  /\ UNCHANGED <<users, stored, writer, cookies, flash, panel, secrets, install,
                        bootPw, stops, revoked, spared, reborn, orphaned, dropped>>
         /\ panel = "up" /\ req[t] = Idle
         /\ \E op \in Ops : \E u, x, pw :
              req' = [req EXCEPT ![t] = [op |-> op, u |-> u, x |-> x, pw |-> pw, v |-> 0]]
         /\ known \subseteq known'
  BY DEF Asks, Login, Create, Reset, Delete, Change, Refuse, UsersPage, Begins, Types, Ops,
         Writing, tables, service, setup, history

LEMMA TalksDo ==
  ASSUME NEW t \in Threads, Talks(t)
  PROVE  /\ UNCHANGED <<users, stored, writer, made, panel, secrets, install, bootPw, stops,
                        revoked, reborn, orphaned>>
         /\ req[t] # Idle
         /\ \/ req' = [req EXCEPT ![t] = Idle]
            \/ \E v : req' = [req EXCEPT ![t].op = "answer", ![t].v = v]
         /\ known \subseteq known'
  BY DEF Talks, Issue, Reissue, HandOut, Flash, Clear, Refused, Serves, Reads, Returns,
         tables, service, setup, history

LEMMA OpensDo ==
  ASSUME NEW t \in Threads, Opens(t)
  PROVE  /\ UNCHANGED <<stored, made, known, cookies, req, flash, panel, secrets, install,
                        bootPw, stops, revoked, spared, reborn, orphaned, dropped>>
         /\ req[t] # Idle /\ req[t].op \in Writing
         /\ writer = NoThread /\ writer' = t
         /\ \E row :
              /\ users' = [users EXCEPT ![req[t].x] = row]
              /\ req[t].op \in {"change", "reset"} => row = Rotated(users[req[t].x], req[t].pw)
              /\ req[t].op = "create" =>
                   users[req[t].x] = NoUser /\ row = [pw |-> req[t].pw, v |-> FirstVersion]
              /\ req[t].op = "delete" => row = NoUser
  BY DEF Opens, ChangeTx, CreateTx, DeleteTx, ResetTx, Writes, Serves, Writing,
         service, setup, history

LEMMA CommitDoes ==
  ASSUME NEW t \in Threads, Commit(t)
  PROVE  /\ UNCHANGED <<users, made, known, cookies, flash, panel, secrets, install,
                        bootPw, stops, dropped>>
         /\ req[t] # Idle /\ req[t].op \in Writing
         /\ writer = t /\ writer' = NoThread /\ stored' = users
         /\ \E op \in {"reissue", "flash"}, pw \in {NoPw, req[t].pw} :
              /\ req' = [req EXCEPT ![t].op = op, ![t].pw = pw]
              /\ req[t].op = "reset" => op = "flash" /\ pw = req[t].pw
         /\ req[t].op \in {"change", "reset"} => Revokes(req[t].x)
         /\ req[t].op \notin {"change", "reset"} => UNCHANGED <<revoked, spared>>
         /\ req[t].op = "create" => UNCHANGED <<reborn, orphaned>>
         /\ req[t].op = "delete" =>
              /\ reborn' = reborn \cup ({req[t].x} \cap Stored)
              /\ orphaned' = (orphaned \/
                   (req[t].x \in Stored \ {req[t].u} /\ DeleteRuns(req[t].x, t)))
<1>1. CASE ChangeCommit(t)
  BY <1>1 DEF ChangeCommit, Commits, Serves, Goes, Writing, service, setup
<1>2. CASE CreateCommit(t)
  BY <1>2 DEF CreateCommit, Commits, Serves, Goes, Writing, service, setup
<1>3. CASE DeleteCommit(t)
  BY <1>3 DEF DeleteCommit, Commits, Serves, Goes, Writing, service, setup
<1>4. CASE ResetCommit(t)
  BY <1>4 DEF ResetCommit, Commits, Serves, Goes, Writing, service, setup
<1> QED
  BY <1>1, <1>2, <1>3, <1>4 DEF Commit

LEMMA RollbackDoes ==
  ASSUME NEW t \in Threads, Rollback(t)
  PROVE  /\ UNCHANGED <<stored, made, known, cookies, flash, panel, secrets, install,
                        bootPw, stops, revoked, spared, reborn, dropped>>
         /\ writer = t /\ writer' = NoThread /\ users' = stored
         /\ req' = [req EXCEPT ![t] = Idle]
         /\ orphaned' = (orphaned \/ (req[t].op = "create" /\ DeleteRuns(req[t].x, t)))
  BY DEF Rollback, Returns, service, setup

(* The machine's steps keep the tables, undo a transaction or write a row   *)
(* of the first account.                                                    *)
AdminRow(pw) ==
    IF stored[Admin] = NoUser THEN [pw |-> pw, v |-> FirstVersion]
                              ELSE [stored[Admin] EXCEPT !.pw = pw]

LEMMA AroundDoes ==
  ASSUME Around
  PROVE  /\ UNCHANGED <<cookies, reborn, orphaned>>
         /\ \/ UNCHANGED <<users, stored, writer, revoked, spared>>
            \/ users' = stored /\ writer' = NoThread /\ UNCHANGED <<stored, revoked, spared>>
            \/ \E pw \in Passwords :
                 /\ Generates(pw)
                 /\ Stores(Admin, AdminRow(pw))
                 /\ \/ stored[Admin] = NoUser /\ UNCHANGED <<revoked, spared>>
                    \/ /\ revoked' = revoked \cup Outstanding(Admin)
                       /\ spared' = spared \cup {c \in Outstanding(Admin) : Valid(c)}
         /\ req' = req \/ req' = [t \in Threads |-> Idle]
<1>1. CASE Boot \/ HasAdmin \/ Echo \/ InstallerStops \/ UNCHANGED vars
  BY <1>1 DEF Boot, HasAdmin, Echo, InstallerStops, vars, tables, history
<1>2. CASE PanelStops \/ Restart
  BY <1>2 DEF PanelStops, Restart, PanelEnds
<1>3. ASSUME NEW pw \in Passwords, CreateAdmin(pw)
      PROVE  /\ UNCHANGED <<cookies, reborn, orphaned, revoked, spared, req>> /\ Generates(pw)
             /\ \/ UNCHANGED <<users, stored, writer>>
                \/ stored[Admin] = NoUser /\ Stores(Admin, AdminRow(pw))
  BY <1>3 DEF CreateAdmin, tables, history, AdminRow
<1>4. ASSUME NEW pw \in Passwords, ResetAdmin(pw)
      PROVE  /\ UNCHANGED <<cookies, reborn, orphaned, req>> /\ Generates(pw)
             /\ Stores(Admin, AdminRow(pw))
             /\ revoked' = revoked \cup Outstanding(Admin)
             /\ spared' = spared \cup {c \in Outstanding(Admin) : Valid(c)}
  BY <1>4 DEF ResetAdmin, Types, AdminRow
<1> QED
  BY <1>1, <1>2, <1>3, <1>4 DEF Around

LEMMA HeldIs ==
  ASSUME TypesInv, NEW t \in Threads, req[t] # Idle
  PROVE  /\ req[t] \in Request
         /\ req[t].pw \in 1..made \cup {NoPw}
         /\ req[t].op \in {"change", "create", "reset"} => req[t].pw \in 1..made
  BY DEF TypesInv, TypeOK, HeldAreMade
--------------------------------------------------------------------------------
LEMMA TypesInit == Init => TypesInv
<1> SUFFICES ASSUME Init PROVE TypesInv
  OBVIOUS
<1>1. /\ users \in [Names -> Row \cup {NoUser}] /\ stored = users
      /\ req \in [Threads -> Request \cup {Idle}]
  BY DEF Init
<1>2. orphaned \in BOOLEAN
  BY DEF Init
<1>3. HeldAreMade
  BY DEF Init, HeldAreMade
<1> QED
  BY <1>1, <1>2, <1>3, BoundsAssumption DEF Init, TypesInv, TypeOK

ReqTypes == req \in [Threads -> Request \cup {Idle}] /\ HeldAreMade

(* What Begins does to the requests. *)
LEMMA BeginsTypes ==
  ASSUME TypesInv, NEW t \in Threads, NEW op \in Ops, NEW u \in Names, NEW x \in Names,
         NEW pw, Begins(t, op, u, x, pw),
         \/ /\ made' = made /\ pw \in 1..made \cup {NoPw}
            /\ op \notin {"change", "create", "reset"}
         \/ pw \in Passwords /\ Generates(pw)
  PROVE  ReqTypes'
<1>1. made \in Nat /\ MaxPw \in Nat /\ made <= MaxPw
  BY BoundsAssumption DEF TypesInv, TypeOK
<1>2. /\ pw \in 1..made' \cup {NoPw} /\ made' >= made /\ made' <= MaxPw /\ made' \in Nat
      /\ op \in {"change", "create", "reset"} => pw \in 1..made'
  BY <1>1 DEF Generates, Passwords
<1>3. [op |-> op, u |-> u, x |-> x, pw |-> pw, v |-> 0] \in Request
  BY <1>1, <1>2 DEF Request, Passwords
<1>4. req' \in [Threads -> Request \cup {Idle}]
  BY <1>3 DEF Begins, TypesInv, TypeOK
<1>5. HeldAreMade'
  BY <1>1, <1>2 DEF Begins, TypesInv, TypeOK, HeldAreMade
<1> QED
  BY <1>4, <1>5 DEF ReqTypes

LEMMA AsksTypes == ASSUME TypesInv, NEW t \in Threads, Asks(t) PROVE ReqTypes'
<1>1. Ops = Writing \cup {"issue", "reissue", "answer", "flash", "clear"}
      /\ Writing = {"change", "create", "delete", "reset"}
  BY DEF Ops, Writing
<1>2. ASSUME NEW u \in Names, Login(t, u) PROVE ReqTypes'
  BY <1>1, <1>2, BeginsTypes DEF Login
<1>3. ASSUME NEW c \in cookies,
        \/ \E x \in Names, pw \in Passwords : Create(t, c, x, pw) \/ Reset(t, c, x, pw)
        \/ \E x \in Names : Delete(t, c, x)
        \/ \E pw \in Passwords : Change(t, c, pw)
        \/ Refuse(t, c)
        \/ UsersPage(t, c)
      PROVE  ReqTypes'
  <2>1. c.u \in Names
    BY DEF TypesInv, TypeOK, Token
  <2>2. ASSUME NEW x \in Names, NEW pw \in Passwords, Create(t, c, x, pw) PROVE ReqTypes'
    BY <1>1, <2>1, <2>2, BeginsTypes DEF Create, Types
  <2>3. ASSUME NEW x \in Names, NEW pw \in Passwords, Reset(t, c, x, pw) PROVE ReqTypes'
    BY <1>1, <2>1, <2>3, BeginsTypes DEF Reset
  <2>4. ASSUME NEW pw \in Passwords, Change(t, c, pw) PROVE ReqTypes'
    BY <1>1, <2>1, <2>4, BeginsTypes DEF Change, Types
  <2>5. ASSUME NEW x \in Names, Delete(t, c, x) PROVE ReqTypes'
    BY <1>1, <2>1, <2>5, BeginsTypes DEF Delete
  <2>6. CASE Refuse(t, c)
    BY <1>1, <2>1, <2>6, BeginsTypes DEF Refuse
  <2>7. CASE UsersPage(t, c)
    <3>1. flash \in 1..made \cup {NoPw} /\ made' = made
      BY <2>7 DEF UsersPage, TypesInv, TypeOK
    <3> QED
      BY <1>1, <2>1, <2>7, <3>1, BeginsTypes DEF UsersPage
  <2> QED
    BY <1>3, <2>2, <2>3, <2>4, <2>5, <2>6, <2>7
<1> QED
  BY <1>2, <1>3 DEF Asks

LEMMA TalksTypes == ASSUME TypesInv, NEW t \in Threads, Talks(t) PROVE ReqTypes'
<1>1. req[t] # Idle /\ req[t] \in Request
  BY TalksDo, HeldIs
<1>2. made' = made
  BY TalksDo
<1>3. CASE Returns(t)
  BY <1>2, <1>3 DEF Returns, ReqTypes, HeldAreMade, TypesInv, TypeOK
<1>4. ASSUME NEW v \in Nat, req' = [req EXCEPT ![t].op = "answer", ![t].v = v] PROVE ReqTypes'
  <2>1. req'[t] = [req[t] EXCEPT !.op = "answer", !.v = v] /\ \A r \in Threads \ {t} : req'[r] = req[r]
    BY <1>4 DEF TypesInv, TypeOK
  <2>2. /\ req'[t] \in Request /\ req'[t].op = "answer" /\ req'[t].pw = req[t].pw
    BY <1>1, <2>1, WritingOps DEF Request
  <2>3. req' \in [Threads -> Request \cup {Idle}]
    BY <1>4, <2>1, <2>2 DEF TypesInv, TypeOK
  <2>4. HeldAreMade'
    BY <1>1, <1>2, <2>1, <2>2 DEF HeldAreMade, TypesInv
  <2> QED
    BY <2>3, <2>4 DEF ReqTypes
<1>5. CASE Issue(t) \/ Reissue(t)
  <2>1. req[t].u \in Names /\ users \in [Names -> Row \cup {NoUser}]
    BY <1>1 DEF Request, TypesInv, TypeOK
  <2>2. users[req[t].u] # NoUser => users[req[t].u].v \in Nat
    BY <2>1, RowsAreRows
  <2>3. CASE Issue(t)
    <3>1. PICK v \in Nat : req' = [req EXCEPT ![t].op = "answer", ![t].v = v]
      BY <2>2, <2>3 DEF Issue, Reads
    <3> QED
      BY <1>4, <3>1
  <2>4. CASE Reissue(t) /\ ~Returns(t)
    <3>1. PICK v \in Nat : req' = [req EXCEPT ![t].op = "answer", ![t].v = v]
      BY <2>2, <2>4 DEF Reissue, Reads
    <3> QED
      BY <1>4, <3>1
  <2> QED
    BY <1>3, <1>5, <2>3, <2>4
<1> QED
  BY <1>3, <1>5 DEF Talks, HandOut, Flash, Clear, Refused

LEMMA CommitTypes == ASSUME TypesInv, NEW t \in Threads, Commit(t) PROVE ReqTypes'
<1>1. req[t] # Idle /\ req[t] \in Request /\ req[t].pw \in 1..made \cup {NoPw} /\ made' = made
  BY CommitDoes, HeldIs
<1>2. PICK op \in {"reissue", "flash"}, pw \in {NoPw, req[t].pw} :
        req' = [req EXCEPT ![t].op = op, ![t].pw = pw]
  BY CommitDoes
<1>3. req'[t] = [req[t] EXCEPT !.op = op, !.pw = pw] /\ \A r \in Threads \ {t} : req'[r] = req[r]
  BY <1>2 DEF TypesInv, TypeOK
<1>4. op \in Ops /\ pw \in 1..made \cup {NoPw} /\ pw \in Passwords \cup {NoPw}
  BY <1>1, WritingOps DEF Request
<1>5. req'[t] \in Request /\ req'[t].op = op /\ req'[t].pw = pw
  BY <1>1, <1>3, <1>4 DEF Request
<1>6. req' \in [Threads -> Request \cup {Idle}]
  BY <1>2, <1>3, <1>5 DEF TypesInv, TypeOK
<1>7. HeldAreMade'
  BY <1>1, <1>3, <1>4, <1>5 DEF HeldAreMade, TypesInv
<1> QED
  BY <1>6, <1>7 DEF ReqTypes

LEMMA MadeStep == ASSUME TypesInv, Steps
                  PROVE  /\ made' \in 0..MaxPw /\ 1..made \subseteq 1..made'
                         /\ 1..made' \subseteq Passwords
<1>1. made' = made \/ \E pw : Generates(pw)
  <2>1. ASSUME NEW t \in Threads, Asks(t) PROVE made' = made \/ \E pw : Generates(pw)
    BY <2>1 DEF Asks, Login, Create, Reset, Delete, Change, Refuse, UsersPage, Types
  <2>2. ASSUME NEW t \in Threads, Talks(t) \/ Opens(t) \/ Commit(t) \/ Rollback(t) PROVE made' = made
    BY <2>2, TalksDo, OpensDo, CommitDoes, RollbackDoes
  <2>3. CASE Around
    BY <2>3 DEF Around, Boot, PanelStops, PanelEnds, HasAdmin, Echo, Restart, InstallerStops,
                CreateAdmin, ResetAdmin, Types, vars
  <2> QED
    BY <2>1, <2>2, <2>3 DEF Steps
<1> QED
  BY <1>1, BoundsAssumption DEF Generates, TypesInv, TypeOK, Passwords

LEMMA ReqStep == ASSUME TypesInv, Steps PROVE ReqTypes'
<1>1. ASSUME NEW t \in Threads, Opens(t) \/ Rollback(t) PROVE ReqTypes'
  BY <1>1, OpensDo, RollbackDoes DEF ReqTypes, HeldAreMade, TypesInv, TypeOK
<1>2. CASE Around
  BY <1>2, AroundDoes, MadeStep DEF ReqTypes, HeldAreMade, TypesInv, TypeOK
<1> QED
  BY <1>1, <1>2, AsksTypes, TalksTypes, CommitTypes DEF Steps

Tables == [Names -> Row \cup {NoUser}]

LEMMA TablesStep ==
  ASSUME TypesInv, Steps
  PROVE  /\ {users', stored'} \subseteq Tables /\ writer' \in Threads \cup {NoThread}
         /\ writer' = NoThread => users' = stored'
<1> DEFINE Ok == /\ {users', stored'} \subseteq Tables /\ writer' \in Threads \cup {NoThread}
                 /\ writer' = NoThread => users' = stored'
<1>1. /\ {users, stored} \subseteq Tables /\ writer \in Threads \cup {NoThread}
      /\ writer = NoThread => users = stored
  BY DEF TypesInv, TypeOK, Tables
<1>2. ASSUME NEW t \in Threads, Asks(t) \/ Talks(t) \/ Commit(t) \/ Rollback(t) PROVE Ok
  BY <1>1, <1>2, AsksDo, TalksDo, CommitDoes, RollbackDoes
<1>3. ASSUME NEW t \in Threads, Opens(t) PROVE Ok
  <2>1. PICK row :
          /\ users' = [users EXCEPT ![req[t].x] = row]
          /\ req[t].op \in {"change", "reset"} => row = Rotated(users[req[t].x], req[t].pw)
          /\ req[t].op = "create" => row = [pw |-> req[t].pw, v |-> FirstVersion]
          /\ req[t].op = "delete" => row = NoUser
    BY <1>3, OpensDo
  <2>2. req[t].op \in Writing /\ req[t] \in Request /\ writer' = t /\ t # NoThread /\ stored' = stored
    BY <1>3, OpensDo, HeldIs, NullAssumption
  <2>3. req[t].op # "delete" => req[t].pw \in Passwords
    BY <1>3, <2>2, OpensDo, HeldIs, MadeStep DEF Writing
  <2>4. users[req[t].x] \in Row \cup {NoUser}
    BY <1>1, <2>2 DEF Tables, Request
  <2>5. row \in Row \cup {NoUser}
    BY <2>1, <2>2, <2>3, <2>4, RowsAreRows DEF Writing, Rotated, Row, FirstVersion
  <2> QED
    BY <1>1, <2>1, <2>2, <2>5 DEF Tables
<1>4. ASSUME NEW pw \in Passwords, Stores(Admin, AdminRow(pw)) PROVE Ok
  <2>1. stored[Admin] \in Row \cup {NoUser}
    BY <1>1, AdminAssumption DEF Tables
  <2>2. AdminRow(pw) \in Row
    BY <2>1, RowsAreRows DEF AdminRow, Row, FirstVersion
  <2> QED
    BY <1>1, <1>4, <2>2 DEF Stores, Tables
<1>5. CASE Around
  BY <1>1, <1>4, <1>5, AroundDoes
<1> QED
  BY <1>2, <1>3, <1>5 DEF Steps

LEMMA CopiesTypes ==
  ASSUME TypesInv, Steps
  PROVE  /\ known' \subseteq 1..made' /\ dropped' \subseteq 1..made'
         /\ {flash', bootPw'} \subseteq 1..made' \cup {NoPw}
<1> DEFINE Copies == /\ known' \subseteq 1..made' /\ dropped' \subseteq 1..made'
                     /\ {flash', bootPw'} \subseteq 1..made' \cup {NoPw}
<1>1. /\ known \subseteq 1..made' /\ dropped \subseteq 1..made'
      /\ {flash, bootPw} \subseteq 1..made' \cup {NoPw}
      /\ \A t \in Threads : req[t] # Idle => req[t].pw \in 1..made' \cup {NoPw}
      /\ \A pw \in Passwords : Generates(pw) => pw \in 1..made'
  BY MadeStep DEF TypesInv, TypeOK, HeldAreMade, Generates, Passwords
<1>2. ASSUME NEW t \in Threads, Asks(t) PROVE Copies
  BY <1>1, <1>2
  DEF Asks, Login, Create, Reset, Delete, Change, Refuse, UsersPage, Types, service, setup, history
<1>3. ASSUME NEW t \in Threads, Talks(t) PROVE Copies
  BY <1>1, <1>3
  DEF Talks, Issue, Reissue, HandOut, Flash, Clear, Refused, Serves, Only, service, setup, history
<1>4. ASSUME NEW t \in Threads, Opens(t) \/ Commit(t) \/ Rollback(t) PROVE Copies
  <2>1. UNCHANGED <<made, known, dropped, flash, bootPw>>
    BY <1>4, OpensDo, CommitDoes, RollbackDoes
  <2> QED
    BY <1>1, <2>1
<1>5. CASE Around
  BY <1>1, <1>5
  DEF Around, Boot, PanelStops, PanelEnds, HasAdmin, Echo, Restart, InstallerStops, CreateAdmin,
      ResetAdmin, Types, Only, vars, service, setup, history
<1> QED
  BY <1>2, <1>3, <1>4, <1>5 DEF Steps

(* The only tokens are those that an answer hands out.                      *)
LEMMA CookiesStep ==
  ASSUME TypesInv, Steps
  PROVE  /\ cookies \subseteq cookies'
         /\ \A c \in cookies' \ cookies : \E t \in Threads :
              /\ Serves(t, "answer") /\ c = Answer(t) /\ c \in Token
              /\ UNCHANGED <<stored, revoked, spared, reborn, orphaned>>
<1>1. ASSUME NEW t \in Threads, Asks(t) \/ Opens(t) \/ Commit(t) \/ Rollback(t) PROVE cookies' = cookies
  BY <1>1, AsksDo, OpensDo, CommitDoes, RollbackDoes
<1>2. ASSUME NEW t \in Threads, Talks(t), ~HandOut(t) PROVE cookies' = cookies
  BY <1>2 DEF Talks, Issue, Reissue, Flash, Clear, Refused
<1>3. ASSUME NEW t \in Threads, HandOut(t)
      PROVE  /\ Serves(t, "answer") /\ cookies' = cookies \cup {Answer(t)} /\ Answer(t) \in Token
             /\ UNCHANGED <<stored, revoked, spared, reborn, orphaned>>
  <2>1. req[t] \in Request /\ secrets \in {0, 1}
    BY <1>3, HeldIs DEF HandOut, Serves, TypesInv, TypeOK
  <2>2. Answer(t) \in Token
    BY <2>1 DEF Answer, Token, Request
  <2> QED
    BY <1>3, <2>2 DEF HandOut, Answer, tables, history
<1>4. CASE Around
  BY <1>4, AroundDoes
<1> QED
  BY <1>1, <1>2, <1>3, <1>4 DEF Steps

(* Which tokens become exceptions: read ahead, or living through a --reset. *)
LEMMA SparedStep ==
  ASSUME TypesInv, Steps
  PROVE  \A c \in spared' \ spared :
           \/ \E t \in Threads : /\ Serves(t, "issue") \/ Serves(t, "reissue")
                                 /\ users[req[t].u] # NoUser
                                 /\ c \in Ahead(req[t].u, users[req[t].u].v)
                                 /\ UNCHANGED <<stored, reborn>>
           \/ /\ c \in Outstanding(Admin) /\ Valid(c) /\ writer = NoThread
              /\ stored[Admin] # NoUser /\ UNCHANGED <<reborn, cookies>>
              /\ \E pw : Stores(Admin, AdminRow(pw))
<1>1. ASSUME NEW t \in Threads, Asks(t) \/ Opens(t) \/ Commit(t) \/ Rollback(t) PROVE spared' \subseteq spared
  BY <1>1, AsksDo, OpensDo, CommitDoes, RollbackDoes DEF Revokes
<1>2. ASSUME NEW t \in Threads, Talks(t), NEW c \in spared' \ spared
      PROVE  /\ Serves(t, "issue") \/ Serves(t, "reissue")
             /\ users[req[t].u] # NoUser
             /\ c \in Ahead(req[t].u, users[req[t].u].v)
             /\ UNCHANGED <<stored, reborn>>
  BY <1>2 DEF Talks, Issue, Reissue, HandOut, Flash, Clear, Refused, Reads, Ahead, tables, history
<1>3. ASSUME Around, NEW c \in spared' \ spared
      PROVE  /\ c \in Outstanding(Admin) /\ Valid(c) /\ writer = NoThread
             /\ stored[Admin] # NoUser /\ UNCHANGED <<reborn, cookies>>
             /\ \E pw : Stores(Admin, AdminRow(pw))
  <2>1. PICK pw \in Passwords : /\ Stores(Admin, AdminRow(pw))
                                /\ spared' = spared \cup {d \in Outstanding(Admin) : Valid(d)}
    BY <1>3, AroundDoes
  <2>2. users = stored /\ writer = NoThread
    BY <2>1 DEF Stores, TypesInv, TypeOK
  <2> QED
    BY <1>3, <2>1, <2>2, AroundDoes DEF Outstanding
<1> QED
  BY <1>1, <1>2, <1>3 DEF Steps

LEMMA HistoryTypes ==
  ASSUME TypesInv, Steps
  PROVE  cookies' \subseteq Token /\ revoked' \subseteq cookies' /\ spared' \subseteq Token
         /\ reborn' \subseteq Names
<1>1. cookies' \subseteq Token /\ cookies \subseteq cookies'
  BY CookiesStep DEF TypesInv, TypeOK
<1>2. revoked' \subseteq cookies
  <2>1. ASSUME NEW t \in Threads, Asks(t) \/ Talks(t) \/ Opens(t) \/ Commit(t) \/ Rollback(t)
        PROVE  revoked' \subseteq cookies
    BY <2>1, AsksDo, TalksDo, OpensDo, CommitDoes, RollbackDoes
    DEF Revokes, Outstanding, TypesInv, TypeOK
  <2>2. CASE Around
    BY <2>2, AroundDoes DEF Outstanding, TypesInv, TypeOK
  <2> QED
    BY <2>1, <2>2 DEF Steps
<1>3. ASSUME NEW c \in spared' PROVE c \in Token
  <2>1. CASE c \in spared
    BY <2>1 DEF TypesInv, TypeOK
  <2>2. ASSUME NEW t \in Threads, Serves(t, "issue") \/ Serves(t, "reissue"),
               users[req[t].u] # NoUser, c \in Ahead(req[t].u, users[req[t].u].v)
        PROVE  c \in Token
    <3>1. req[t].u \in Names /\ secrets \in {0, 1}
      BY <2>2, HeldIs DEF Serves, Request, TypesInv, TypeOK
    <3>2. users[req[t].u].v \in Nat
      BY <2>2, <3>1, RowsAreRows DEF TypesInv, TypeOK
    <3> QED
      BY <2>2, <3>1, <3>2 DEF Ahead, Token
  <2>3. CASE c \in Outstanding(Admin)
    BY <2>3 DEF Outstanding, TypesInv, TypeOK
  <2> QED
    BY <2>1, <2>2, <2>3, SparedStep
<1>4. reborn' \subseteq Names
  <2>1. ASSUME NEW t \in Threads, Commit(t) PROVE reborn' \subseteq reborn \cup Stored
    BY <2>1, CommitDoes DEF Revokes, Writing
  <2>2. ASSUME NEW t \in Threads, Asks(t) \/ Talks(t) \/ Opens(t) \/ Rollback(t) PROVE reborn' = reborn
    BY <2>2, AsksDo, TalksDo, OpensDo, RollbackDoes
  <2> QED
    BY <2>1, <2>2, AroundDoes DEF Steps, Stored, TypesInv, TypeOK
<1> QED
  BY <1>1, <1>2, <1>3, <1>4

LEMMA MachineTypes ==
  ASSUME TypesInv, Steps
  PROVE  /\ secrets' \in {0, 1} /\ panel' \in {"absent", "down", "up"}
         /\ install' \in {"none", "create", "echo", "restart"} /\ stops' \in 0..MaxStops
<1> DEFINE Ok == /\ secrets' \in {0, 1} /\ panel' \in {"absent", "down", "up"}
                 /\ install' \in {"none", "create", "echo", "restart"} /\ stops' \in 0..MaxStops
<1>1. ASSUME NEW t \in Threads, Asks(t) \/ Talks(t) \/ Opens(t) \/ Commit(t) \/ Rollback(t) PROVE Ok
  <2>1. UNCHANGED <<secrets, panel, install, stops>>
    BY <1>1, AsksDo, TalksDo, OpensDo, CommitDoes, RollbackDoes
  <2> QED
    BY <2>1 DEF TypesInv, TypeOK
<1>2. CASE Around
  <2>1. /\ secrets \in {0, 1} /\ panel \in {"absent", "down", "up"}
        /\ install \in {"none", "create", "echo", "restart"} /\ stops \in 0..MaxStops
    BY DEF TypesInv, TypeOK
  <2>2. CASE Boot \/ PanelStops \/ Restart
    BY <2>1, <2>2, BoundsAssumption
    DEF Boot, PanelStops, PanelEnds, Restart, Secret, setup
  <2>3. CASE HasAdmin \/ Echo \/ InstallerStops \/ UNCHANGED vars
    BY <2>1, <2>3, BoundsAssumption
    DEF HasAdmin, Echo, InstallerStops, vars, service, setup
  <2>4. ASSUME NEW pw \in Passwords, CreateAdmin(pw) \/ ResetAdmin(pw) PROVE Ok
    BY <2>1, <2>4 DEF CreateAdmin, ResetAdmin
  <2> QED
    BY <1>2, <2>2, <2>3, <2>4 DEF Around
<1> QED
  BY <1>1, <1>2 DEF Steps

(* Only the end of a deletion, or of a creation that is rolled back, can    *)
(* take the account of a running deletion.                                  *)
LEMMA OrphanedStep ==
  ASSUME TypesInv, Steps
  PROVE  \/ orphaned' = orphaned
         \/ \E t \in Threads : Rollback(t) \/ (Commit(t) /\ req[t].op = "delete")
<1>1. ASSUME NEW t \in Threads, Commit(t), req[t].op # "delete" PROVE orphaned' = orphaned
  BY <1>1, CommitDoes DEF Writing, Revokes
<1>2. ASSUME NEW t \in Threads, Asks(t) \/ Talks(t) \/ Opens(t) PROVE orphaned' = orphaned
  BY <1>2, AsksDo, TalksDo, OpensDo
<1>3. CASE Around
  BY <1>3, AroundDoes
<1> QED
  BY <1>1, <1>2, <1>3 DEF Steps

LEMMA OrphanedTypes == ASSUME TypesInv, Steps PROVE orphaned' \in BOOLEAN
<1>1. orphaned \in BOOLEAN
  BY DEF TypesInv, TypeOK
<1>2. CASE orphaned' = orphaned
  BY <1>1, <1>2
<1>3. ASSUME NEW t \in Threads, Rollback(t) PROVE orphaned' \in BOOLEAN
  BY <1>3, Zenon DEF Rollback
<1>4. ASSUME NEW t \in Threads, Commit(t), req[t].op = "delete" PROVE orphaned' \in BOOLEAN
  <2>1. DeleteCommit(t)
    BY <1>4 DEF Commit, ChangeCommit, CreateCommit, ResetCommit, Commits, Serves
  <2> QED
    BY <2>1, Zenon DEF DeleteCommit
<1> QED
  BY <1>2, <1>3, <1>4, OrphanedStep

LEMMA TypesStep == TypesInv /\ [Next]_vars => TypesInv'
<1> SUFFICES ASSUME TypesInv, Steps PROVE TypesInv'
  BY NextIsSteps
<1>1. orphaned' \in BOOLEAN
  BY OrphanedTypes
<1>2. /\ {users', stored'} \subseteq [Names -> Row \cup {NoUser}]
      /\ writer' \in Threads \cup {NoThread} /\ (writer' = NoThread => users' = stored')
  BY TablesStep DEF Tables
<1>3. ReqTypes' /\ made' \in 0..MaxPw
  BY ReqStep, MadeStep
<1>4. /\ cookies' \subseteq Token /\ revoked' \subseteq cookies' /\ spared' \subseteq Token
      /\ reborn' \subseteq Names
  BY HistoryTypes
<1>5. /\ known' \subseteq 1..made' /\ dropped' \subseteq 1..made'
      /\ {flash', bootPw'} \subseteq 1..made' \cup {NoPw}
  BY CopiesTypes
<1>6. /\ secrets' \in {0, 1} /\ panel' \in {"absent", "down", "up"}
      /\ install' \in {"none", "create", "echo", "restart"} /\ stops' \in 0..MaxStops
  BY MachineTypes
<1>7. TypeOK'
  BY <1>1, <1>2, <1>3, <1>4, <1>5, <1>6, Zenon DEF TypeOK, ReqTypes
<1> QED
  BY <1>3, <1>7 DEF TypesInv, ReqTypes
--------------------------------------------------------------------------------
LEMMA SecretInit == Init => SecretFirst
  BY DEF Init, SecretFirst

LEMMA SecretStep == TypesInv /\ SecretFirst /\ [Next]_vars => SecretFirst'
<1> SUFFICES ASSUME TypesInv, SecretFirst, Steps PROVE SecretFirst'
  BY NextIsSteps
<1>1. ASSUME NEW t \in Threads, Asks(t) PROVE SecretFirst'
  BY <1>1, AsksDo DEF SecretFirst
<1>2. ASSUME NEW t \in Threads, Talks(t) \/ Opens(t) \/ Commit(t) PROVE SecretFirst'
  <2>1. UNCHANGED <<panel, secrets>> /\ secrets = 1
    BY <1>2, TalksDo, OpensDo, CommitDoes DEF SecretFirst
  <2>2. \A c \in cookies' : c.s = 1
    BY <2>1, CookiesStep DEF SecretFirst, Answer
  <2> QED
    BY <2>1, <2>2 DEF SecretFirst
<1>3. ASSUME NEW t \in Threads, Rollback(t) PROVE SecretFirst'
  BY <1>3, RollbackDoes DEF SecretFirst, TypesInv, TypeOK
<1>4. CASE Around
  <2>1. secrets \in {0, 1}
    BY DEF TypesInv, TypeOK
  <2> QED
    BY <1>4, <2>1 DEF Around, Boot, PanelStops, PanelEnds, HasAdmin, Echo, Restart,
        InstallerStops, CreateAdmin, ResetAdmin, Secret, vars, service, SecretFirst
<1> QED
  BY <1>1, <1>2, <1>3, <1>4 DEF Steps
--------------------------------------------------------------------------------
LEMMA OpenInit == Init => OneRowOpen
  BY NullAssumption DEF Init, OneRowOpen

(* A thread in a transaction makes no other request meanwhile.              *)
LEMMA OthersAreKept ==
  ASSUME TypesInv, NEW t \in Threads, NEW r \in Threads, r # t,
         Asks(t) \/ Talks(t) \/ Opens(t) \/ Commit(t) \/ Rollback(t)
  PROVE  req'[r] = req[r]
<1>1. req \in [Threads -> Request \cup {Idle}]
  BY DEF TypesInv, TypeOK
<1>2. CASE Asks(t)
  BY <1>1, <1>2, AsksDo
<1>3. CASE Talks(t)
  BY <1>1, <1>3, TalksDo
<1>4. CASE Commit(t)
  BY <1>1, <1>4, CommitDoes
<1> QED
  BY <1>1, <1>2, <1>3, <1>4, OpensDo, RollbackDoes

LEMMA WriterTalks ==
  ASSUME OneRowOpen, NEW t \in Threads, Asks(t) \/ Talks(t) PROVE writer # t
<1>1. CASE Asks(t)
  BY <1>1, AsksDo DEF OneRowOpen
<1>2. CASE Refused(t)
  BY <1>2 DEF Refused
<1>3. CASE Issue(t) \/ Reissue(t) \/ HandOut(t) \/ Flash(t) \/ Clear(t)
  BY <1>3 DEF Issue, Reissue, HandOut, Flash, Clear, Serves, OneRowOpen, Writing
<1> QED
  BY <1>1, <1>2, <1>3 DEF Talks

LEMMA OpenStep == TypesInv /\ OneRowOpen /\ [Next]_vars => OneRowOpen'
<1> SUFFICES ASSUME TypesInv, OneRowOpen, Steps, NEW w \in Threads, writer' = w
             PROVE  LET r == req'[w]
                    IN  /\ r # Idle /\ r.op \in Writing
                        /\ users' = [stored' EXCEPT ![r.x] = users'[r.x]]
                        /\ r.op \in {"change", "reset"} =>
                             users'[r.x] = Rotated(stored'[r.x], r.pw)
                        /\ r.op = "create" =>
                             stored'[r.x] = NoUser
                             /\ users'[r.x] = [pw |-> r.pw, v |-> FirstVersion]
                        /\ r.op = "delete" => users'[r.x] = NoUser
  BY NextIsSteps DEF OneRowOpen
<1>1. ASSUME UNCHANGED <<users, stored, writer>>, req'[w] = req[w]
      PROVE  /\ req'[w] # Idle /\ req'[w].op \in Writing
             /\ users' = [stored' EXCEPT ![req'[w].x] = users'[req'[w].x]]
             /\ req'[w].op \in {"change", "reset"} =>
                  users'[req'[w].x] = Rotated(stored'[req'[w].x], req'[w].pw)
             /\ req'[w].op = "create" =>
                  /\ stored'[req'[w].x] = NoUser
                  /\ users'[req'[w].x] = [pw |-> req'[w].pw, v |-> FirstVersion]
             /\ req'[w].op = "delete" => users'[req'[w].x] = NoUser
  BY <1>1 DEF OneRowOpen
<1>2. ASSUME NEW t \in Threads, Asks(t) \/ Talks(t)
      PROVE  UNCHANGED <<users, stored, writer>> /\ req'[w] = req[w]
  BY <1>2, AsksDo, TalksDo, WriterTalks, OthersAreKept
<1>3. ASSUME NEW t \in Threads, Commit(t) \/ Rollback(t) PROVE FALSE
  BY <1>3, CommitDoes, RollbackDoes, NullAssumption
<1>4. ASSUME NEW t \in Threads, Opens(t)
      PROVE  /\ req'[w] # Idle /\ req'[w].op \in Writing
             /\ users' = [stored' EXCEPT ![req'[w].x] = users'[req'[w].x]]
             /\ req'[w].op \in {"change", "reset"} =>
                  users'[req'[w].x] = Rotated(stored'[req'[w].x], req'[w].pw)
             /\ req'[w].op = "create" =>
                  /\ stored'[req'[w].x] = NoUser
                  /\ users'[req'[w].x] = [pw |-> req'[w].pw, v |-> FirstVersion]
             /\ req'[w].op = "delete" => users'[req'[w].x] = NoUser
  <2>1. /\ w = t /\ req' = req /\ stored' = stored /\ req[t] # Idle /\ req[t].op \in Writing
        /\ users = stored
    BY <1>4, OpensDo DEF TypesInv, TypeOK
  <2>2. users \in [Names -> Row \cup {NoUser}] /\ req[t].x \in Names
    BY <2>1, HeldIs DEF TypesInv, TypeOK, Request
  <2>3. PICK row :
          /\ users' = [users EXCEPT ![req[t].x] = row]
          /\ req[t].op \in {"change", "reset"} => row = Rotated(users[req[t].x], req[t].pw)
          /\ req[t].op = "create" =>
               users[req[t].x] = NoUser /\ row = [pw |-> req[t].pw, v |-> FirstVersion]
          /\ req[t].op = "delete" => row = NoUser
    BY <1>4, OpensDo
  <2>4. users'[req[t].x] = row
    BY <2>2, <2>3
  <2> QED
    BY <2>1, <2>3, <2>4
<1>5. CASE Around
  <2>1. UNCHANGED <<users, stored, writer>> /\ req' = req
    <3>1. writer' # NoThread
      BY NullAssumption
    <3>2. UNCHANGED <<users, stored, writer>>
      BY <1>5, <3>1, AroundDoes DEF Stores
    <3>3. ~(PanelStops \/ Restart)
      BY <3>1 DEF PanelStops, Restart, PanelEnds
    <3> QED
      BY <1>5, <3>2, <3>3 DEF Around, Boot, HasAdmin, Echo, InstallerStops, CreateAdmin,
                             ResetAdmin, vars
  <2> QED
    BY <1>1, <2>1
<1> QED
  BY <1>1, <1>2, <1>3, <1>4, <1>5 DEF Steps

(* What an open transaction can have done to a row.                         *)
LEMMA OpenRows ==
  ASSUME TypesInv, OneRowOpen, NEW u \in Names, users[u] # stored[u]
  PROVE  /\ writer \in Threads /\ req[writer].x = u /\ req[writer].op \in Writing
         /\ req[writer] # Idle
         /\ \/ req[writer].op \in {"change", "reset"} /\ stored[u] # NoUser
               /\ users[u] = [pw |-> req[writer].pw, v |-> stored[u].v + 1]
            \/ req[writer].op = "create" /\ stored[u] = NoUser
               /\ users[u] = [pw |-> req[writer].pw, v |-> 0]
            \/ req[writer].op = "delete" /\ users[u] = NoUser
<1>1. writer \in Threads /\ {users, stored} \subseteq [Names -> Row \cup {NoUser}]
  BY DEF TypesInv, TypeOK
<1>2. /\ req[writer] # Idle /\ req[writer].op \in Writing
      /\ users = [stored EXCEPT ![req[writer].x] = users[req[writer].x]]
  BY <1>1 DEF OneRowOpen
<1>3. req[writer].x = u
  BY <1>1, <1>2
<1> QED
  BY <1>1, <1>2, <1>3 DEF OneRowOpen, Writing, Rotated, FirstVersion
--------------------------------------------------------------------------------
LEMMA VersionsInit == Init => VersionsGrow
  BY DEF Init, VersionsGrow, Serves

LEMMA StoredRows ==
  ASSUME TypesInv, NEW u \in Names
  PROVE  /\ stored[u] \in Row \cup {NoUser} /\ users[u] \in Row \cup {NoUser}
         /\ Version(u) \in Nat
         /\ u \in Stored <=> stored[u] \in Row
  BY RowsAreRows DEF TypesInv, TypeOK, Version, Stored

(* What a COMMIT stores. *)
LEMMA CommitStores ==
  ASSUME TypesInv, OneRowOpen, NEW t \in Threads, Commit(t)
  PROVE  /\ req[t].x \in Names
         /\ \A u \in Names \ {req[t].x} : stored'[u] = stored[u]
         /\ req[t].op \in {"change", "reset"} => stored'[req[t].x] = Rotated(stored[req[t].x], req[t].pw)
         /\ req[t].op = "create" => stored[req[t].x] = NoUser
         /\ req[t].op = "delete" => stored'[req[t].x] = NoUser
<1>1. writer = t /\ stored' = users /\ req[t] # Idle
  BY CommitDoes
<1>2. req[t].x \in Names /\ users = [stored EXCEPT ![req[t].x] = users[req[t].x]]
  BY <1>1, HeldIs DEF OneRowOpen, Request
<1>3. \A u \in Names \ {req[t].x} : users[u] = stored[u]
  BY <1>2 DEF TypesInv, TypeOK
<1> QED
  BY <1>1, <1>2, <1>3 DEF OneRowOpen

(* A name without a deleted row keeps its row, and its version grows.       *)
Grown(u) == u \in reborn' \/ (Version(u) <= Version(u)' /\ (u \in Stored => u \in Stored'))

LEMMA RowStep == ASSUME TypesInv, OneRowOpen, Steps, NEW u \in Names PROVE Grown(u)
<1>1. Version(u) \in Nat /\ stored[u] \in Row \cup {NoUser} /\ (u \in Stored <=> stored[u] \in Row)
  BY StoredRows
<1>2. CASE stored'[u] = stored[u]
  BY <1>1, <1>2 DEF Grown, Version, Stored
<1>3. ASSUME NEW t \in Threads, Commit(t) PROVE Grown(u)
  <2>1. CASE u # req[t].x
    BY <1>2, <1>3, <2>1, CommitStores
  <2>2. CASE u = req[t].x /\ req[t].op \in {"change", "reset"}
    <3>1. stored'[u] = Rotated(stored[u], req[t].pw)
      BY <1>3, <2>2, CommitStores
    <3>2. CASE stored[u] = NoUser
      BY <1>2, <3>1, <3>2 DEF Rotated
    <3>3. CASE stored[u] \in Row
      <4>1. stored[u].v \in Nat /\ stored[u] # NoUser /\ req[t].pw \in Passwords
        BY <1>3, <2>2, <3>3, RowsAreRows, HeldIs, CommitDoes, MadeStep
      <4>2. stored'[u] = [pw |-> req[t].pw, v |-> stored[u].v + 1]
        BY <3>1, <4>1 DEF Rotated
      <4>3. stored'[u] \in Row /\ stored'[u].v = stored[u].v + 1
        BY <4>1, <4>2 DEF Row
      <4> QED
        BY <4>1, <4>3, RowsAreRows DEF Grown, Version, Stored
    <3> QED
      BY <1>1, <3>2, <3>3
  <2>3. CASE u = req[t].x /\ req[t].op = "create"
    <3>1. stored[u] = NoUser /\ stored'[u] \in Row \cup {NoUser}
      BY <1>3, <2>3, CommitStores, TablesStep DEF Tables
    <3> QED
      BY <3>1, RowsAreRows DEF Grown, Version, Stored
  <2>4. CASE u = req[t].x /\ req[t].op = "delete"
    <3>1. reborn' = reborn \cup ({u} \cap Stored) /\ stored'[u] = NoUser
      BY <1>3, <2>4, CommitDoes, CommitStores
    <3>2. CASE u \in Stored
      BY <3>1, <3>2 DEF Grown
    <3>3. CASE u \notin Stored
      BY <1>2, <3>1, <3>3 DEF Stored
    <3> QED
      BY <3>2, <3>3
  <2> QED
    BY <1>3, <2>1, <2>2, <2>3, <2>4, CommitDoes DEF Writing
<1>4. ASSUME NEW pw \in Passwords, Stores(Admin, AdminRow(pw)) PROVE Grown(u)
  <2>1. users = stored /\ users \in Tables
    BY <1>4 DEF Stores, TypesInv, TypeOK, Tables
  <2>2. CASE u # Admin
    BY <1>2, <1>4, <2>1, <2>2 DEF Stores, Tables
  <2>3. CASE u = Admin
    <3>1. stored'[u] = AdminRow(pw)
      BY <1>4, <2>1, <2>3 DEF Stores, Tables
    <3>2. CASE stored[u] = NoUser
      <4>1. stored'[u] = [pw |-> pw, v |-> 0]
        BY <2>3, <3>1, <3>2 DEF AdminRow, FirstVersion
      <4>2. stored'[u] \in Row
        BY <4>1 DEF Row
      <4> QED
        BY <3>2, <4>1, <4>2, RowsAreRows DEF Grown, Version, Stored
    <3>3. CASE stored[u] \in Row
      <4>1. stored'[u] = [stored[u] EXCEPT !.pw = pw] /\ stored[u] # NoUser
        BY <2>3, <3>1, <3>3, RowsAreRows DEF AdminRow
      <4>2. stored'[u] \in Row /\ stored'[u].v = stored[u].v /\ stored[u].v \in Nat
        BY <3>3, <4>1 DEF Row
      <4> QED
        BY <4>1, <4>2, RowsAreRows DEF Grown, Version, Stored
    <3> QED
      BY <1>1, <3>2, <3>3
  <2> QED
    BY <2>2, <2>3
<1>5. ASSUME NEW t \in Threads, Asks(t) \/ Talks(t) \/ Opens(t) \/ Rollback(t) PROVE Grown(u)
  BY <1>2, <1>5, AsksDo, TalksDo, OpensDo, RollbackDoes
<1> QED
  BY <1>2, <1>3, <1>4, <1>5, AroundDoes DEF Steps

LEMMA RebornStep == ASSUME TypesInv, Steps PROVE reborn \subseteq reborn'
<1>1. ASSUME NEW t \in Threads, Commit(t) PROVE reborn \subseteq reborn'
  BY <1>1, CommitDoes DEF Revokes, Writing
<1>2. ASSUME NEW t \in Threads, Asks(t) \/ Talks(t) \/ Opens(t) \/ Rollback(t) PROVE reborn' = reborn
  BY <1>2, AsksDo, TalksDo, OpensDo, RollbackDoes
<1> QED
  BY <1>1, <1>2, AroundDoes DEF Steps

LEMMA NotAheadStays ==
  ASSUME TypesInv, OneRowOpen, Steps, NEW c \in Token
  PROVE  (NotAhead(c) => NotAhead(c)') /\ (Behind(c) => Behind(c)')
<1>1. c.u \in Names /\ c.v \in Nat /\ Version(c.u) \in Nat
  BY StoredRows DEF Token
<1>2. Version(c.u)' \in Nat
  BY <1>1, TablesStep, RowsAreRows DEF Tables, Version
<1> QED
  BY <1>1, <1>2, RowStep, RebornStep DEF Grown, NotAhead, Behind

(* The rotation of a row takes it past every token of its user that is not  *)
(* spared any more.                                                         *)
LEMMA RotationIs ==
  ASSUME TypesInv, OneRowOpen, NEW t \in Threads, Commit(t), NEW u, u = req[t].x,
         req[t].op \in {"change", "reset"}, users[u] # NoUser
  PROVE  /\ u \in Stored' /\ Version(u)' = Version(u) + 1
         /\ Version(u)' = users[u].v
<1>1. /\ u \in Names /\ stored' = users
      /\ stored'[u] = Rotated(stored[u], req[t].pw)
  BY CommitStores, CommitDoes
<1>2. stored[u] # NoUser /\ users[u] = [pw |-> req[t].pw, v |-> stored[u].v + 1]
  BY <1>1 DEF Rotated
<1> QED
  BY <1>1, <1>2 DEF Stored, Version

LEMMA UnsparedStep ==
  ASSUME TypesInv, OneRowOpen, VersionsGrow, Steps, NEW c \in spared, c \notin spared'
  PROVE  Behind(c)'
<1>1. PICK t \in Threads : Commit(t) /\ req[t].op \in {"change", "reset"}
  <2>1. ASSUME NEW t \in Threads, Asks(t) \/ Opens(t) \/ Rollback(t) PROVE spared' = spared
    BY <2>1, AsksDo, OpensDo, RollbackDoes
  <2>2. ASSUME NEW t \in Threads, Talks(t) PROVE spared \subseteq spared'
    BY <2>2 DEF Talks, Issue, Reissue, HandOut, Flash, Clear, Refused, Reads, history
  <2>3. ASSUME NEW t \in Threads, Commit(t), req[t].op \notin {"change", "reset"} PROVE spared' = spared
    BY <2>3, CommitDoes
  <2>4. CASE Around
    BY <2>4, AroundDoes
  <2> QED
    BY <2>1, <2>2, <2>3, <2>4 DEF Steps
<1>2. c.u = req[t].x /\ users[req[t].x] # NoUser /\ c.v # users[req[t].x].v /\ reborn' = reborn
  BY <1>1, CommitDoes DEF Revokes
<1>3. c \in Token /\ c.u \in Names /\ c.v \in Nat /\ Version(c.u) \in Nat
  BY StoredRows DEF TypesInv, TypeOK, Token
<1>4. c.u \in reborn \/ c.v <= Version(c.u) + 1
  BY DEF VersionsGrow
<1> QED
  BY <1>1, <1>2, <1>3, <1>4, RotationIs DEF Behind

LEMMA BehindIsNotAhead ==
  ASSUME TypesInv, Steps, NEW c \in Token, Behind(c)' PROVE NotAhead(c)'
<1>1. c.u \in Names /\ c.v \in Nat
  BY DEF Token
<1>2. Version(c.u)' \in Nat
  BY <1>1, TablesStep, RowsAreRows DEF Tables, Version
<1> QED
  BY <1>1, <1>2 DEF Behind, NotAhead

LEMMA VersionsSpared ==
  ASSUME TypesInv, OneRowOpen, VersionsGrow, Steps, NEW c \in spared'
  PROVE  c.u \in reborn' \/ c.v <= Version(c.u)' + 1
<1>1. c \in Token /\ c.u \in Names /\ c.v \in Nat /\ Version(c.u) \in Nat
  BY HistoryTypes, StoredRows DEF Token
<1>2. Version(c.u)' \in Nat
  BY <1>1, TablesStep, RowsAreRows DEF Tables, Version
<1>3. ASSUME c.u \in reborn \/ c.v <= Version(c.u) + 1 PROVE c.u \in reborn' \/ c.v <= Version(c.u)' + 1
  BY <1>1, <1>2, <1>3, RowStep, RebornStep DEF Grown
<1>4. CASE c \in spared
  BY <1>3, <1>4 DEF VersionsGrow
<1>5. ASSUME NEW t \in Threads, c \in Ahead(req[t].u, users[req[t].u].v), users[req[t].u] # NoUser
      PROVE  c.v <= Version(c.u) + 1
  <2>1. c.u = req[t].u /\ c.v = users[c.u].v /\ users[c.u] \notin {NoUser, stored[c.u]}
    BY <1>5 DEF Ahead
  <2>2. DEFINE row == users[c.u]
  <2>3. \E pw : \/ stored[c.u] # NoUser /\ row = [pw |-> pw, v |-> stored[c.u].v + 1]
                \/ stored[c.u] = NoUser /\ row = [pw |-> pw, v |-> 0]
    <3>1. c.u \in Names /\ users[c.u] # stored[c.u] /\ users[c.u] # NoUser
      BY <1>1, <2>1
    <3> QED
      BY <3>1, OpenRows
  <2>4. \/ stored[c.u] # NoUser /\ c.v = stored[c.u].v + 1
        \/ stored[c.u] = NoUser /\ c.v = 0
    BY <2>1, <2>3
  <2> QED
    BY <1>1, <2>4 DEF Version
<1>6. ASSUME c \in Outstanding(Admin), Valid(c), writer = NoThread PROVE c.v <= Version(c.u) + 1
  <2>1. users = stored
    BY <1>6 DEF TypesInv, TypeOK
  <2> QED
    BY <1>1, <1>6, <2>1 DEF Valid, Version
<1> QED
  BY <1>3, <1>4, <1>5, <1>6, SparedStep

LEMMA VersionsCookies ==
  ASSUME TypesInv, OneRowOpen, VersionsGrow, Steps, NEW c \in cookies' \ spared'
  PROVE  NotAhead(c)'
<1>1. c \in Token
  BY HistoryTypes
<1>2. CASE c \in spared
  BY <1>1, <1>2, UnsparedStep, BehindIsNotAhead
<1>3. CASE c \notin spared /\ c \in cookies
  BY <1>1, <1>3, NotAheadStays DEF VersionsGrow
<1>4. CASE c \notin spared /\ c \notin cookies
  <2>1. PICK t \in Threads : Serves(t, "answer") /\ c = Answer(t)
    BY <1>4, CookiesStep
  <2> QED
    BY <1>1, <1>4, <2>1, NotAheadStays DEF VersionsGrow
<1> QED
  BY <1>2, <1>3, <1>4

LEMMA VersionsRevoked ==
  ASSUME TypesInv, OneRowOpen, SecretFirst, VersionsGrow, Steps, NEW c \in revoked' \ spared'
  PROVE  Behind(c)'
<1>1. c \in Token /\ c.u \in Names /\ c.v \in Nat /\ Version(c.u) \in Nat
  BY HistoryTypes, StoredRows DEF Token
<1>2. CASE c \in spared
  BY <1>2, UnsparedStep
<1>3. CASE c \in revoked \ spared
  BY <1>1, <1>3, NotAheadStays DEF VersionsGrow
<1>4. ASSUME c \notin spared, c \notin revoked, NEW t \in Threads, Commit(t) PROVE Behind(c)'
  <2>1. req[t].op \in {"change", "reset"} /\ Revokes(req[t].x)
    BY <1>4, CommitDoes
  <2>2. c \in cookies /\ c.u = req[t].x /\ users[req[t].x] # NoUser /\ reborn' = reborn
    BY <1>4, <2>1 DEF Revokes, Outstanding
  <2>3. NotAhead(c)
    BY <1>4, <2>2 DEF VersionsGrow
  <2> QED
    BY <1>1, <1>4, <2>1, <2>2, <2>3, RotationIs DEF NotAhead, Behind
<1>5. ASSUME c \notin spared, c \notin revoked, Around PROVE Behind(c)'
  <2>1. PICK pw \in Passwords :
          /\ Stores(Admin, AdminRow(pw)) /\ c \in Outstanding(Admin) /\ ~Valid(c)
    BY <1>5, AroundDoes
  <2>2. users = stored /\ c \in cookies /\ c.u = Admin /\ users[Admin] # NoUser
    BY <2>1 DEF Stores, Outstanding, TypesInv, TypeOK
  <2>3. c.s = secrets
    BY <2>2 DEF SecretFirst
  <2>4. NotAhead(c) /\ c.v # Version(c.u)
    BY <1>5, <2>1, <2>2, <2>3 DEF VersionsGrow, Valid, Version
  <2>5. Behind(c)
    BY <1>1, <2>2, <2>4 DEF NotAhead, Behind, Stored
  <2> QED
    BY <1>1, <2>5, NotAheadStays
<1>6. ASSUME c \notin spared, c \notin revoked, NEW t \in Threads,
             Asks(t) \/ Talks(t) \/ Opens(t) \/ Rollback(t)
      PROVE  FALSE
  BY <1>6, AsksDo, TalksDo, OpensDo, RollbackDoes
<1> QED
  BY <1>2, <1>3, <1>4, <1>5, <1>6 DEF Steps

(* An answer under way was so before, or has just read its version.         *)
LEMMA AnswerStep ==
  ASSUME TypesInv, Steps, NEW t \in Threads, Serves(t, "answer")'
  PROVE  \/ Serves(t, "answer") /\ req'[t] = req[t]
         \/ /\ Issue(t) \/ (Reissue(t) /\ users[req[t].u] # NoUser)
            /\ req'[t].u = req[t].u
            /\ req'[t].v = IF users[req[t].u] = NoUser THEN 0 ELSE users[req[t].u].v
<1>1. CASE req'[t] = req[t]
  BY <1>1 DEF Serves
<1>2. ASSUME NEW r \in Threads, req'[t] # req[t],
             Asks(r) \/ Talks(r) \/ Opens(r) \/ Commit(r) \/ Rollback(r)
      PROVE  r = t
  BY <1>2, OthersAreKept
<1>3. ASSUME req'[t] # req[t], Asks(t) PROVE FALSE
  BY <1>3 DEF Asks, Login, Create, Reset, Delete, Change, Refuse, UsersPage, Begins, Serves,
              TypesInv, TypeOK
<1>4. ASSUME req'[t] # req[t], Opens(t) \/ Commit(t) \/ Rollback(t) PROVE FALSE
  <2>1. CASE Commit(t)
    <3>1. PICK op \in {"reissue", "flash"}, pw \in {NoPw, req[t].pw} :
            req' = [req EXCEPT ![t].op = op, ![t].pw = pw]
      BY <2>1, CommitDoes
    <3>2. req[t] \in Request
      BY <2>1, CommitDoes, HeldIs
    <3>3. req'[t] = [req[t] EXCEPT !.op = op, !.pw = pw]
      BY <3>1 DEF TypesInv, TypeOK
    <3>4. req'[t].op = op
      BY <3>2, <3>3 DEF Request
    <3> QED
      BY <3>4 DEF Serves
  <2> QED
    BY <1>4, <2>1, OpensDo, RollbackDoes DEF Serves, TypesInv, TypeOK
<1>5. ASSUME req'[t] # req[t], Talks(t)
      PROVE  /\ Issue(t) \/ (Reissue(t) /\ users[req[t].u] # NoUser)
             /\ req'[t].u = req[t].u
             /\ req'[t].v = IF users[req[t].u] = NoUser THEN 0 ELSE users[req[t].u].v
  <2>1. req[t] \in Request /\ ~Returns(t)
    BY <1>5, TalksDo, HeldIs DEF Returns, Serves, TypesInv, TypeOK
  <2>2. Issue(t) \/ (Reissue(t) /\ users[req[t].u] # NoUser)
    BY <1>5, <2>1 DEF Talks, HandOut, Flash, Clear, Refused, Reissue
  <2>3. Reads(t, IF users[req[t].u] = NoUser THEN 0 ELSE users[req[t].u].v)
    BY <2>2 DEF Issue, Reissue
  <2> QED
    BY <2>1, <2>2, <2>3 DEF Reads, Request, TypesInv, TypeOK
<1>6. ASSUME req'[t] # req[t], Around PROVE FALSE
  BY <1>6, AroundDoes DEF Serves
<1> QED
  BY <1>1, <1>2, <1>3, <1>4, <1>5, <1>6 DEF Steps

LEMMA SecretStays == ASSUME TypesInv, Steps, secrets = 1 PROVE secrets' = 1
<1>1. ASSUME NEW t \in Threads, Asks(t) \/ Talks(t) \/ Opens(t) \/ Commit(t) \/ Rollback(t)
      PROVE  secrets' = secrets
  BY <1>1, AsksDo, TalksDo, OpensDo, CommitDoes, RollbackDoes
<1>2. CASE Around
  BY <1>2 DEF Around, Boot, PanelStops, PanelEnds, HasAdmin, Echo, Restart, InstallerStops,
      CreateAdmin, ResetAdmin, Secret, vars, service
<1> QED
  BY <1>1, <1>2 DEF Steps

LEMMA VersionsAnswers ==
  ASSUME TypesInv, OneRowOpen, SecretFirst, VersionsGrow, Steps, NEW t \in Threads,
         Serves(t, "answer")'
  PROVE  Answer(t)' \in spared' \/ NotAhead(Answer(t))'
<1>1. CASE Serves(t, "answer") /\ req'[t] = req[t]
  <2>1. secrets = 1 /\ secrets' = secrets
    BY <1>1, SecretStays DEF Serves, SecretFirst
  <2>2. Answer(t) \in Token /\ Answer(t) = Answer(t)'
    BY <1>1, <2>1, HeldIs DEF Answer, Serves, Token, Request
  <2>3. ASSUME NEW c \in Token, c \in spared \/ NotAhead(c) PROVE c \in spared' \/ NotAhead(c)'
    BY <2>3, UnsparedStep, BehindIsNotAhead, NotAheadStays
  <2>4. Answer(t) \in spared \/ NotAhead(Answer(t))
    BY <1>1 DEF VersionsGrow
  <2> QED
    BY <2>2, <2>3, <2>4 DEF NotAhead, Version
<1>2. CASE /\ Issue(t) \/ (Reissue(t) /\ users[req[t].u] # NoUser)
           /\ req'[t].u = req[t].u
           /\ req'[t].v = IF users[req[t].u] = NoUser THEN 0 ELSE users[req[t].u].v
  <2>1. /\ req[t].u \in Names /\ UNCHANGED <<stored, reborn, secrets>>
        /\ Version(req[t].u) \in Nat
    BY <1>2, HeldIs, StoredRows
    DEF Issue, Reissue, Serves, Request, tables, service
  <2>2. CASE users[req[t].u] = NoUser \/ users[req[t].u] = stored[req[t].u]
    BY <1>2, <2>1, <2>2 DEF Answer, NotAhead, Version
  <2>3. CASE users[req[t].u] \notin {NoUser, stored[req[t].u]}
    <3>1. Ahead(req[t].u, users[req[t].u].v) \subseteq spared'
      BY <1>2, <2>3 DEF Issue, Reissue, Reads
    <3>2. Answer(t)' \in Ahead(req[t].u, users[req[t].u].v)
      BY <1>2, <2>1, <2>3 DEF Answer, Ahead
    <3> QED
      BY <3>1, <3>2
  <2> QED
    BY <2>2, <2>3
<1> QED
  BY <1>1, <1>2, AnswerStep

LEMMA VersionsStep ==
  TypesInv /\ OneRowOpen /\ SecretFirst /\ VersionsGrow /\ [Next]_vars => VersionsGrow'
<1> SUFFICES ASSUME TypesInv, OneRowOpen, SecretFirst, VersionsGrow, Steps PROVE VersionsGrow'
  BY NextIsSteps
<1> QED
  BY VersionsSpared, VersionsCookies, VersionsRevoked, VersionsAnswers DEF VersionsGrow
--------------------------------------------------------------------------------
LEMMA DeleterInit == Init => DeleterRemains
  BY DEF Init, DeleterRemains, AnAccountRemains, Serves

(* Only the COMMIT of a deletion takes an account from the database.        *)
LEMMA StoredStep ==
  ASSUME TypesInv, OneRowOpen, Steps
  PROVE  \/ Stored \subseteq Stored'
         \/ \E t \in Threads : /\ Commit(t) /\ req[t].op = "delete"
                               /\ Stored' = Stored \ {req[t].x}
<1>1. stored \in Tables /\ stored' \in Tables
  BY TablesStep DEF TypesInv, TypeOK, Tables
<1>2. ASSUME NEW t \in Threads, Commit(t), req[t].op = "delete" PROVE Stored' = Stored \ {req[t].x}
  BY <1>1, <1>2, CommitStores DEF Stored, Tables
<1>3. ASSUME NEW t \in Threads, Commit(t), req[t].op # "delete" PROVE Stored \subseteq Stored'
  <2>1. /\ req[t].x \in Names /\ req[t].op \in {"change", "reset", "create"}
        /\ \A u \in Names \ {req[t].x} : stored'[u] = stored[u]
    BY <1>3, CommitDoes, CommitStores DEF Writing
  <2>2. stored[req[t].x] # NoUser => stored'[req[t].x] # NoUser
    <3>1. SUFFICES ASSUME stored[req[t].x] # NoUser PROVE stored'[req[t].x] \in Row
      BY RowsAreRows
    <3>2. req[t].op \in {"change", "reset"} /\ stored'[req[t].x] = Rotated(stored[req[t].x], req[t].pw)
      BY <1>3, <2>1, <3>1, CommitStores
    <3>3. stored[req[t].x].v \in Nat /\ req[t].pw \in Passwords
      BY <1>1, <1>3, <2>1, <3>1, <3>2, RowsAreRows, HeldIs, CommitDoes, MadeStep DEF Tables
    <3> QED
      BY <3>1, <3>2, <3>3 DEF Rotated, Row
  <2> QED
    BY <2>1, <2>2 DEF Stored
<1>4. ASSUME NEW t \in Threads, Asks(t) \/ Talks(t) \/ Opens(t) \/ Rollback(t) PROVE Stored \subseteq Stored'
  BY <1>4, AsksDo, TalksDo, OpensDo, RollbackDoes DEF Stored
<1>5. ASSUME NEW pw \in Passwords, Stores(Admin, AdminRow(pw)) PROVE Stored \subseteq Stored'
  <2>1. users = stored
    BY <1>5 DEF Stores, TypesInv, TypeOK
  <2>2. stored[Admin] \in Row \cup {NoUser}
    BY <1>1, AdminAssumption DEF Tables
  <2>3. AdminRow(pw) # NoUser
    BY <2>2, RowsAreRows DEF AdminRow, Row, FirstVersion
  <2>4. stored' = [stored EXCEPT ![Admin] = AdminRow(pw)]
    BY <1>5, <2>1 DEF Stores
  <2> QED
    BY <1>1, <2>3, <2>4 DEF Stored, Tables
<1>6. CASE Around
  BY <1>5, <1>6, AroundDoes DEF Stored
<1> QED
  BY <1>2, <1>3, <1>4, <1>6 DEF Steps

LEMMA OrphanedStays == ASSUME Steps, orphaned PROVE orphaned'
<1>1. ASSUME NEW t \in Threads, Commit(t) PROVE orphaned'
  BY <1>1, Zenon DEF Commit, ChangeCommit, CreateCommit, DeleteCommit, ResetCommit, Revokes
<1>2. ASSUME NEW t \in Threads, Rollback(t) PROVE orphaned'
  BY <1>2, Zenon DEF Rollback
<1>3. ASSUME NEW t \in Threads, Asks(t) \/ Talks(t) \/ Opens(t) PROVE orphaned' = orphaned
  BY <1>3, AsksDo, TalksDo, OpensDo
<1>4. CASE Around
  BY <1>4, AroundDoes
<1> QED
  BY <1>1, <1>2, <1>3, <1>4 DEF Steps

(* A delete under way was so before, or has just begun.                     *)
LEMMA DeleteStep ==
  ASSUME TypesInv, Steps, NEW t \in Threads, Serves(t, "delete")'
  PROVE  \/ Serves(t, "delete") /\ req'[t] = req[t]
         \/ \E c \in cookies, x \in Names :
              Valid(c) /\ Asks(t) /\ MayDelete(c.u, x) /\ req'[t].u = c.u /\ req'[t].x = x
<1>1. CASE req'[t] = req[t]
  BY <1>1 DEF Serves
<1>2. ASSUME NEW r \in Threads, req'[t] # req[t],
             Asks(r) \/ Talks(r) \/ Opens(r) \/ Commit(r) \/ Rollback(r)
      PROVE  r = t
  BY <1>2, OthersAreKept
<1>3. ASSUME req'[t] # req[t], Asks(t)
      PROVE  \E c \in cookies, x \in Names :
               Valid(c) /\ MayDelete(c.u, x) /\ req'[t].u = c.u /\ req'[t].x = x
  BY <1>3 DEF Asks, Login, Create, Reset, Delete, Change, Refuse, UsersPage, Begins, Serves,
              TypesInv, TypeOK
<1>4. ASSUME req'[t] # req[t], Talks(t) \/ Opens(t) \/ Commit(t) \/ Rollback(t) PROVE FALSE
  <2>1. ASSUME req[t] # Idle, NEW op \in {"reissue", "flash"}, NEW pw,
               req' = [req EXCEPT ![t].op = op, ![t].pw = pw]
        PROVE  FALSE
    BY <2>1, HeldIs DEF TypesInv, TypeOK, Serves, Request
  <2>2. ASSUME req[t] # Idle, NEW v, req' = [req EXCEPT ![t].op = "answer", ![t].v = v]
        PROVE  FALSE
    BY <2>2, HeldIs DEF TypesInv, TypeOK, Serves, Request
  <2>3. req' # [req EXCEPT ![t] = Idle]
    BY DEF TypesInv, TypeOK, Serves
  <2> QED
    BY <1>4, <2>1, <2>2, <2>3, TalksDo, OpensDo, CommitDoes, RollbackDoes
<1>5. ASSUME req'[t] # req[t], Around PROVE FALSE
  BY <1>5, AroundDoes DEF Serves
<1> QED
  BY <1>1, <1>2, <1>3, <1>4, <1>5 DEF Steps

(* The COMMIT of a deletion leaves the account it acts for.                 *)
LEMMA DeletionIs ==
  ASSUME TypesInv, OneRowOpen, DeleterRemains, NEW r \in Threads, Commit(r), req[r].op = "delete"
  PROVE  /\ req[r].u # req[r].x
         /\ orphaned \/ req[r].u \in Stored
         /\ \A t \in Threads \ {r} :
              Serves(t, "delete") /\ req[t].u = req[r].x /\ req[t].u \in Stored => orphaned'
<1>1. Serves(r, "delete") /\ writer = r
  BY CommitDoes DEF Serves
<1>2. req[r].u # req[r].x
  BY <1>1 DEF DeleterRemains
<1>3. ASSUME NEW w \in Threads \ {r}, Creates(w, req[r].u) PROVE FALSE
  BY <1>1, <1>3 DEF Creates
<1>4. orphaned \/ req[r].u \in Stored
  BY <1>1, <1>3 DEF DeleterRemains
<1>5. DeleteCommit(r)
  BY <1>1 DEF Commit, ChangeCommit, CreateCommit, ResetCommit, Commits, Serves
<1>6. ASSUME NEW t \in Threads \ {r}, Serves(t, "delete"), req[t].u = req[r].x, req[t].u \in Stored
      PROVE  orphaned'
  <2>1. req[r].x \in Stored \ {req[r].u} /\ DeleteRuns(req[r].x, r)
    BY <1>2, <1>6 DEF DeleteRuns
  <2> QED
    BY <1>5, <2>1, Zenon DEF DeleteCommit
<1> QED
  BY <1>2, <1>4, <1>6

LEMMA CreatesStep ==
  ASSUME TypesInv, OneRowOpen, Steps, NEW t \in Threads, Serves(t, "delete"), req'[t] = req[t],
         NEW w \in Threads \ {t}, Creates(w, req[t].u)
  PROVE  orphaned' \/ req[t].u \in Stored' \/ Creates(w, req[t].u)'
<1>1. writer = w /\ req[w].op = "create" /\ req[w].x = req[t].u /\ w # NoThread
  BY NullAssumption DEF Creates
<1>2. ASSUME NEW r \in Threads, Asks(r) \/ Talks(r) PROVE Creates(w, req[t].u)'
  <2>1. r # w /\ writer' = writer
    BY <1>1, <1>2, WriterTalks, AsksDo, TalksDo
  <2>2. req'[w] = req[w]
    BY <1>2, <2>1, OthersAreKept
  <2> QED
    BY <1>1, <2>1, <2>2 DEF Creates
<1>3. ASSUME NEW r \in Threads, Opens(r) PROVE FALSE
  BY <1>1, <1>3, OpensDo
<1>4. ASSUME NEW r \in Threads, Commit(r) PROVE req[t].u \in Stored'
  <2>1. r = w /\ stored' = users
    BY <1>1, <1>4, CommitDoes
  <2>2. users[req[w].x] = [pw |-> req[w].pw, v |-> FirstVersion] /\ req[w] # Idle
    BY <1>1 DEF OneRowOpen
  <2>3. req[w].x \in Names /\ req[w].pw \in Passwords
    BY <1>1, <2>2, HeldIs, MadeStep DEF Request
  <2>4. users[req[w].x] # NoUser
    BY <2>2, <2>3, RowsAreRows DEF Row, FirstVersion
  <2> QED
    BY <1>1, <2>1, <2>3, <2>4 DEF Stored
<1>5. ASSUME NEW r \in Threads, Rollback(r) PROVE orphaned'
  <2>1. r = w
    BY <1>1, <1>5, RollbackDoes
  <2>2. DeleteRuns(req[w].x, w)
    BY <1>1 DEF DeleteRuns
  <2> QED
    BY <1>1, <1>5, <2>1, <2>2, Zenon DEF Rollback
<1>6. CASE Around
  <2>1. writer' = writer
    <3>1. ~(PanelStops \/ Restart)
      BY DEF PanelStops, Restart, PanelEnds, Serves
    <3> QED
      BY <1>6, <3>1 DEF Around, Boot, HasAdmin, Echo, InstallerStops, CreateAdmin, ResetAdmin,
                        Stores, vars, tables
  <2>2. req'[w] = req[w]
    BY <1>6, AroundDoes DEF Serves
  <2> QED
    BY <1>1, <2>1, <2>2 DEF Creates
<1> QED
  BY <1>2, <1>3, <1>4, <1>5, <1>6 DEF Steps

LEMMA DeleterKept ==
  ASSUME TypesInv, OneRowOpen, DeleterRemains, Steps, NEW t \in Threads, Serves(t, "delete")'
  PROVE  /\ req'[t].u # req'[t].x
         /\ orphaned' \/ req'[t].u \in Stored' \/ \E w \in Threads \ {t} : Creates(w, req[t].u)'
<1>1. CASE Serves(t, "delete") /\ req'[t] = req[t]
  <2>1. /\ req[t].u # req[t].x
        /\ orphaned \/ req[t].u \in Stored \/ \E w \in Threads \ {t} : Creates(w, req[t].u)
    BY <1>1 DEF DeleterRemains
  <2>2. CASE req[t].u \in Stored
    <3>1. ASSUME NEW r \in Threads, Commit(r), req[r].op = "delete", Stored' = Stored \ {req[r].x}
          PROVE  orphaned' \/ req[t].u \in Stored'
      BY <1>1, <2>1, <2>2, <3>1, DeletionIs
    <3> QED
      BY <1>1, <2>1, <2>2, <3>1, StoredStep
  <2> QED
    BY <1>1, <2>1, <2>2, OrphanedStays, CreatesStep
<1>2. ASSUME NEW c \in cookies, NEW x \in Names, Valid(c), Asks(t), MayDelete(c.u, x),
             req'[t].u = c.u, req'[t].x = x
      PROVE  /\ req'[t].u # req'[t].x
             /\ req'[t].u \in Stored' \/ \E w \in Threads \ {t} : Creates(w, c.u)'
  <2>1. c.u \in Names /\ users[c.u] # NoUser
    BY <1>2 DEF Valid, TypesInv, TypeOK, Token
  <2>2. CASE stored[c.u] # NoUser
    BY <1>2, <2>1, <2>2, AsksDo DEF MayDelete, Stored
  <2>3. CASE stored[c.u] = NoUser
    <3>1. PICK w \in Threads : Creates(w, c.u) /\ req[w] # Idle
      BY <2>1, <2>3, OpenRows DEF Creates
    <3>2. w # t /\ writer' = writer /\ req'[w] = req[w]
      BY <1>2, <3>1, AsksDo, OthersAreKept
    <3> QED
      BY <1>2, <3>1, <3>2 DEF MayDelete, Creates
  <2> QED
    BY <2>2, <2>3
<1> QED
  BY <1>1, <1>2, DeleteStep

(* Without a token there are only logins. *)
LEMMA LoginsOnly ==
  ASSUME TypesInv, OneRowOpen, DeleterRemains, cookies = {}
  PROVE  /\ writer = NoThread
         /\ \A t \in Threads : req[t] # Idle => Stored # {} /\ req[t].op \in {"issue", "answer"}
<1>1. \A t \in Threads : req[t] # Idle => Stored # {} /\ req[t].op \in {"issue", "answer"}
  BY DEF DeleterRemains
<1>2. writer \in Threads => req[writer] # Idle /\ req[writer].op \in Writing
  BY DEF OneRowOpen
<1> QED
  BY <1>1, <1>2 DEF TypesInv, TypeOK, Writing

LEMMA LoginsStep ==
  ASSUME TypesInv, OneRowOpen, DeleterRemains, Steps, cookies = {}, cookies' = {},
         NEW t \in Threads, req'[t] # Idle
  PROVE  req'[t].op \in {"issue", "answer"} /\ Stored' # {}
<1>1. /\ writer = NoThread /\ users = stored
      /\ \A r \in Threads : req[r] # Idle => Stored # {} /\ req[r].op \in {"issue", "answer"}
  BY LoginsOnly DEF TypesInv, TypeOK
<1>2. ASSUME NEW r \in Threads, Opens(r) \/ Commit(r) \/ Rollback(r) PROVE FALSE
  BY <1>1, <1>2, OpensDo, CommitDoes, RollbackDoes, NullAssumption DEF Writing
<1>3. ASSUME NEW r \in Threads, Asks(r) PROVE req'[t].op \in {"issue", "answer"} /\ Stored' # {}
  <2>1. PICK u \in Names : Login(r, u)
    BY <1>3 DEF Asks
  <2>2. u \in Stored' /\ req'[r].op = "issue"
    BY <1>1, <2>1 DEF Login, Begins, Stored, tables, TypesInv, TypeOK
  <2>3. r # t => req'[t] = req[t]
    BY <1>3, OthersAreKept
  <2> QED
    BY <1>1, <2>2, <2>3
<1>4. ASSUME NEW r \in Threads, Talks(r) PROVE req'[t].op \in {"issue", "answer"} /\ Stored' # {}
  <2>1. req[r] # Idle /\ Stored' = Stored
    BY <1>4, TalksDo DEF Stored
  <2>2. Stored # {} /\ req[r].op \in {"issue", "answer"}
    BY <1>1, <2>1
  <2>3. r # t => req'[t] = req[t]
    BY <1>4, OthersAreKept
  <2>4. CASE r = t
    <3>1. req[t] \in Request /\ req'[t] # Idle
      BY <2>1, <2>4, HeldIs
    <3>2. ~Returns(t)
      BY <3>1 DEF Returns, TypesInv, TypeOK
    <3>3. PICK v : req' = [req EXCEPT ![t].op = "answer", ![t].v = v]
      BY <1>4, <2>4, <3>2, TalksDo DEF Returns
    <3>4. req'[t].op = "answer"
      BY <3>1, <3>3 DEF TypesInv, TypeOK, Request
    <3> QED
      BY <2>1, <2>2, <3>4
  <2> QED
    BY <1>1, <2>1, <2>2, <2>3, <2>4
<1>5. CASE Around
  <2>1. req' = req
    BY <1>5, AroundDoes
  <2>2. Stored \subseteq Stored'
    BY <1>2, StoredStep
  <2> QED
    BY <1>1, <2>1, <2>2
<1> QED
  BY <1>2, <1>3, <1>4, <1>5 DEF Steps

LEMMA AccountStep ==
  ASSUME TypesInv, OneRowOpen, DeleterRemains, Steps PROVE AnAccountRemains'
<1>1. SUFFICES ASSUME cookies' # {}, ~orphaned' PROVE Stored' # {}
  BY DEF AnAccountRemains
<1>2. ~orphaned
  BY <1>1, OrphanedStays
<1>3. CASE cookies # {}
  <2>1. Stored # {}
    BY <1>2, <1>3 DEF DeleterRemains, AnAccountRemains
  <2>2. ASSUME NEW t \in Threads, Commit(t), req[t].op = "delete", Stored' = Stored \ {req[t].x}
        PROVE  Stored' # {}
    <3>1. req[t].u # req[t].x /\ req[t].u \in Stored
      BY <1>2, <2>2, DeletionIs
    <3> QED
      BY <2>2, <3>1
  <2> QED
    BY <2>1, <2>2, StoredStep
<1>4. CASE cookies = {}
  <2>1. PICK c \in cookies' : TRUE
    BY <1>1
  <2>2. PICK t \in Threads : Serves(t, "answer") /\ stored' = stored
    BY <1>4, CookiesStep
  <2> QED
    BY <1>4, <2>2, LoginsOnly DEF Serves, Stored
<1> QED
  BY <1>3, <1>4

LEMMA DeleterStep == TypesInv /\ OneRowOpen /\ DeleterRemains /\ [Next]_vars => DeleterRemains'
<1> SUFFICES ASSUME TypesInv, OneRowOpen, DeleterRemains, Steps PROVE DeleterRemains'
  BY NextIsSteps
<1>1. ASSUME NEW t \in Threads, Serves(t, "delete")'
      PROVE  /\ req'[t].u # req'[t].x
             /\ orphaned' \/ req'[t].u \in Stored'
                  \/ \E w \in Threads \ {t} : Creates(w, req[t].u)'
  BY <1>1, DeleterKept
<1>2. ASSUME NEW t \in Threads, req'[t] # Idle
      PROVE  cookies' # {} \/ (req'[t].op \in {"issue", "answer"} /\ Stored' # {})
  BY <1>2, LoginsStep, CookiesStep
<1> QED
  BY <1>1, <1>2, AccountStep DEF DeleterRemains
--------------------------------------------------------------------------------
(* Where a password can be that is not lost. *)
Held   == {req[t].pw : t \in {r \in Threads : Serves(r, "flash") \/ Serves(r, "clear")}}
Copies == known \cup dropped \cup {flash, bootPw} \cup Held

LEMMA CopiesInit == Init => CopiesKept
  BY DEF Init, CopiesKept, PasswordsAreKnown, Stored

LEMMA OnlyIs == ASSUME NEW pw PROVE pw # NoPw => pw \in Only(pw)
  BY DEF Only

LEMMA HeldStays ==
  ASSUME TypesInv, NEW t \in Threads,
         Asks(t) \/ Talks(t) \/ Opens(t) \/ Commit(t) \/ Rollback(t),
         ~Serves(t, "flash") /\ ~Serves(t, "clear")
  PROVE  Held \subseteq Held'
<1>1. \A r \in Threads \ {t} : req'[r] = req[r]
  BY OthersAreKept
<1> QED
  BY <1>1 DEF Held, Serves

LEMMA CopiesStay ==
  ASSUME TypesInv, OneRowOpen, CopiesKept, Steps
  PROVE  Copies \ {NoPw} \subseteq Copies' /\ known \subseteq known'
<1> DEFINE Ok == Copies \ {NoPw} \subseteq Copies' /\ known \subseteq known'
<1>1. ASSUME NEW t \in Threads, Asks(t) PROVE Ok
  BY <1>1, AsksDo, HeldStays DEF Copies, Serves
<1>2. ASSUME NEW t \in Threads, Issue(t) \/ Reissue(t) \/ HandOut(t) \/ Refused(t) PROVE Ok
  <2>1. UNCHANGED <<known, dropped, flash, bootPw>> /\ ~Serves(t, "flash") /\ ~Serves(t, "clear")
    BY <1>2 DEF Issue, Reissue, HandOut, Refused, Serves, Writing, service, setup, history
  <2> QED
    BY <1>2, <2>1, HeldStays DEF Copies, Talks
<1>3. ASSUME NEW t \in Threads, Flash(t) \/ Clear(t) PROVE Ok
  <2>1. \A r \in Threads \ {t} : req'[r] = req[r]
    BY <1>3, OthersAreKept DEF Talks
  <2>2. known \subseteq known' /\ bootPw' = bootPw /\ dropped \subseteq dropped'
    BY <1>3 DEF Flash, Clear, service, setup
  <2>3. flash \in {NoPw} \cup dropped' \cup known' /\ req[t].pw \in {NoPw, flash'} \cup known'
    BY <1>3, OnlyIs DEF Flash, Clear
  <2>4. \A pw \in Held : pw # req[t].pw => pw \in Held'
    BY <2>1 DEF Held, Serves
  <2> QED
    BY <2>2, <2>3, <2>4 DEF Copies
<1>4. ASSUME NEW t \in Threads, Opens(t) PROVE Ok
  BY <1>4, OpensDo DEF Copies, Held, Serves
<1>5. ASSUME NEW t \in Threads, Commit(t) \/ Rollback(t) PROVE Ok
  <2>1. UNCHANGED <<known, dropped, flash, bootPw>> /\ writer = t
    BY <1>5, CommitDoes, RollbackDoes
  <2>2. ~Serves(t, "flash") /\ ~Serves(t, "clear")
    BY <2>1 DEF OneRowOpen, Serves, Writing
  <2> QED
    BY <1>5, <2>1, <2>2, HeldStays DEF Copies
<1>6. CASE Around
  <2>1. CASE UNCHANGED vars
    BY <2>1 DEF vars, service, setup, history, Copies, Held, Serves
  <2>2. CASE PanelStops \/ Restart
    <3>1. /\ known' = known /\ bootPw' = bootPw
          /\ dropped' = dropped \cup Only(flash)
               \cup UNION {Only(req[t].pw) : t \in {r \in Threads : req[r] # Idle}}
      BY <2>2 DEF PanelStops, Restart, PanelEnds, setup
    <3>2. Held \ {NoPw} \subseteq dropped'
      BY <3>1, OnlyIs DEF Held, Serves
    <3> QED
      BY <3>1, <3>2, OnlyIs DEF Copies
  <2>3. CASE Boot \/ HasAdmin \/ Echo \/ InstallerStops
    BY <2>3, OnlyIs
    DEF Boot, HasAdmin, Echo, InstallerStops, setup, history, Copies, Held, Serves
  <2>4. ASSUME NEW pw \in Passwords, CreateAdmin(pw) PROVE Ok
    BY <2>4 DEF CreateAdmin, CopiesKept, history, Copies, Held, Serves
  <2>5. ASSUME NEW pw \in Passwords, ResetAdmin(pw) PROVE Ok
    BY <2>5 DEF ResetAdmin, Types, Copies, Held, Serves
  <2> QED
    BY <1>6, <2>1, <2>2, <2>3, <2>4, <2>5 DEF Around
<1> QED
  BY <1>1, <1>2, <1>3, <1>4, <1>5, <1>6 DEF Steps, Talks

(* A stored password was stored before, or its copy exists.                 *)
LEMMA PwStep ==
  ASSUME TypesInv, OneRowOpen, CopiesKept, Steps, NEW u \in Stored'
  PROVE  (u \in Stored /\ stored'[u].pw = stored[u].pw) \/ stored'[u].pw \in Copies'
<1> DEFINE Ok == (u \in Stored /\ stored'[u].pw = stored[u].pw) \/ stored'[u].pw \in Copies'
<1>1. u \in Names /\ stored \in Tables /\ stored'[u] \in Row
  BY TablesStep DEF Stored, Tables, TypesInv, TypeOK
<1>2. CASE stored'[u] = stored[u]
  BY <1>1, <1>2, RowsAreRows DEF Stored
<1>3. ASSUME NEW t \in Threads, Commit(t) PROVE Ok
  <2>1. /\ req[t] # Idle /\ req[t].op \in Writing /\ req[t].x \in Names
        /\ \A w \in Names \ {req[t].x} : stored'[w] = stored[w]
        /\ known' = known /\ writer = t /\ stored' = users
    BY <1>3, CommitDoes, CommitStores
  <2>2. CASE req[t].x = u /\ req[t].op = "delete"
    BY <1>1, <1>3, <2>2, CommitStores, RowsAreRows
  <2>3. CASE req[t].x = u /\ req[t].op # "delete"
    <3>1. req[t].op = "create" => users[u] = [pw |-> req[t].pw, v |-> FirstVersion]
      BY <2>1, <2>3 DEF OneRowOpen
    <3>2. req[t].op # "create" => stored'[u] = Rotated(stored[u], req[t].pw)
      BY <1>3, <2>1, <2>3, CommitStores DEF Writing
    <3>3. stored'[u].pw = req[t].pw
      BY <1>1, <2>1, <3>1, <3>2, RowsAreRows DEF Rotated
    <3>4. CASE req[t].op \in {"change", "create"}
      BY <2>1, <3>3, <3>4 DEF CopiesKept, Copies
    <3>5. CASE req[t].op = "reset"
      <4>1. req' = [req EXCEPT ![t].op = "flash", ![t].pw = req[t].pw] /\ req[t] \in Request
        BY <1>3, <2>1, <3>5, CommitDoes, HeldIs
      <4>2. req'[t].op = "flash" /\ req'[t].pw = req[t].pw
        BY <4>1 DEF TypesInv, TypeOK, Request
      <4>3. req'[t] # Idle
        <5>1. req'[t] = [req[t] EXCEPT !.op = "flash"] /\ "flash" \in Ops
          BY <4>1, WritingOps DEF TypesInv, TypeOK
        <5> QED
          BY <4>1, <5>1, IdleAssumption DEF Request
      <4> QED
        BY <3>3, <4>2, <4>3 DEF Copies, Held, Serves
    <3> QED
      BY <2>1, <2>3, <3>4, <3>5 DEF Writing
  <2> QED
    BY <1>1, <1>2, <2>1, <2>2, <2>3
<1>4. ASSUME NEW pw \in Passwords, CreateAdmin(pw), stored'[u] # stored[u] PROVE stored'[u].pw \in Copies'
  <2>1. Stores(Admin, [pw |-> pw, v |-> FirstVersion]) /\ bootPw' = pw
    BY <1>4 DEF CreateAdmin, tables
  <2>2. stored' = [stored EXCEPT ![Admin] = [pw |-> pw, v |-> FirstVersion]]
    BY <2>1 DEF Stores, TypesInv, TypeOK
  <2> QED
    BY <1>1, <1>4, <2>1, <2>2 DEF Copies, Tables
<1>5. ASSUME NEW pw \in Passwords, ResetAdmin(pw), stored'[u] # stored[u] PROVE stored'[u].pw \in Copies'
  <2>1. Stores(Admin, AdminRow(pw)) /\ pw \in known'
    BY <1>5 DEF ResetAdmin, Types, AdminRow
  <2>2. stored' = [stored EXCEPT ![Admin] = AdminRow(pw)]
    BY <2>1 DEF Stores, TypesInv, TypeOK
  <2>3. u = Admin /\ stored'[u] = AdminRow(pw) /\ stored[u] \in Row \cup {NoUser}
    BY <1>1, <1>5, <2>2 DEF Tables
  <2>4. AdminRow(pw).pw = pw
    BY <2>3, RowsAreRows DEF AdminRow, Row
  <2> QED
    BY <2>1, <2>3, <2>4 DEF Copies
<1>6. \/ stored' = stored
      \/ \E t \in Threads : Commit(t)
      \/ \E pw \in Passwords : CreateAdmin(pw) \/ ResetAdmin(pw)
  <2>1. ASSUME NEW t \in Threads, Asks(t) \/ Talks(t) \/ Opens(t) \/ Rollback(t) PROVE stored' = stored
    BY <2>1, AsksDo, TalksDo, OpensDo, RollbackDoes
  <2>2. CASE Boot \/ PanelStops \/ HasAdmin \/ Echo \/ Restart \/ InstallerStops \/ UNCHANGED vars
    BY <2>2 DEF Boot, PanelStops, PanelEnds, HasAdmin, Echo, Restart, InstallerStops, vars, tables
  <2> QED
    BY <2>1, <2>2 DEF Steps, Around
<1> QED
  BY <1>2, <1>3, <1>4, <1>5, <1>6

(* A request that will write a typed password was so before, or has just    *)
(* been made with it.                                                       *)
LEMMA TypedStep ==
  ASSUME TypesInv, OneRowOpen, CopiesKept, Steps, NEW t \in Threads, req'[t] # Idle,
         req'[t].op \in {"change", "create"}
  PROVE  req'[t].pw \in known'
<1>1. known \subseteq known'
  BY CopiesStay
<1>2. CASE req'[t] = req[t]
  BY <1>1, <1>2 DEF CopiesKept
<1>3. ASSUME NEW r \in Threads, req'[t] # req[t],
             Asks(r) \/ Talks(r) \/ Opens(r) \/ Commit(r) \/ Rollback(r)
      PROVE  r = t
  BY <1>3, OthersAreKept
<1>4. CASE Asks(t)
  BY <1>4 DEF Asks, Login, Create, Reset, Delete, Change, Refuse, UsersPage, Begins,
              Types, TypesInv, TypeOK
<1>5. ASSUME req'[t] # req[t], Talks(t) \/ Opens(t) \/ Commit(t) \/ Rollback(t) PROVE FALSE
  <2>1. ASSUME req[t] # Idle, NEW op \in {"reissue", "flash"}, NEW pw,
               req' = [req EXCEPT ![t].op = op, ![t].pw = pw]
        PROVE  FALSE
    BY <2>1, HeldIs DEF TypesInv, TypeOK, Request
  <2>2. ASSUME req[t] # Idle, NEW v, req' = [req EXCEPT ![t].op = "answer", ![t].v = v]
        PROVE  FALSE
    BY <2>2, HeldIs DEF TypesInv, TypeOK, Request
  <2>3. req' # [req EXCEPT ![t] = Idle]
    BY DEF TypesInv, TypeOK
  <2> QED
    BY <1>5, <2>1, <2>2, <2>3, TalksDo, OpensDo, CommitDoes, RollbackDoes
<1>6. ASSUME req'[t] # req[t], Around PROVE FALSE
  BY <1>6, AroundDoes
<1> QED
  BY <1>2, <1>3, <1>4, <1>5, <1>6 DEF Steps

LEMMA CopiesStep == TypesInv /\ OneRowOpen /\ CopiesKept /\ [Next]_vars => CopiesKept'
<1> SUFFICES ASSUME TypesInv, OneRowOpen, CopiesKept, Steps PROVE CopiesKept'
  BY NextIsSteps
<1>1. Copies \ {NoPw} \subseteq Copies'
  BY CopiesStay
<1>2. PasswordsAreKnown'
  <2>1. ASSUME NEW u \in Stored PROVE stored[u].pw \in Copies /\ stored[u].pw # NoPw
    <3>1. stored[u] \in Row
      BY DEF Stored, TypesInv, TypeOK
    <3> QED
      BY <3>1, NullAssumption DEF Row, Passwords, CopiesKept, PasswordsAreKnown, Copies, Held
  <2>2. \A u \in Stored' : stored'[u].pw \in Copies'
    BY <1>1, <2>1, PwStep
  <2> QED
    BY <2>2 DEF PasswordsAreKnown, Copies, Held
<1>3. install' # "echo" => bootPw' = NoPw
  <2>1. ASSUME NEW t \in Threads, Asks(t) \/ Talks(t) \/ Opens(t) \/ Commit(t) \/ Rollback(t)
        PROVE  UNCHANGED <<install, bootPw>>
    BY <2>1, AsksDo, TalksDo, OpensDo, CommitDoes, RollbackDoes
  <2>2. CASE Around
    BY <2>2 DEF Around, Boot, PanelStops, PanelEnds, HasAdmin, Echo, Restart, InstallerStops,
        CreateAdmin, ResetAdmin, vars, service, setup, CopiesKept
  <2> QED
    BY <2>1, <2>2 DEF Steps, CopiesKept
<1> QED
  BY <1>2, <1>3, TypedStep DEF CopiesKept
--------------------------------------------------------------------------------
AccountsInv ==
    TypesInv /\ OneRowOpen /\ SecretFirst /\ VersionsGrow /\ DeleterRemains /\ CopiesKept

LEMMA AccountsAlways == Spec => []AccountsInv
<1>1. Init => AccountsInv
  BY TypesInit, OpenInit, SecretInit, VersionsInit, DeleterInit, CopiesInit DEF AccountsInv
<1>2. AccountsInv /\ [Next]_vars => AccountsInv'
  BY TypesStep, OpenStep, SecretStep, VersionsStep, DeleterStep, CopiesStep DEF AccountsInv
<1> QED
  BY <1>1, <1>2, PTL DEF Spec

(* Every variable keeps its type, only one session secret is ever made,     *)
(* nothing is revoked that was not handed out, and the panel and the other  *)
(* processes read the same table when no transaction is open.               *)
THEOREM TypeCorrect == Spec => []TypeOK
  BY AccountsAlways, PTL DEF AccountsInv, TypesInv

(* A change of the password ends for good what was outstanding, but for the *)
(* tokens that the property excepts: those of a name made again, those that *)
(* live through a --reset, and those read ahead of their COMMIT.            *)
THEOREM RevocationIsFinal == Spec => []RevokedStaysRevoked
<1>1. AccountsInv => RevokedStaysRevoked
  <2> SUFFICES ASSUME AccountsInv, NEW c \in revoked \ spared, c.u \notin reborn PROVE ~Valid(c)
    BY DEF RevokedStaysRevoked
  <2> USE DEF AccountsInv
  <2>1. c \in Token /\ c.u \in Stored /\ c.v < Version(c.u)
    BY DEF VersionsGrow, Behind, TypesInv, TypeOK
  <2>2. /\ stored[c.u] # NoUser /\ stored[c.u].v \in Nat /\ c.v \in Nat /\ c.u \in Names
        /\ c.v < stored[c.u].v
    BY <2>1, StoredRows, RowsAreRows DEF Token, Version, Stored
  <2>3. CASE users[c.u] = stored[c.u]
    BY <2>2, <2>3 DEF Valid
  <2>4. CASE users[c.u] # stored[c.u]
    <3>1. \/ users[c.u] = NoUser
          \/ users[c.u] = [pw |-> req[writer].pw, v |-> stored[c.u].v + 1]
      BY <2>2, <2>4, OpenRows
    <3>2. users[c.u] # NoUser => users[c.u].v = stored[c.u].v + 1
      BY <3>1
    <3> QED
      BY <2>2, <3>2 DEF Valid
  <2> QED
    BY <2>3, <2>4
<1> QED
  BY AccountsAlways, <1>1, PTL

(* Once somebody has logged in there is an account in the database, unless  *)
(* one went while it was itself deleting another.                           *)
THEOREM NobodyIsLockedOut == Spec => []AnAccountRemains
<1>1. AccountsInv => AnAccountRemains
  BY DEF AccountsInv, DeleterRemains
<1> QED
  BY AccountsAlways, <1>1, PTL

(* No password that the panel or the installer generates is stored before   *)
(* there is a copy to show, and a request that fails stores none.           *)
THEOREM NoPasswordIsSecret == Spec => []PasswordsAreKnown
<1>1. AccountsInv => PasswordsAreKnown
  BY DEF AccountsInv, CopiesKept
<1> QED
  BY AccountsAlways, <1>1, PTL

(* Sessions survive every restart, login and failure: only an edit of the   *)
(* accounts ends or revives one.                                            *)
THEOREM SessionsSurviveRestarts == Spec => SessionsDependOnUsersOnly
<1>1. AccountsInv /\ [Next]_vars => [users' = users => \A c \in cookies : Valid(c) = Valid(c)']_vars
  <2> SUFFICES ASSUME AccountsInv, Steps, users' = users, NEW c \in cookies
               PROVE  Valid(c) = Valid(c)'
    BY NextIsSteps
  <2>1. secrets = 1 /\ secrets' = 1
    BY SecretStays DEF AccountsInv, SecretFirst
  <2> QED
    BY <2>1 DEF Valid
<1> QED
  BY AccountsAlways, <1>1, PTL DEF Spec, SessionsDependOnUsersOnly
=============================================================================
