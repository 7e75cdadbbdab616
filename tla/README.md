# A verification project for GUEST, the gateway panel

GUEST turns a small Linux machine into a gateway: dnsmasq for the LAN, nftables
for the firewall, WireGuard for remote peers, Tor for the addresses that ask for
it, and a FastAPI panel that keeps the operator's intent in SQLite and, on
*Apply*, renders it into nftables and dnsmasq files and reloads both.  This
directory holds TLA+ models of that system, the TLC configurations that check
them on small instances, and TLAPS proofs of what holds for every instance.

## 1. Inventory

| Component | State | Operations | Talks to | What is hard |
|---|---|---|---|---|
| Apply pipeline (`services/applier.py`, `POST /apply`) | staged files, snapshot directories, production files, kernel ruleset, dnsmasq, `last_error` | render, stage, pre-check, snapshot, install, check, load, restart, rollback, audit, mark clean | database, WireGuard, `sudo` commands | partial failure, overlap of two Applies, edits during an Apply, crash and reboot, first Apply |
| Panel database (`db.py`, migrations) | seven tables, `settings.dirty`, `audit_log`, `sqlite_sequence` | `transaction`, `mark_dirty`, `mark_clean`, `audit`, `init_db` | every handler, the scanner's own connection | one connection shared by threads, crash inside a migration script |
| Editing handlers (`routers/{peers,acl,hosts,lan_egress}.py`) | rows of five tables | 18 POST handlers | database, lease release and LAN reset helpers | forgetting a mark, side effects on existing rows, reads before the transaction |
| LAN scanner (`services/scanner.py`, `cli scan`, `POST /hosts/scan`) | `internal_hosts` | merge of leases and neighbours, upsert | leases file, `ip neigh` | overwrites addresses without a mark, races with delete |
| Renderer (`render`, `nftables.j2`, `dnsmasq.j2`, `wg_sync.py`) | none | tables and `wg show` to two texts | database, WireGuard | WireGuard down or changed, order of rules, separate SELECTs |
| Firewall ruleset (`modules/*.sh` fragments and the panel's) | sets, chains, conntrack, `ip rule` | load, packets, expiry | the kernel | order of fragments, established flows, the policy route |
| Accounts and sessions (`auth.py`, `users.py`, `account.py`, `auth_views.py`) | `users`, session secret | login, logout, change, create, delete, reset | database | counts and reads outside transactions, password versions |
| Service toggles (`settings.py`) | `wg_enabled`, `tor_enabled`, `dhcp_enabled`, systemd units | toggle, status | systemd | setting against unit, races with Apply |
| Installer (`install.sh`, `modules/`, `uninstall.sh`) | files under /etc, units | run modules, re-run, uninstall | the machine | idempotence, order of modules |
| Views, diagnostics, traffic, configuration | none | read and format | everything | `_pending_count` must agree with what is live |

What makes each correct:

- *Apply pipeline*: an Apply installs what it rendered or leaves the gateway as
  it was; what it reports is what happened; a flag that says "clean" is true.
- *Database and handlers*: every change of what would be rendered is pending
  until an Apply has rendered it; no handler resets what another set.
- *Firewall*: blocks beat exceptions, exceptions are no wider than they say,
  the lowest ACL line decides, nothing enters unasked, Tor never leaks.
- *Scanner*: a host keeps its toggles; an address the operator pinned stays.
- *Accounts*: someone can always log in; a changed password ends old sessions.
- *Toggles*: when the requests are over, a setting and its unit agree.

Every component is listed in `PROJECT.json`, with the hazards of the code, each
at its line and with the properties that catch it; where the code itself goes
wrong, the hazard has a note that says which property excepts it and how.

## 2. Modules

| Module | Models |
|---|---|
| `AtomicApply` | the promise of *Apply* (abstract) |
| `Applier` | `applier.apply`, `POST /apply`, restarts and reboots |
| `ApplierProofs` | overlapping Applies, what a reported success means, what a failed Apply and a crash leave behind, and that `Applier` implements `AtomicApply`: thirteen theorems |
| `MCApplier` | small instances of `Applier` |
| `PanelStore` | tables, handlers, scanner upsert, flags, `render`; a handler is one step |
| `PanelStoreProofs`, `MCPanelStore` | five theorems, an implementation of `AtomicApply` among them; small instances |
| `AtomicRequests` | the promise of `with transaction(conn)` (abstract) |
| `SharedConnection` | the statements of several threads on the one SQLite connection, next to the scanner's own |
| `SharedConnectionProofs` | six theorems, the refinement of `AtomicRequests` among them |
| `LanHosts` | scans, host handlers and their commands, `gateway-lan-reset`, the dnsmasq half of an Apply, the dhcp toggle, dnsmasq and the LAN |
| `LanHostsProofs`, `MCLanHosts` | five theorems; small instances |
| `Accounts` | accounts, sessions, the first account, `install.sh --reset` |
| `AccountsProofs`, `MCAccounts` | five theorems; small instances |
| `Migrations` | `init_db` of several processes, with kills |
| `MigrationsProofs` | three theorems |
| `MCDatabase` | a small instance of `Migrations` and then of `SharedConnection`: the two are checked one after the other, requests beginning when the panel is up and nothing migrates any more |
| `Firewall` | fragments, rendered chains, conntrack, policy route |
| `FirewallProofs`, `MCFirewall` | seven theorems; small instances |
| `WholeGateway` | `PanelStore` above `Firewall`: the rendered fragment is what packets meet, and what the operator asked for is compared with their fate |
| `WholeGatewayProofs`, `MCWholeGateway` | three theorems; a small instance |

How they fit together: `PanelStore` takes two things for granted, and another
module shows each.  That an Apply commits what it rendered or leaves everything
as it was is `AtomicApply`, implemented by `Applier` for one Apply at a time;
`PanelStore` implements it too, with the six reads in place of the texts
(`ApplyIsAtomic` of `PanelStoreProofs`).
That a handler is one step is `AtomicRequests`, implemented by
`SharedConnection`.  `LanHosts` puts the dnsmasq half of an Apply next to the
other code that starts, stops and empties dnsmasq; `Applier` has the rest.
What the rendered lines do to a packet is `Firewall`; `WholeGateway` runs
`PanelStore` and an instance of `Firewall` together, with the fragment the one
commits as the fragment the other has loaded.

### Not modelled, and why

- Packages, unit files and the order of the installer's modules: I/O on the
  machine, run once by one shell script; its state that other code meets (first
  account, `--reset`, `init-db`, fragments, reset helper) is in the modules above.
- `wg_enabled` and `tor_enabled`: the handler of `dhcp_enabled` with other
  units, which no other code of the panel starts or stops.
- CIDR, port, MAC and redirect-target helpers: stateless functions on strings
  whose results the models take as members of small sets.
- Page templates, style sheets, traffic statistics, diagnostics and the parsing
  of the configuration: they hold no state.
- The statements of an Apply together with packets: `WholeGateway` takes an Apply
  as `PanelStore` does, installed or not, which `Applier` justifies.

## 3. How the models correspond to the code

### Applier

| State | Code |
|---|---|
| `want` | what `render()` would return now (the two texts) |
| `dirty`, `pending` | `settings.dirty`; `_pending_count(conn) > 0` |
| `lastError` | `app.state.last_error` |
| `staged`, `prod` | `/var/lib/gateway/render/*.new`; `/etc/nftables.d/50-panel.nft` and `/etc/dnsmasq.d/gateway-hosts.conf` |
| `kernel`, `dnsd` | the panel's part of the loaded ruleset; what dnsmasq was started with |
| `snaps`, `now`, `snap[w]` | `/var/lib/gateway/snapshots/<second>/`, the clock, `snap` in `apply` |
| `pc[w]`, `job[w]` | the next statement of a thread inside `apply()`, and `nft_text`, `dnsmasq_text` |

FastAPI runs the synchronous handler in a pool of threads and takes no lock, so
a worker is a thread and one action is one file operation, one command or one
database statement.  A text is a model value; which checks accept it is a
constant (`PreOk`: nft on the fragment alone, `FullOk`: merged, `DnsOk`:
dnsmasq).  `CommandFails` lets any command of the `try` block fail, because of
its input or for no reason at all; a file operation before it may raise
(`OsError`), which leaves `apply()` through a path with no audit row.  `Edit` is
an operator's edit, which marks; `Drift` (with `Drifts`) is a scan or a change of
WireGuard, which changes what `render()` returns and marks nothing, at any moment
of an Apply too.  `late` and `behind` are history: such a change came after the
last successful Apply had rendered, or inside the Apply of a worker.  With
`Faults` the panel restarts, the machine reboots, the rollback raises half way
and its best-effort commands fail.  Assumed of the environment: `nft -f` is one
transaction; a failed `systemctl restart dnsmasq` leaves dnsmasq down; nothing
else writes these files or starts dnsmasq (the LAN reset helper and the dnsmasq
toggle do: that is `LanHosts`).

### PanelStore

Tables are functions from their primary key to a row or `NoRow`; only the
columns that reach a rendered text are kept (a host's two toggles and its
`static`, a peer's two toggles, a rule's `enabled`).  `Mutation` is the common
part of a handler's transaction (`mark_dirty` and an audit row that
`_pending_count` counts).  `render()` is six reads; `Texts` is what it makes of
them.  Production is abstracted to one variable, `live`: an Apply commits it or
leaves it, which is what `Applier` shows of one Apply at a time.  WireGuard's
peers are a function that WGDashboard may change under the panel: each has a set
of AllowedIPs entries, and an entry is the text before its slash together with
the addresses it lets the peer send from.  `IpsFor` keeps the text, as
`_peer_ips_for` does.  ACL lines come in the order of their ids: the SELECT has no
ORDER BY, and SQLite scans this table by rowid.  A handler's transaction is one
step here; `SharedConnection` takes it apart.

### SharedConnection and AtomicRequests

| State | Code |
|---|---|
| `committed`, `open` | what the database file holds; what the open transaction of `app.state.db` has written |
| `owner` | the request whose `with transaction(conn)` began it |
| `lost` | what a ROLLBACK, or the end of the process, took back, with the request whose transaction it was in |
| `pc[r]` | the next statement of a request or of `cli scan` |
| `seen[a]`, `before[a]` | what the SELECTs of `render()` have read; the edits confirmed when they began |

A step is one statement.  `BEGIN` inside another thread's transaction is refused
before the `try` of `transaction()`, so the request fails and rolls nothing
back.  `audit` of a login or of an Apply and `mark_clean` are statements without
a transaction (autocommit), and become part of whatever transaction is open on
the connection.  The scanner process waits for the write lock or gives up.  A
request writes two tables, which is enough for half of it to be missing.  Left
out: an error on which SQLite rolls back by itself (a full disk), and a SELECT
that another statement overtakes while its rows are fetched.

### LanHosts

| State | Code |
|---|---|
| `rows` | `internal_hosts`: address and `static` of each MAC |
| `leases`, `neigh` | `/var/lib/misc/dnsmasq.leases`; the usable entries of `ip neigh` |
| `file` | `/etc/dnsmasq.d/gateway-hosts.conf` |
| `up`, `res`, `mem` | dnsmasq runs; the reservations it read and the leases it holds |
| `enabled` | `settings.dhcp_enabled` |
| `req[t]` | the request of a thread: its next step and what it has read |

A step is one read, one transaction, one file operation or one command.  Every
command may fail, and each is treated as the code treats it: `check=False` of the
toggle and of the rollback and `|| true` of the helper pass a failure over, the
others end or undo the request.  dnsmasq and DHCP are modelled from how the code uses them: a start
reads both files and is refused when one address is reserved twice; `start`
leaves a running dnsmasq alone; a lease goes to the reserved address if it is
free, else to the old one, else to any free one; every change rewrites the lease
file.  `ip neigh` shows any address at any time.  `PanelStops` ends the panel's requests
where they are (a scan of the timer goes on), `Reboot` everything.
`away`, `kept`, `unread` and `forced` are history: they record when a property
has something to say (a host of which nothing knows any more; a pin that the
host has leased; the file changed under a running dnsmasq and no start came
since; the service started or stopped past the setting, or not by it).

### Accounts

| State | Code |
|---|---|
| `users`, `stored`, `writer` | the `users` table (password and `pw_version` of each name) as the panel's connection reads it and as committed; the thread whose transaction is open |
| `cookies`, `secrets` | session cookies handed out; the session secret in `settings` |
| `req[t]` | a handler between its reads, its statement, its COMMIT and what follows |
| `flash` | the password in `app.state.users_flash` |
| `panel`, `install`, `bootPw` | the service; where `40-panel.sh` or `--reset` is; the password it has yet to echo |

A password is a number given when it is made; `known` are those that somebody
typed or was shown.  The threads share one connection, so what a thread has
written is read by the others before its COMMIT and gone after a ROLLBACK; the
installer and `--reset` are other processes, which write when no transaction is
open and read what is committed.  A login's check, its read of the version and
its answer are three steps.  Hashing and the age limit of a token are left out.
`revoked`, `spared`, `reborn`, `orphaned` and `dropped` are history: tokens that a
change should have ended and those it does not, names made again, accounts that
went while they were deleting another, passwords whose only copy is gone.

### Migrations

`schema` and `recorded` are the migrations whose DDL took effect and those with
a row in `schema_version`; `executescript` commits between the two, so they are
two steps.  A process computes `todo` once, then works through it.  0003 raises
when its column exists; 0001 and 0002 do not.

### Firewall

A chain is a sequence of rule names in the order in which nft loads the
fragments (the include of `/etc/nftables.conf` is a sorted glob), a rule is a
verdict for a packet or "continue", and `FirstVerdict` is nft's evaluation.
`Fate` follows a packet through mark, redirect, routing and input or forward.
Connections record whether their first packet was redirected.  The kernel, and
conntrack above all, is modelled from how the fragments use it.  Left out:
masquerading, segment-size clamping, `ct state invalid` and `related`, IPv6.

### WholeGateway

`Fragment` is what the rendered text means to the ruleset: the four address sets
(`nftables.j2:58-76`), one line of `panel_forward` for each ACL id that an enabled
row with an address has, and the two halves of `lan_egress`.  The blocks are
looked up beside an interface and the marks are not, hence the intersections.
A peer is meant at every address its AllowedIPs let it use (`AllowedOn`), which is
more than what the panel renders; `Overlooked` is the difference.
`PanelSteps` are the steps of `PanelStore`, with `conf` following what is live;
`KernelSteps` are the packets, expiries and route changes of `Firewall`.
`IntentHolds` reads the tables (`blocked`, `tor_routed`, the enabled subnets,
exceptions and ACL rows) and not the texts.  Two assumptions are about input.
`RulesAssumption` is what the handlers normalise.  `InsideAssumption`, that every
address in the tables is one of the LAN or of a peer, is not enforced by the
forms for a host: an address typed outside the LAN is rendered and matches
nothing, or marks a remote one.

## 4. Runs

Bounds are in the `.cfg` files and the MC modules; every run ends in about three
minutes or less on two cores.

| Run | Question | Bounds and why they are enough |
|---|---|---|
| `MCApplierFaults` | Does "apply ok" mean what it says after faults, and is a clean flag true of the disk from the first success on? | one worker, two good fragments and one that the merged check rejects, one good and one bad reservation file, a fresh install, scans at any moment; a fault may fall between any two steps, so a second Apply meets every leftover: about 1,650,000 states |
| `MCApplierLive` | Is apply() atomic, does it end, is what a failed one leaves sound, and is "clean" true but for what a scan has moved? | one worker under `FairSpec`; two seconds, so that snapshot directories collide or not; two good texts of each kind tell old from new; one text per failure mode; scans at any moment |
| `MCApplierOverlap` | Do overlapping Applies leave the services on what is on disk? | two workers (symmetric), two good fragments so that the kernel can lag, one good and one bad reservation file, one second so that snapshots collide; a property of the last to finish is broken by two if by any number |
| `MCWholeGateway` | Is every edit of peers, ACLs and egress pending until live, and then obeyed by the packets? | one peer that is allowed on a net of two addresses, the one before the slash and one more that the panel overlooks, one address on each side, one port, one ACL rule, one subnet with one exception, one id in each table, one tracked flow that any earlier ruleset may have let in, the policy route up or down: about 950,000 states. No host row (a host's toggles multiply every table): what `HostsAreLive` and `BlocksObeyed` say of hosts is left to the theorems. Which of two ACL rows decides is checked in `MCFirewallTraffic`, and proved for any number here |
| `MCStoreScan` | Is an edit pending, and does anything lift a block as a side effect? | one host, two addresses, one peer, one ACL rule; WireGuard up or down; the scanner sees any set |
| `MCFirewallTraffic` | Do blocks, exceptions and ACL order decide as promised, and what do old flows see after a new load? | one address of each kind, every port that some rule names (`Ports`) and one more (rules tell addresses apart by set and interface only), every combination of the sets, two overlapping ACL lines either way round, restricted subnets with and without exceptions; one tracked flow, any ruleset after any other, policy route up or down |
| `MCDatabase` | Does init_db leave a complete schema and does the panel come up; are requests atomic to a client then, whatever shares their connection? | installer and panel, every earlier release, two kills: one to make the half migration and one more; then two edits (one to meet the other's transaction), one login, one Apply, one scan, a restart anywhere: about 320,000 states |
| `MCAccounts` | Do revoked sessions stay dead, is somebody always able to log in, and is no password lost but in the ways named? | two names (who deletes and who is deleted), two threads, three passwords (the first one, a change, and a change after it), two stops: about 510,000 states; a request that needs a fourth password cannot begin, so the run may end (`CHECK_DEADLOCK FALSE`) |
| `MCLanHosts` | What does dnsmasq serve after overlapping requests, and what does a scan bring back or move? | one host, two addresses, two requests at a time (an edit of a row is one of the two): about 1,000,000 states; what one host cannot show, a start that dnsmasq refuses because two rows are pinned to one address, is left to the theorems, which hold for any number (the rollback it leads to is reached here by a command that fails) |

Three further runs check what a document, a comment or a page of the repository
says and the code does not do; each finds its counterexample, and `PROJECT.json`
quotes the sentence:

| Run | Says | Shows |
|---|---|---|
| `FindEditDuringApply` | dashboard: "live ruleset is up to date" | an edit made while an Apply runs is neither live nor pending |
| `FindPreCheck` | `applier.py:163-168`: nft "rejecting an isolated fragment that references an existing chain" is logged, "and continue" | with no ruleset loaded, the stand-alone check ends the Apply of a good fragment |
| `FindPeerWithoutAcl` | README: without an ACL "nothing on the LAN" | the broad accept lets everything through |

The models hold further behaviour that a reader of the documents would not
expect; no run is spent on it, and the properties are worded around it.

Of the Apply pipeline:

- The merged check runs after the swap (`applier.py:193-200`), although the
  settings page says "Validated before swap": `prod` of `Applier` holds a
  rejected fragment until the rollback.
- A first Apply has no copy to restore (`applier.py:127`, `221`), so a failure
  leaves its fragment in place; `DiskDeployableWhenIdle` is therefore checked
  from a gateway that has applied before, and `SettledOnceApplied` says that
  the first success ends this for good.
- The refusal that `FindPreCheck` shows is for good: a gateway that booted with a
  rejected fragment is repaired by no Apply (`BrokenBootStays` proves it).
- Two Applies share the staged files (`applier.py:157`): one may report success
  for the other's texts.  `OkMeansLive` is stated for one at a time.
- A peer that `wg show` does not list when an Apply renders (wg0 stopped) is
  absent from its set, and nothing becomes pending when it returns.
- A scan changes the address of a blocked or Tor-routed host
  (`scanner.py:99`), hence what would be rendered, with nothing pending;
  `views.py:22-23` says that scans "don't alter the rendered ruleset", and the
  dashboard says "up to date" over the difference.  `EditsArePending` leaves out
  scans and changes of WireGuard; `CleanMeansLive` and `CleanMeansStored` say
  nothing once one has come after the last successful Apply rendered (`late`).
- An AllowedIPs entry wider than one address is cut to one (`applier.py:43`),
  although the docstring at line 35 speaks of "every IPv4 the peer is allowed
  on": the peer's block, Tor route and ACL lines miss the others.  Hence
  `Overlooked` in `IntentHolds`.

Of the firewall:

- Established flows outlive a block (`00-base.sh:137`): hence
  `BlockWinsForNewFlows`.
- The drop of marked packets comes after the accept from the LAN to the WAN
  (`30-tor.sh:119`, `10-network.sh:124`): without the policy route a marked ping
  is forwarded, hence the last condition of `TorNeverLeaks`.
- Traffic of a Tor-routed WireGuard peer is redirected to a port that the input
  chain does not open for the tunnel, and is dropped there, against README:195;
  the peer loses the panel too (`30-tor.sh:102`), hence `PanelStaysReachable`
  for the others.

Of the database, hosts and accounts:

- A process killed between the ALTER TABLE of 0003 and its record (lines 27
  and 29 of the migration) makes every later `init_db` raise "duplicate column",
  against the comment at 0003:22-25: hence `HalfMigrated` in `PanelComesUp`.
- An Apply may render half of another thread's edit, or one that is rolled back
  afterwards: hence the wording of `PhantomsAreFailedEdits`.
- The audit row of a login or an Apply that falls into another thread's
  transaction is lost when that one fails: hence `RecordsAreLostWithAnEdit`.
- "otherwise the next scanner pass would just re-import the host"
  (`hosts.py:146-147`): it still does when `dhcp_release` fails or times out, when
  dnsmasq is down, when the lease is at another address than the row's, and when
  a scan was under way that had read of the host.  `Silenced` and `ReleaseLease`
  name these cases; `AwayStaysAway` is about the rest.
- A scan that had read the old lease writes it over a pin that the host has
  leased meanwhile; a later scan moves it back.  Hence `ScansAgree` in `kept`.
- A `systemctl` that fails is passed over (`settings.py:42`, `check=False`), and so
  is a stop of the panel between lines 36 and 42: the setting is wrong then, and
  two overlapping toggles can leave it wrong too.  Hence `forced`.
- An Apply, a LAN reset and a reboot start a dnsmasq that `dhcp_enabled` has
  switched off: hence `forced` again.
- A dnsmasq that runs while a reset empties its files keeps serving the old
  reservations, or brings the old leases back: hence `unread`.
- `install.sh --reset` replaces the hash and not `pw_version` (line 158), against
  `auth.py:75-77` ("rotating a password invalidates every outstanding cookie for
  that user"): the sessions of the lost password go on.  Hence `spared`.
- A login that was let in with the old password and reads the version between
  the UPDATE of a change and its COMMIT hands out a token that outlives the
  change, or the next one when this one is rolled back: `spared` too.
- An account that is deleted and made again starts at version 0 again, and the
  old cookies of that name with it: hence `reborn`.
- Two administrators who delete each other at once leave no account; so does
  one who logs in to an account whose creation is not committed, begins to
  delete the other, and whose own row is then rolled back: hence `orphaned`.
  All sessions share one slot for the generated password: hence
  `dropped`.

The runs over `PanelStore` let handlers run between Applies and not during one
(`EditDuringApply = FALSE`): during one, `FindEditDuringApply` already shows what
goes wrong.

Each property of a passing run has a mutant: an operator of the module, named
for the mistake it makes (`RollbackRestartSkipped`, `NetworkForwardSwapped`,
...), which breaks the property when it stands in for the definition it
imitates.

**Fairness.** `FairSpec` of `Applier` asks only `WF(Progress(w))`: a thread inside
`apply()` takes its next step.  The handler is synchronous code with no wait but
for the commands it starts, and each of those (`nft`, `install`, `systemctl
restart`) ends by itself.  `SharedConnection` asks that an edit that has begun
takes its next statement, and that a scan that has begun ends: SQLite's busy
timeout bounds the wait of either for the other.  `Migrations` asks that a start
goes on to its end and that systemd starts the panel again (`Restart=` in its
unit).  No fairness is asked of edits, faults, kills or of starting a request.

## 5. What is proved

Every invariant and every action property that a passing run checks is a theorem
of its module, and so are the refinements (`AtomicApply` without its fairness),
each from the hypotheses named below and the assumptions named in the module.
`TypeCorrect` of `SharedConnectionProofs`, `MigrationsProofs`, `AccountsProofs` and
`LanHostsProofs` states a type invariant that no run repeats.  The exceptions that a
property makes are in its formula and in the comment above it, and so hold of the
theorem too: none is hidden in a hypothesis.

`ApplierProofs.tla`, for every number of workers, every set of texts and any
clock:

- `TypeCorrect`: `Spec => []TypeOK`.  `TypeOK` is inductive as it stands; its
  last conjunct ties `job` to `pc`.
- `KernelFollowsDisk`: without faults, `Spec => []KernelMatchesDisk`, with
  overlap and edits allowed.  The invariant speaks of quiet moments only and is
  not inductive; `KernelInv` adds the reason: whenever the kernel does not run
  a loadable file on disk, some worker still has an `nft -f` of its own ahead
  (`LoadPending`).  Every step that writes the file leaves its worker in that
  set, and every step that leaves the set has just loaded the file.
- `DnsmasqFollowsDisk`: the same argument for the restart of dnsmasq
  (`RestartPending`), with the case of reservations it cannot start with.
- `SuccessIsLive`: from `~Overlap`, `Spec => []OkMeansLive`, with edits and faults
  allowed.  `SoloInv` says that at most one worker is inside apply() and that its
  program counter determines which of the staged files, production, the kernel
  and dnsmasq hold the texts it rendered (`Follows`); a fault takes every worker
  out of apply(), where nothing is claimed.

`~Faults` of the two in the middle is needed: a panel restart between install and
load leaves the kernel behind the disk until the next Apply or reboot.
`~Overlap` of the last is needed: overlapping Applies share the staged files.

From no hypothesis at all:

- `NoApplyLoops`: `Left` counts the statements a worker may still run, and each of
  its steps leaves it fewer, whatever overlaps and fails.  This is the part of
  `EveryApplyEnds` that needs no fairness: no loop, no retry.
- `BrokenBootStays`: `Spec => NeverRepaired`, what the refusal of `FindPreCheck`
  leads to.  `NeedsRepair` carries its own reason: as long as the kernel has no
  ruleset, the stand-alone check refuses before a file is replaced, so what is on
  disk stays what the boot refused.

From `~Overlap`, `~Faults` and `~FreshInstall`:

- `FailedApplyLeavesDeployable`: `Spec => []DiskDeployableWhenIdle`, edits
  allowed at any moment.  `RestoreInv` ties each statement of the swap and of
  the rollback to the snapshot: the saved configuration is deployable as long
  as it may be needed, and what the rollback has put back equals it.
- `CleanFlagsAreTrue`: `Spec => []CleanMeansLive`, from `~EditDuringApply` as
  well, with unmarked changes at any moment.  `FlagsInv` carries, across the swap,
  that the flags are right about the configuration the snapshot holds, unless an
  unmarked change came after the last successful render (`ReadsClean`, `behind`).
- `ApplyIsAtomic`: `Spec => Atomic!Init /\ [][Atomic!Next]_(Atomic!vars)`.  Every
  statement maps to a stutter except render (begin), the restart of dnsmasq
  (commit), and the reported or unreported failure (abort); `MappingAt` and
  `MappingNext` resolve the CHOOSE of the mapping to the one worker inside.

`~FreshInstall` is needed because the rollback of the very first Apply finds no
saved fragment and leaves the rejected one on disk; `~Faults` because a crash
inside the swap leaves it half done; `~EditDuringApply` because mark_clean
wipes the mark of an edit it never rendered (`FindEditDuringApply`).

Each of the first two can be given up for a promise from the first success on:

- `DeployableOnceApplied` and `AtomicOnceApplied` drop `~FreshInstall`.  A worker
  that reports success has had its texts accepted by every check (`CheckedInv`),
  and from such a state `RestoreInv` holds although it did not hold before.
- `CleanIsStoredOnceApplied` (`Spec => SettledOnceApplied`) drops `~Faults` as well:
  what a crash leaves running is not what is on disk, so it speaks of the disk.
  Crashes, reboots and half rollbacks may mix an old and a new file, but only
  while both flags still read pending.  `CleanIsStored` is the same at every
  moment, from `~FreshInstall`.

`PanelStoreProofs.tla`, for any tables, ids and addresses:

- `TypeCorrect`, `EditsArePendingAlways` and `UnblockIsDeliberateAlways`, the last
  two as action properties from `TypeOK`: one lemma for each group of handlers.
- `CleanIsLive`, from `~EditDuringApply` alone, which `FindEditDuringApply` makes
  necessary.  Where the scanner runs or WireGuard changes, `CleanMeansLive` itself
  excepts the part of the texts that depends on them, and each part depends on
  tables of its own (`SameEgress`, `SamePeers`, `SameHosts`).  The invariant adds
  that what an Apply has read is still current, apart from those two
  (`JobIsCurrent`), and that what is live differs from the database only while
  both flags say so (`LiveIsClean`).
- `ApplyIsAtomic`, from `~EditDuringApply` and `~(ScanRuns /\ WgChanges)`: although
  its six reads are no transaction, an Apply installs what the database rendered
  to at one moment, the safety part of `AtomicApply`.  The moment is the read of
  the one part that can still change: the peers of WireGuard, else the hosts.
  From then on what is in flight (`InFlight`) is that part as it was read and the
  rest as it still is (`JobIsCurrent`, `JobTyped`).  With both parts changing
  there is no such moment: the peers come from before a change of `wg0`, the hosts
  from after a scan that followed it, and no database ever held the two.  The
  theorem allows one step more than `AtomicApply` has, `ResetHosts`, which empties
  the running reservations without an Apply.

`SharedConnectionProofs.tla`, for any number of requests of each kind, without
further hypotheses: `TypeCorrect`, `EditsAreAtomic`, `ConfirmedEditsAreRendered`,
`PhantomsHaveFailed`, `LostWithAnEdit` and `RequestsAreAtomic` (the refinement of
`AtomicRequests`).  `ConnInv` says of each request what of it is open, committed
and read at each statement (`EditState`, `ScanState`, `ReadState`): only the
owner of the transaction is inside one, so a COMMIT finds both of its effects
and none of another edit's.  `lost` keeps the owner with each record, so that
`LostWithAnEdit` names the edit whose transaction took it along.

`MigrationsProofs.tla`, for any number of processes and kills: `TypeCorrect`,
`NothingIsSkipped`, `OverlapsAreHarmless`.  `MigrInv` adds to the types that a
version which is no longer to do is in place (`DoneInPlace`), and that until a
kill every column of 0003 is recorded or about to be by its process
(`RecordFollows`).

`AccountsProofs.tla`, for any names, threads, passwords and stops: `TypeCorrect`,
`RevocationIsFinal`, `NobodyIsLockedOut`, `NoPasswordIsSecret`,
`SessionsSurviveRestarts`.  `AccountsInv` says that an open transaction differs
from what is committed in the one row its thread writes (`OneRowOpen`), that the
secret exists before anything is signed (`SecretFirst`), that a token is ahead of
the committed version by one at most, and only when it was read ahead of a COMMIT
(`VersionsGrow`), that who deletes an account has one or is about to, unless it
went meanwhile (`DeleterRemains`), and where each password still is
(`CopiesKept`).  `NobodyIsLockedOut` rests on the test "not yourself": the count
of users is read outside the transaction and adds nothing to it.

`LanHostsProofs.tla`, for any hosts, addresses and number of requests:

- `DnsmasqFollowsFile`: `DnsInv` says that a dnsmasq which does not serve the file
  is `unread` or has a restart ahead of it in some request.
- `SilentHostsStayAway` and `LeasedPinsAreKept`: `HostsInv` extends what a row
  must not (or must) say to everything a scan may read it from: the leases on
  disk and in dnsmasq, the neighbours, and the book of every scan under way.
- `SettingIsObeyed`: `ToggleInv` says that while nothing is `forced`
  there is one toggle at most, and that what it has written is what it will do.

`FirewallProofs.tla`, for any addresses, fragments, connections and optional
modules: `TypeCorrect`, `BlocksWin`, `RestrictionsWin`, `LowestAclWins`,
`NothingComesInUnasked`, `TorIsFailClosed`, `PanelIsReachable`.  `ForwardDecides`
resolves `FirstVerdict` over the forward chain into one nested decision; the
inductive `FirewallInv` says of each tracked flow that a redirected one was
opened by a LAN host over TCP or UDP with Tor installed, and that one a remote
address opened goes to the gateway (`Sound`).

`WholeGatewayProofs.tla`, for any tables, addresses, rules, ports, flows and
optional modules:

- `GatewayRunsThePanel`: `GatewaySpec => Spec` of `PanelStore`, each packet a stutter.
- `GatewayRunsTheRuleset`: `GatewaySpec => Fw!Spec`.  What must be shown is that
  every fragment rendered from the tables is one the theorems of `Firewall` are
  about; `GatewayInv` carries the types of the tables through the six reads of an
  Apply (`JobTyped` of `PanelStoreProofs`) to the text that runs (`LiveTyped`), and `FragmentTyped` from
  there to the ruleset.
- `IntentIsObeyed`, from `~EditDuringApply`: `GatewaySpec => []IntentHolds`.  It joins
  `CleanIsLive` (what runs is what the tables say) to the lemmas of `FirewallProofs`
  (the ruleset does what runs).  An instance of a module brings the module's
  assumptions along, and `RulesetAssumptions` proves them of this one.
  `LineOfRow` gives the line of an ACL row, so that the lowest line that matches
  is the oldest enabled row that does (`AclsAreObeyed`).

Only model-checked, because fairness and ENABLED are out of the prover's reach:
`EveryApplyEnds`, `ConnectionIsReleased`, `PanelComesUp`, and the fairness part
of `AtomicApply` in `ImplementsAtomicApply`.
