# share-bar-server in TLA+

share-bar-server runs shared game booths. A player pays through WeChat, scans
the QR code of a booth, plays, and is charged by the minute until he logs out,
the client logs out for him, an administrator does, or a charging thread finds
him silent or out of money. The server is a Python 2 Flask application under
gunicorn, with MySQL for what must last and redis for who plays where.

The modules here model what makes that hard: handlers of several worker
processes interleave between every redis command and every database
transaction, a home-made lock orders some of them, workers die, WeChat repeats
its notifications, and a thread outside the web server ends sessions by posting
to it.

Paths are relative to the repository root; all code is under `src/`.

## 1. Inventory

| Component | State | Operations | Where |
|---|---|---|---|
| distributed lock | a redis key per player, `lock_time` of each lock object | `acquire`, `release` | `exts/distributed_lock.py`, `exts/redis_api.py` |
| device | row of `device` (`state`, `state_version`, `update_state`, ...), redis copies of both with a TTL, heartbeat key | `set_device_status`, `status_transfer`, `set_update_state`, check, maintain, lock, unlock, delete, update reports | `service/device/`, `service/windows/view.py`, `service/maintain/` |
| session | redis keys `record_key`, `user_key`, `device_key`, `device_code_key`, `keep_alive`, row of `use_record` | `qr_code_online`, `do_online`, `do_offline`, `keep_alive` | `service/windows/`, `service/user/view.py` |
| account | row of `user` (balance, total, used), rows of `recharge` | `notify`, `RechargeService.create`, `online_recharge`, the bill of `cal_offline` | `service/recharge/`, `service/wechat/view.py`, `service/windows/impl.py` |
| billing | the charging text of a session, its use record | `cal_cost_time`, `do_charging`, `do_offline_order`, `cal_offline` | `exts/common.py`, `background_process.py`, `service/windows/impl.py` |
| games and versions | rows of `device_game`, `game_list`, `game_version_manage` | publish, withdraw, deploy in loops with a commit per device | `service/device/impl.py`, `service/game_version_manage/` |
| update of a device | `update_state` and its redis copy, `current_version` and `newest_version` of `device_game`, the disk of the device | poll, report, list of games, requests to update, a daily job with retries | `service/windows/view.py`, `service/device/`, `service/game_version_manage/view.py`, `background_process.py` |
| deployment and addresses | rows of `deploy` and `address` (`device_num`) | deploy, relocate, delete address, delete device | `service/deploy/`, `service/address/` |
| registration | redis keys of a minute and of five minutes per mobile, rows of `user`, session cookies | authorize, request a code, log in, fetch the profile, delete | `exts/sms_api.py`, `service/user/`, `service/wechat/view.py`, `exts/common.py` |
| access tokens | two redis keys with a TTL | a polling thread | `background_process.py` |
| administrators and roles | rows of `admin` and `role`, who is signed in | sign in, create, disable, delete, the same for roles, `syncdb` | `service/admin/`, `service/role/`, `manage.py` |
| maintainers | rows of `maintain`, each with an address or with all | create, move, disable, delete, their login | `service/maintain/` |
| charge modes | rows of `charge`, `charge_id` of devices | create, update, delete | `service/charge/` |
| queries, templates, pages, payment client, file server, mongo, scripts | none of their own | | `service/template`, `tools/`, `version_file/`, `exts/mongo.py` |

How they meet. A login reads the device, the account and the three session keys
without a lock, creates the use record and commits, takes the lock of the
*player* in `do_online`, writes the device, writes the keys. A logout reads the
charging text, takes the same lock in `do_offline`, writes the device, the
record and the account in one transaction in `cal_offline`, deletes the keys one
by one. The charging thread reads keys only and acts through
`POST /windows/logout`. A recharge writes the account without the lock and then
takes it to copy the new balance into the charging text. The client writes the
device while all this goes on. Administrators deploy and delete devices and
addresses, and a build server publishes games; these take no lock and are loops
and chains of commits over tables that count or list one another.

Three facts about the stack that the modules rely on, all in the source:

* `SQLALCHEMY_COMMIT_ON_TEARDOWN = True` (`settings.py:15`): what a handler has
  written and not committed is committed when it ends, also when it answers an
  error.
* MySQL at its default level: a transaction keeps seeing the rows as of its
  first SELECT, an UPDATE works on the newest committed row and keeps it until
  the transaction ends. `x.attr += n` on an ORM instance writes the sum of the
  *snapshot* and n. A commit expires the instances, which are then read anew.
* `release` stands in a `finally` that also runs when `acquire` raised.

What is hard to test is listed under `hazards` in `PROJECT.json`, each at its
line, with the properties that cover it.

What makes each part correct:

* lock: no two requests inside, a lost key does not block forever, an expired
  key is not stolen;
* device: a version that moved on is not overwritten, a player's device is not
  taken away, a device leaves maintenance, caches agree with the row;
* session: one player per device, every stored token can be resolved, a record
  is billed once, a busy device has a session, a silent session ends;
* account: a payment is credited exactly once, acknowledged only when recorded,
  never lost, and no bill is lost;
* fleet: the count of an address is the number of devices there, the newest
  record of a device says where it is, every device has the published games, an
  address with devices is not deleted;
* billing: the minutes follow the published rule, nobody is thrown out with
  money left, what is left unpaid is bounded;
* update: a device that lacks a version gets it, is marked only with what is on
  its disk, and is not left locked;
* registration: one text a minute, a code is good for one login;
* tokens: a key does not lapse while WeChat answers now and then;
* administrators, maintainers, charge modes: somebody is left to administer, a
  maintainer has a place to go, a refusal changes no price.

## 2. Modules

| Module | Models | Extends / uses |
|---|---|---|
| `UserLock` | what a caller may rely on: enters only when the key is absent, may fail, may take away somebody else's key | |
| `DistributeLock` | `acquire`/`release`, one redis command per step, with the clock | implements `UserLock` |
| `DeviceRow` | the row of a device: versioned UPDATE, row lock, commit, rollback | |
| `DeviceStatus` | every handler that writes the state, the update state, the heartbeat or their redis copies | `DeviceRow` |
| `Session` | login, logout, keep-alive, charging thread, over the keys, the row and the lock | `DeviceRow`, `UserLock` |
| `Account` | notify, recharge, sync into the session, the bill as far as it writes the account | |
| `CostTime`, `Billing` | seconds to minutes; the charging thread's check against the bill | `CostTime` |
| `AddressRow`, `GameRow` | the tables of addresses, deployments and games, a transaction per operator | |
| `Fleet` | the handlers that deploy, move and delete devices, delete addresses, publish and withdraw games | `AddressRow`, `GameRow` |
| `GameUpdate` | polls and reports of a client, requests to update, the daily job | `DeviceRow` |
| `Registration` | codes, logins that take one, accounts, profiles | |
| `AccessToken` | the thread that renews the token and the ticket | |
| `Staff`, `Maintainer`, `ChargeMode` | the office: administrators and roles, maintenance staff, rates | |
| `Office` | the composition of the five with `Billing`: each step is a step of one of them | `Billing`, `AccessToken`, `Registration`, `Staff`, `Maintainer`, `ChargeMode` |
| `MC*` | constants for TLC | the module they are named after; `MCDistributeLock` also `Account`, see below |
| `*_proofs` | theorems | the module they are named after, `TLAPS` |

### DistributeLock and UserLock

`lockKey` is the value under the redis key, `lockTime[p]` and `now[p]` the
attributes of p's lock object, `pc[p]` its next statement. `SetnxWins`,
`SetnxLoses`, `KeyAlive`, `KeyVanished`, `KeyExpired` are the outcomes of the
statements of `acquire`; `KeyVanished` is `int(None)` after somebody deleted
the key between SETNX and GET; `KeyExpired` raises because `RedisClient` has no
`getset`. `ReleaseInTime`, `ReleaseLate` and `DeleteKey` are `release`; the
comparison and the DEL are two steps. `Crash` can happen anywhere, `Tick` at
any time. `owner` and `foulers` are history variables.

`UserLock` has no clock. `DistributeLock` is shown to implement it by mapping
labels to phases, by TLC and by proof; `Session` uses only its promises
(`UsesUserLock`).

### DeviceRow and DeviceStatus

`row[d]` is the committed row, `dirty[d]` the row its holder has written and not
committed. A request carries `seen` (the ORM instance), `from` (the state it had
when the version was read), `to` and `uto`. Each handler is a chain of steps,
split at every redis command and every statement that others can see:
`StateWritten`/`StateRefused` and `StateCached` are `set_device_status`,
`UpdWritten`/`UpdRefused` are
`set_update_state`, without the copy in redis that is only read to answer the
client. `Teardown` is the commit at the
end of a request. The copies expire by themselves (`StatusExpires`), the heartbeat may come or go at any time.

`LoginRaises` and `LogoutRaises` are redis failing in the middle: a login
catches it after the UPDATE to busy and answers success, so that its teardown
commits the row; a logout rolls back.

The session is one bit here, `seated`, and the bill one step that commits or
rolls back; logouts of one session do not overlap, which is what the lock is
for and what `Session` looks at.

### Session

Keys are functions (`recordKey`, `userKey`, `deviceKey`) and a set
(`onlineKey`); a token is the pair of player and device, as the text
`user#device` is. `record` and `billed` stand for the use records. The device
key, the device code key and, on the way in and out, the keep-alive key are
written by consecutive commands of one handler and are one step; everything
else is a step of its own. The charging thread is `Sweep` (it has decided to
end a session) and `Deliver` or `OrderLost` (what became of its post). What
happens to a device between sessions is `SelfCheckDone` and `UpdateWaits`, in
one step each; `DeviceStatus` has the detail. A logout of an administrator may
see the device in a snapshot taken before the lock (`AskLogout`), because
`login_required` has opened the transaction.

Both handlers catch what redis raises. `do_online` then answers success
(`windows/impl.py:197`): `LoginRaises` leaves the chain of keys wherever it is,
from the SETEX of the cached state on, and the teardown commits the row busy.
`unopened` is history, the devices whose last login was broken off before the
charging text; `BusyHasSession` excepts them, since there the code does leave a
busy device that nobody can end. A login broken off later leaves a text, and
`SilentSessionEnds` shows that the charging thread ends it. `LogoutRaises`
leaves the keys that were not yet deleted, as a death does, and counts as one.

The section of a living holder is assumed shorter than the four seconds of its
key. `DistributeLock` and `Account` drop that assumption.

### Account

`account` is the row, `recharges` the transactions that have a recharge row
(`transaction_id` is unique), `text` the charging text, `gen` the device's
`state_version` as far as sessions move it: it is what keeps two logouts from
billing twice. `snap` is the snapshot in which a request saw the account: a
recharge and a bill write it plus or minus their amount. A notification is
`FindRecharge`, `QueryOrder` (which may fail), `CreateRecharge` (one
transaction; what follows the commit may raise, then the notification answers a
failure though the payment is recorded), the lock, `SyncRead`, `SyncWrite`.
`notify` answers JSON. Whether WeChat takes that for an acknowledgement or goes
on posting, late copies are in the model: a payment may be notified after
`acked`. With `foul` in `Faults` the lock may fail at any time, a holder may be
late and a release may take away another's key, as `DistributeLock` shows; with
`crash` a worker may die at any step. `orphaned` is history: the records whose
logout died between the bill and the deletion of the keys, the one way left for
a billed session to come back (`SettledStaysEnded`).

### CostTime and Billing

`cal_cost_time` as it stands. `Billing` has one session, its age in seconds, and
the charging thread with its pace: it looks every 60 seconds plus at most
`Delay`, and an order it sends is served, fails or times out within `Delay`.
The two clocks differ on purpose: the thread charges the whole difference, the
bill `.seconds` of a timedelta, which starts again at zero each day.

### AddressRow, GameRow and Fleet

`num[a]` is `device_num`, `place[d]` the `address_id` of a device, `logged[d]`
the address in its newest row of `deploy`; `listed[g]` are the rows of a game in
`game_list` (which has no unique index, so there may be several), `versions` the
rows with an md5, `games[d][g]` the `newest_version` in `device_game`. A loop
over `game_list` has in hand the set of rows still to go, taken in the order of
their ids (`First`, `Rest`), which no two rows share. Each
operator of the two row modules is one transaction; its `May*` companion says
when MySQL accepts it (a unique index, a foreign key, an UPDATE that must meet a
row). `Fleet` chains them as the handlers do: `Deploy` to `Record` is
`deploy_device` with both of its branches and `deploy_device_game`, `DropDevice`
to `Drop` is `delete_device`, `DropAddress` and `Erase` are `delete_address` for
one element of its list, `Publish` to `Told` is `update_game`, `Withdraw` to
`RemoveVersions` is `delete_game`. Steps alternate between a transaction that
writes and the reads of the next: what a request read is in its record (`n`,
`oldNum`, `row`, `seen`, `found`) until it is used. A refused transaction ends
the request, except the INSERT of a game, which `deploy_device_game` passes over.

`raced`, `racedDevices` and `racedGames` are history: the addresses, devices and
games that two requests had in hand at once, or that a request which died had in
hand. A deployment or a deletion of a device has the device in hand, the
addresses it names and the one the device is at by now (`Sites`), and every game
of the device; a deletion of an address has the devices it found there, and
wherever they are by now; a publication or a withdrawal has its game in hand, on
every device. The properties of the run except these, and only these: there the
code really loses counts, records and games (next sections), so each property
says how far the damage of a race or a crash can spread. Whether a device may be
deleted depends on its state, which
`DeviceStatus` has; here it always may.

### GameUpdate

`newest`, `current` and `installed` are the versions of the game of a device:
published for it, marked by `update_device_game`, and on its disk. `updCache`
is the redis copy of `update_state` that `get_device_game_state` answers from.
A request is split where another may come in between: the first SELECTs
(`FirstReads`, one operator per handler), the versioned write of the state
(`WriteState`), the mark with its commit (`MarkGames`), the write of the update
state without a version (`WriteUpd`), the SETEX that comes before the commit
(`CacheUpd`), the commit at teardown and the answer (`End`). The client is not
in the repository: `React` is what `windows/view.py` expects of it, and it may
give up or restart at any point, while the request it sent is still served
(`GiveUp`). The daily job tries again after a failure or a timeout
(`TryUpdate`, `JobTimeout`), so that its own posts may overlap. Logins, logouts
and publications are one step here; `DeviceStatus`, `Session` and `Fleet` have
their detail. `blurred` and `overtaken` are history. A device is `blurred` when
two requests meet over its update state, when a worker dies between its UPDATE
and its commit, and when a bill fails after the SETEX; it is no more once its
copy has expired with nobody at work on it and its client polling (`Settled`). A
device is `overtaken` while a report lags behind its list. `MarkedIsInstalled`
excepts both and `CopyFollowsRow` the first, because there the code does mark
what is not on the disk, and does leave a stale copy. So `CopyFollowsRow` says
that such a copy comes from nothing else, and does not outlive its TTL.

`UpdateUnlocks` allows one end of an update that leaves the device locked
(`Shut`: locked, the update state `finish`), and says that it takes two requests
that met: a report `finish` that stalls between its two commits and writes
`finish` over the self check of a later logout, or a report `ing` that was given
up and commits after the `finish` that followed it.

### Registration

`limit` and `captcha` are the two keys per mobile, a code is its number in the
order of the texts (codes of six digits that coincide by chance are left out).
`mobile_reach_rate_limit` and `validate_captcha` are two commands of redis each,
with other requests in between; the text may fail, or be sent and its answer
lost. An account is a row per mobile that is never removed (`delete_user` marks
it); a login of a deleted player brings it back. `rushed` and `doubled` are
history: the mobiles and codes two requests had in hand at once, where two
texts, or two logins by one code, do occur.

### AccessToken

Time goes in ticks of 30 seconds: a look, a request that may time out after two
ticks, the look at the ticket, its request, and a sleep of a tick. The margin of
`WX_CACHE_LAST_TIME`, 300 seconds, is two of the longest rounds.

### Staff, Maintainer, ChargeMode

A request is two steps: the snapshot in which a handler checks, which
`login_required` has opened, and its transaction, with what MySQL refuses
(unique names, foreign keys) and what SQLAlchemy writes (only attributes that
differ from the snapshot). Between the two any other request may commit.
`Staff.overtaken`, `unseated` and `evaded` are history: somebody acted on an
administrator who by then was no superadmin in use any more, the role of
superadmin itself was renamed or deleted, somebody disabled or deleted himself.
The id in a request may be a string (`text`): it equals no number, so the look
whether it is one's own passes, and MySQL finds the row. `Maintainer.erased` holds the ids of deleted addresses,
of which maintainers are not told. In `ChargeMode.Assigned` are the attributes
`update_charges` has set by the time it refuses, which the teardown commits.

### Office and MCDistributeLock

These two put together modules that share no variable. A behaviour is a
*scene*, that is a behaviour of one of the modules while the variables of the
others keep their initial values; TLC explores the sum of the state spaces and
not the product, and each property is about its own scene. `Office` has the
constants of its parts as its own, `OfficeAssumption` says what the parts ask of
them, and `MCOffice` only gives them values. The theorems are about `OfficeSpec`
with any constants; since every behaviour of a part is a scene, they hold of the
part by itself. `MCDistributeLock` does the same for the lock and for `Account`
where it is live.

## 3. Runs

| Run | Question | Bounds and why they are enough |
|---|---|---|
| `lock` | is the section exclusive, and when not; does a key left behind go away; is this a `UserLock`. In a second scene: is a payment recorded in the end | two requests, timeout 1, clock up to 5: a key expires twice and its successors too; more requests are covered by the proofs. One payment, one session, a lock that fails, workers that die |
| `status_all` | does the version protect the state | one device (rows do not interact), two handlers out of all ten at a time, crashes; new requests until the version is three, so up to a login, a logout, an unlock and what follows |
| `status_live` | does maintenance end | the same up to version two; no crash, since liveness asks accepted requests to finish |
| `session_safe` | do keys, rows and bills fit together | two players, two devices, two sessions, bills that fail, two requests at a time, the first login possibly broken off by redis at any key; nobody asks for a logout or ends a self check from the third version of a device on, which is a login, a logout, a self check, the second login and whatever began before |
| `session_live` | does a silent session end; is the lock used within its promises | one session, one worker that dies or one logout that redis breaks off at any step, a login broken off at any key, lost orders, one forced logout of a live client, the device may be deleted |
| `session_two_users` | one player per device | refuted |
| `account_safe` | payments and bills | two payments of 1 and 3 and sessions that cost 3: bills above, at and below the balance; two sessions, two requests, workers that die at any step |
| `account_paid` | is what was paid and not used on the account | refuted |
| `fleet` | do counts, records, games and addresses fit together | two devices, two addresses, a game with two versions: enough to deploy, move, meet and delete; two requests at once (a race is between two), three in all, so that a third meets what a race or a death left behind; a device that is gone does not come back |
| `update` | does a published version reach the device, and its mark only what is on the disk; is the device given back; does the copy follow the row | one device (the job goes through them one after the other), two versions after the first, so that one comes out while the other is loaded; two requests at once; logins until the third version of the row, so before, between and after updates; one upset: a request of an administrator, a death, a timeout, a client that gives up or a failed bill, of which a second one adds no new pair of requests that meet. The bound on logins is what ends sessions for good: a device that is busy at every report `ing` is never updated, and neither is one left busy by a broken-off login |
| `office` | six scenes. Billing: minutes, debt, early ends. Tokens: do they lapse. Registration: texts and codes. Staff: is somebody left. Rates: do refusals change prices. Maintainers: can they log in | billing: every second of five minutes, every start of the pass, delays of up to five seconds, payments at any second; a price of 4 makes 0.75 of it a number. Tokens: a life of three ticks beyond the margin. Two requests at a time everywhere, since a race is between two; three requests for codes and logins over two mobiles and two codes; five among three administrators and two roles; four over two rates and a device, and over two maintainers and two addresses |
| `billing_day` | the rule over a day | refuted; minute steps up to 25 hours |

Deadlock is checked except in `session_live`, where a deleted device with no
player left is a system at rest, and in `fleet` and `office`, where the bounds
on the number of requests, and on the age of a session, end behaviours.

`MaxVersion`, `MaxRecord`, `MaxCrash`, `MaxForced`, `MaxSession`, `MaxTime`,
`MaxAge`, `MaxBalance`, `MaxStart`, `MaxText`, `MaxUpsets` and `Newest` are
bounds of the runs and nothing in the program (and so is `AccessToken.Enough`,
up to which rounds are counted).
`MaxVersion` bounds who starts (except the client's check, the login and the
charging thread, which have to go on for the liveness properties), never who
has started.

### Fairness

* `DistributeLock`: a request keeps running, time passes. Nobody need start or
  die.
* `DeviceStatus`: an accepted request is served to its end (`WF`); the client
  posts `/check` again and again, and now and then gets a worker (`SF`); the
  status copy honours its TTL.
* `Session`: accepted requests run on; a request spinning in `acquire` gets in
  if the key is free again and again (it polls every millisecond, so `SF`); the
  charging thread loops without end over the record keys and its posts do not
  all get lost. Players, clients and administrators owe nothing.
* `Account`: WeChat repeats what is not acknowledged, and neither a failed query
  nor the death of a worker meets every notification at the same place.

* `GameUpdate`: accepted requests are served (`WF`); the client, a loop, goes on
  asking and gets a worker now and then (`SF`), and loads what it was told to
  load; the daily job comes again each day; a player leaves in the end and redis
  honours the TTL of the copy. Publications, logins and upsets owe nothing, and
  there are only `MaxUpsets` of the latter: two requests to update that are slow
  again and again could otherwise send a device through the same update for
  ever, which the code does not prevent.
* `MCDistributeLock`: that of each scene. What is fair in one is disabled in the
  other, so that it asks nothing there; only `Tick` has to name its scene.

`OfficeSpec` states no fairness: its parts have safety properties only.

### What is refuted

* `OneUserPerDevice`, `exts/common.py:54` treats it as an error. The device key
  is looked at before the lock, and the lock is the player's: a login that has
  passed its look while the device was free goes on after another session on the
  device has come and gone, or is still coming.
* `PaidIsKept`, `doc/todolist:19` lists recharge, logout and charging as places
  that need the lock. The recharge takes it only for the copy in redis; recharge
  and bill both write the balance from their snapshots, the later commit wins.
* `BilledByTheRule`, `doc/需求管理.txt:34`. A session of 24 hours costs nothing.

### What the models show and no run repeats

Each of these was found with TLC on the models above by one more property, or by
the exception a property had to make, or while reading the code for them; the
properties are left out to keep the set of runs small.

| Code | What happens |
|---|---|
| `distributed_lock.py:46` | `release` never compares the stored value: after one late holder two requests can be inside at once (the reason for `foulers`) |
| `device/impl.py:158` | line 138 says cache and database are strictly consistent: a reader that missed fills the cache with the row it read, after a writer has cached the newer state, and the two differ for the TTL, a day |
| `device/impl.py:182` | `status_transfer` acts on the cached maintenance state and writes free or locked over whatever the row is in by then (`device/impl.py:163` says it is only used from maintenance) |
| `windows/impl.py:182` | the version a login compares is read after the commit of the use record, not when its state was checked: a device locked in between becomes busy |
| `windows/view.py:160` | the update state has no version: a report `ing` committed between the look and the write of a login does not stop it |
| `windows/view.py:454` | an `ing` report checked before a logout overwrites the self check the logout has started |
| `windows/impl.py:54` | a logout that loses the version returns without a rollback; the teardown commits the self check of a device that was not locked |
| `windows/impl.py:197` | redis fails after the UPDATE to busy: the login answers success and the row is committed busy. Without a charging text nobody can end that session and nobody can log in, until the device is deleted or its state changed by hand; a text without the other keys is ended by the charging thread. In the same way a logout whose deletions fail leaves a session that has been billed |
| `device/impl.py:254` | a device is deleted while a login goes through |
| `windows/view.py:147` | one player gets into sessions on two devices, by the same gap as for one device |
| `windows/impl.py:247` | a logout settles the record of the text it read before the lock: if the player has come back meanwhile, the old record is billed again and the new session ends unbilled |
| `windows/impl.py:269` | a worker that dies between two deletions leaves the player's key, which never expires: he cannot log in until it is removed. One that dies between the commit of the bill and the first deletion leaves a session that is billed again |
| `background_process.py:167` | the record key of a login is there before its keep-alive key: the charging thread takes the player for silent |
| `windows/impl.py:35` | a session whose device row is gone cannot be ended by anybody; each pass of the charging thread orders it again |
| `recharge/impl.py:42` | of two recharges at once, one is missing from the total |
| `windows/impl.py:148` | the charging text is made from a balance read before the lock: a recharge that comes in between does not reach it |
| `recharge/impl.py:100` | after a failed lock, the sync of a recharge writes the text of an ended session back |
| `address/model.py:178` | of two deployments to one address at once, one is missing from its count |
| `address/view.py:44` | an address deleted while a device is being deployed there takes the address from the device (`需求管理.txt:5` wants deletion only without devices); every list that shows the device then fails, and so do its redeployment and deletion |
| `game_version_manage/impl.py:73` | two first publications of a game leave two rows in `game_list`; later publications and a withdrawal touch the first only, and new devices are given both versions in turn |
| `device/impl.py:557` | a device deployed while a game is being published or withdrawn may miss it, or keep it |
| `background_process.py:236` | a payment that arrives while the order to end the session is on its way does not stop it |
| `device/impl.py:581` | a report `finish` marks the newest version of its own snapshot: if that came out after the client had its list, or the report is an old one that was given up, the device is marked with a version it does not have and is not asked again |
| `windows/view.py:458` | a late report `finish` that meets a new request turns `wait` into `finish` without marking anything; only the next daily job asks again. One that stalls between the mark (`device/impl.py:586`) and its update state (420), while the client gives up, updates again and somebody logs in and out, turns the self check of that logout into `finish`: the device stays locked until another version comes out. A report `ing` that is given up and overtaken by the `finish` does the same |
| `device/impl.py:420` | two writers of the update state, of which the one that commits last is not the one that wrote redis last, leave a stale copy for a day; two slow requests to update and the reports of the client can go round for ever |
| `windows/impl.py:257` | a bill that raises after `set_update_state` rolls the row back, the copy in redis stays `check`: the client polls it, ends a self check that is not there, and the device goes on |
| `sms_api.py:73` | two requests that look up the limit of a mobile at once both send a text; a refused puzzle leaves the limit standing for its minute |
| `sms_api.py:63` | two logins that compare a code before either deletes it are both let in; the slower deletes whatever code is there by then, also a newer one; of two codes the one stored last is good, also when it was texted first |
| `wechat/view.py:237` | a login that found the account not deleted, and commits after an administrator has deleted it, answers success and the account stays deleted: only what differs from the snapshot is written |
| `admin/view.py:108` | two superadmins who disable each other at once both succeed, and nobody is left; `load_user` does not look at the state, so a disabled administrator who is still signed in goes on acting, also on the last one in use. The ids at 111 and 146 are compared as they come: a superadmin who sends his own as a string disables or deletes himself, also as the last one. `syncdb` restores neither a disabled founder nor a founder without a role |
| `role/view.py:97` | a role can be deleted from under the administrators who have it; `role.name` of such an administrator raises in every check |
| `charge/view.py:127` | an update of a rate refused for its price has set the name, which the teardown commits |
| `charge/view.py:82` | a deleted rate leaves its devices without one; login and lists of such a device raise, and no handler gives it another |
| `maintain/impl.py:118` | an id that is no address makes a maintainer one of all addresses; the deletion of an address leaves its maintainers in use with no device that lets them in |

## 4. Proofs

Every safety invariant and every action property of a passing run is proved, and
so are the type invariants and the refinement of the lock; only the liveness
properties are left to TLC. All for every value of the constants, from the named
assumptions of the modules: types of the constants, that there is a device and a
game where a request names one, that there are finitely many devices and games
in a table and requests in `Session`, and that the marker values are no values of
the program. Each `*_proofs` module says at its head which invariant it rests
on. The invariants were checked by TLC before they were proved.

**DistributeLock_proofs.** `LockTypeOK`. `LockOwnerInside`: the invariant is
`OwnerInside` with the fact that the expiry of an attempt past its clock reading
is positive, so that a stored key is never mistaken for an absent one; with it,
whoever is inside owns the key, as long as `foulers` is empty. `LockExclusive`
follows, since there is one owner. `LockNeverTakenOver` is an action property:
only SETNX stores, and only when there is no key. `LockRefinement`: the lock
implements `UserLock`, step by step, each label mapped to a phase.

**DeviceStatus_proofs.** `TypeCorrect`, `VersionsCompared` (the optimistic
locking) and `PlayersKeepTheirDevice`. The invariant says of a request that is
about to write that the instance it has in hand is not newer than the row, and
of the same state if of the same version (`SeenOK`, `Checked`); and of one that
has written and not committed that it moved the update state only, or made the
next version out of the state it had in hand (`Written`). Only a commit changes
a row, and only its holder commits it, so the two facts meet there.

**Session_proofs.** `SessionTypeOK` from `TInv`: where a request stands says
what it has in hand, and the bound on records counts the logins that are about to
create one. `SessionsUseUserLock`: each step is, for each player, a step of
`UserLock` or none; here, as in the lock, the refinement needs no more than the
types. `Held`: whoever is between `acquire` and `release` holds the key.
`TokensResolve`: under it the keys are set record first and deleted record
first, so that a key of a player or of a device without a charging text is one
that its holder is about to delete (`Resolved`). A death in between, or a logout
that redis breaks off there, leaves such a key for good, hence the condition on
`crashes`. `BusyIsHeld` holds over these as well: a row that is busy and not
being written is that of a session which no logout has committed yet (`Taken`),
since a login commits after its keys are set and a logout deletes them after its
commit; or it is that of a login which redis broke off, and which has set the
text or left its device in `unopened`. `BilledOnceASession`, while
`crashes` is zero: the version of the device orders the logins of a token as their records
are ordered (`VInv`). A login that another one, with a later record, has
overtaken therefore meets a version that moved on, a row that is gone, or a
holder who is about to move it (`Outrun`), and does not put its old record into
the charging text. So no logout is ever ahead of the text (`Behind`); one that
bills a record for the second time finds under the lock that there is a session
(`Looked`), whose text cannot have that record, since that one's session is
being closed by somebody else inside the lock (`BilledCloses`): it has a later
one, of the player who came back.

**Account_proofs.** The inductive invariant `IInv` is `TypeOK` with
`NotifyHasTx`: which kind of request can be at which label, and that a
notification carries a payment; without it `Fee[tx]` has no type.
`PaymentCreditedOnce`: only `CreateRecharge` touches the ghost and the set of
rows, and the unique transaction id guards it. `AckedPaymentRecorded` needs that
a notification past `create`, and still going to answer success, has committed
its row (`CommittedIsRecorded`). `NoMoneyFromNowhere` (`NeverOverCredited`): the
account never has more than what was recorded. Recharges overwrite each other's
sums, so what is kept is that neither the account nor any snapshot of it is above
the sum of the recharge rows (`MInv`): a recharge adds its fee to a snapshot and
to the sum, and everything else copies or takes away. That a new payment adds its
fee to the sum over a finite set, and that a sum is never less than before, is
shown by least counterexample on the size of the set, since an induction theorem
of the library cannot be instantiated. `UsedTotalIsSpent` needs `SnapsCurrent`: a
logout whose snapshot has the device's present version has the present used
total, because every bill moves the version. None of these assumes that the
lock works or that nobody dies. `BilledSessionsEnd` (`SettledStaysEnded`) does
assume `LockWorks`, that no fault of the lock is among `Faults`: then who is
inside holds the key, a recharge that is about to write the text has the current
one, a login has an id nobody has, and a text that is billed is being deleted
(`EInv`).

**Billing_proofs.** `CostTimeFollowsRule`: the rounding, for every number of
seconds. `BilledByRuleWithinADay`: every bill of less than a day.
`NobodyThrownOutEarly`: while an order is on its way and nobody pays, the cost
is above the balance (`SpentInv`).
`DebtBounded`: the invariant `DebtInv` follows a session from look to look. At
each look that does not end the session the balance lacks less than 0.75 of a
minute; until the order sent at a later look is served at most
60 + 2 * `Delay` seconds pass, which cost at most `Passes` minutes
(`CostOfAPass`); before the first look there are at most 60 + `Delay` seconds
and a minute was paid for at the door (`FirstPass`, `BeforeFirstPass`).

**Office_proofs.** `StepsApart`: a step of the composition is a step of one part
and leaves the variables of the others alone; so each part keeps an invariant of
its own over its own steps, and the invariants are those of `OfficeSpec`.
`Lapses`, for every life above the margin. A look is
counted against a key when it meets it due, and `Covered` is an inequality
between what the key has left and what it still has to bridge: until the next
look at most `Ahead` ticks pass, and each counted look has cost at most a
`Round`. When nothing is left, at least `Margin \div Round` looks were counted.
`OneTextAMinute`: of a mobile whose limit no two
requests looked up at once, at most one request is between its look and its
SETEX, and who has passed has left the key there (`Limits`). `CodeUsedOnce`: a
code on its way to redis is nowhere else (`OnItsWay`), one in redis is that of
one mobile (`OneMobile`), and one that has let somebody in is gone from redis and
from every hand, unless two logins had it at once (`Spent`). That codes are texted one
after the other (`Given`) is what makes a new one differ from all these.
`SuperadminRemains`: the invariant is the property
itself with `NotSelf`, that no request disables or deletes its own author but by
an id that is a string, which is noted.
Whoever disables or deletes while still a superadmin in use is then one who is
left; `LedOnly` keeps a deletion of another role from taking the role of a
superadmin. `MaintainerLetIn`: every address in a row or in a request is one
that is or was there, or all of them (`Known`). `RefusalKeepsPrices`, an action
property: what a refused request has set is at most the name (`Timid`), and only
`Update` writes a price.

**GameUpdate_proofs.** `UpdateTypeOK` from `TInv`: where a request stands says
what it has in hand (`Made`), so that what it writes next is a row and an update
state. `CopyFollows` (`CopyFollowsRow`): a row that is written and not committed
is held by a request that has the device in hand (`Held`), and two such requests
are noted (`Met`), as is the device a request had written when its worker died.
So of a device that is not `blurred` one request at most
stands between a row and its copy, and the copy is the last value written, or is
about to become it (`Copied`); what a poll was told, and is about to store, is
that value too. A device ceases to be `blurred` only when it is `Settled`, where
there is no copy, no request and nothing the client waits for, so that all of
this holds of it anew (`SettledCleared`). `MarkedAsInstalled` (`MarkedIsInstalled`) follows the client:
what it waits for is being served (`Waits`), an update that was begun and given
up leaves it polling (`Begun`), a client that is not `overtaken` loads what is
newest (`Loads`), and when it reports `finish` the newest version is on its disk,
unless the update state has moved on from `ing`, in which case the report marks
nothing (`HasNewest`).

**Fleet_proofs.** Three invariants, each with the one before it as a conjunct.
All begin with `Met`: what two requests have in hand at once is noted, and by
`Frame` a step of one touches only what that one has in hand. What is not noted
is therefore in one hand at most, and it is enough to follow one request.

`EveryDeviceCounted` (`CountsAgree`) and `NoneEvicted` (`OnlyEmptyErased`) from
`CInv`. A request knows where its device is and that the address is there
(`Sure`), and the count it is about to write is the stored one (`Counted`). An
address is short of exactly one device, that of a deployment which has moved it
out of the old count or into the table and has not yet counted it (`Owes`,
`Balance`); the two sides of `Balance` change together in `Uncount`, `Move`,
`CreateDevice`, `Count` and `Drop`, and a request whose work is refused there has
met another. A deletion of an address saw the count zero, hence no device, or one
that is noted (`Doomed`).

`EveryMoveRecorded` (`RecordsAgree`) from `RInv`: the newest record of a device
is where it is, or a deployment that has put it there still has the record to
write (`Logged`). That it gets there and does not end at a game it cannot add is
`Seen`: the rows of the device it saw are still those.

`EveryDeviceFollows` (`GamesFollowList`) from `GInv`. A game has one row in
`game_list` (`OneRow`), with an md5 or with a publication about to save it
(`Versioned`), and a device matches that row, or is being filled, or a
publication or a withdrawal is under way (`Matched`). The loop of a publication
or a withdrawal has been at every device but those to go (`Spread`), and that of
a deployment has added every game but those to go (`Filled`); a device that is
new has none of the games (`Unborns`), and nobody gives any to a device without a
row (`Born`).

The proof corrected the model. `OnlyEmptyErased` and `CountsAgree` held for the
three requests of the run and not for every number: a deletion of an address
takes the address from every device it found there, and one of these may have
been moved twice meanwhile, the second time between two addresses the deletion
does not name. So what a deletion has in hand became those devices and wherever
they are. The ids of `game_list` had to be distinct from the start, and where the
hands of a request were a CASE whose guards overlapped they are an IF now.

The type invariants of the lock, the account and the billing are proved and need
no run. Only model-checked are the liveness properties (`StaleKeyHeals`,
`MaintenanceEnds`, `SilentSessionEnds`, `RechargeRecorded`, `NewVersionMarked`,
`UpdateUnlocks`), which rest on fairness and are out of the proof system's reach.
`TokenResolves` and `BilledAgainOnlyAfterRelogin` are proved and checked without
deaths: with them both are false, as the table above says.

## 5. Not modelled

* the hour of the daily job, which a thread reads from redis every 30 seconds:
  `GameUpdate` lets the job come at any time, which includes every hour;
* `need_update` of a device game, which the client is told and no handler acts on,
  and the older endpoints under `/admin/device/game`, which write the same row as
  the newer ones;
* the `state` of a user: `change_user_state` switches it, only a login and the
  pages look at it, and a session goes on with it;
* lists, queries and their pages; malformed input, which handlers refuse or on
  which they raise (but an id of an administrator that is a string, which is in
  `Staff`, since the look at one's own account takes it for another's);
* templates, pages, the payment client, the file server, the log store and the
  scripts (but `syncdb`, which is in `Staff`) keep no state that the properties
  are about;
* the external services: WeChat is a source of notifications that repeat and of
  queries that fail, and answers or does not answer the thread of the tokens;
  SMS and geetest answer or fail;
* redis losing data. That redis or MySQL raises is modelled where a handler
  catches it and something it wrote stays: a failed bill, the lock, the keys of a
  login and of a logout, what follows the commit of a recharge, the thread of the
  tokens. Elsewhere MySQL refuses a transaction for the reasons the modules name
  (a unique or foreign key, a version, a row that is gone) and for no other, and
  an exception nobody catches ends a request uncommitted, as a death does;
* the `alive` column of a device (lists are filtered by it, nothing acts on it).

## 6. Plan

What is left, in order of what it would add:

1. An abstract fleet (a device is somewhere or nowhere, a game is published or
   not) that `Fleet` implements while requests do not meet; the invariants of
   `Fleet_proofs` are what its refinement mapping needs.
2. What the invariants hold beyond the properties, as theorems of their own: in
   `Account`, that recharge and logout exclude each other inside the lock as long
   as it has no fault (part of `EInv`); in `Fleet`, that an address in one hand
   lacks at most one device (`Balance`).
3. Users that are forbidden or deleted during a session, on the composition of
   `Registration` and `Session`; two devices in `GameUpdate`, whose job is then
   one request over both.
