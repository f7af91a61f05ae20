# ArcSign: TLA+ models, runs and proofs

ArcSign is a desktop wallet whose keys live on a USB stick. This directory
models the parts of it in which several things happen at once: sessions that
expire while they are used, requests of local programs that a page polls for,
pages whose backend calls outlive them, payments that several nodes hear of at
different times. Everything here is read from the code; a definition names its
source lines under `map` in `PROJECT.json`. Paths below are relative to the
repository.

    tlc -workers 2 -config DevSession.cfg MCDevSession     # check an instance
    tlapm DevSessionProofs.tla                             # check the proofs

## 1. The system

Five layers, each calling the next:

1. **Clients** (`packages/hardhat-plugin`, dApps behind WalletConnect). Programs that
   want something signed. They wait with timeouts of their own.
2. **Page** (React, `dashboard/src`). One thread, many awaited calls. Nothing is
   cancelled when the user moves on, so a continuation meets whatever the page
   has become.
3. **Shell** (Rust/Tauri, `dashboard/src-tauri/src`). Commands for the page, a
   WebSocket server on localhost for dApps and the Hardhat plugin (one task per
   connection), and `ffi/queue.rs`, one worker that passes calls to the library
   in order and one at a time.
4. **Library** (Go, `internal/`). Exports in `internal/lib`; sessions, signing
   gate, wallet and contact stores below. Its own goroutines are the cleaners of
   the session managers and the update of the blacklist.
5. **Chain adapters** (`src/chainadapter`, `src/swap`). EVM and Bitcoin, an HTTP
   client that fails over between endpoints, a store of what was broadcast.

### Inventory

| Component | State it keeps | Operations | What is hard | What makes it correct | Module |
|---|---|---|---|---|---|
| Developer sessions (`internal/app/dev_session.go`, `lib/exports_dev.go`, `security/secure_signer.go`, `secret_share.go`) | session map, signers by address, XOR shares | create, sign, end, info, sweep | signing holds no lock while the sweep erases keys; expiry is found in three places | keys of ended sessions are erased, live sessions can sign | `DevSession` |
| Requests for approval (`websocket/handler.rs`, `commands/websocket_commands.rs`, `Dashboard.tsx`, `DeveloperMode/`) | queue, one pending slot, a oneshot channel per caller, dialog, list | submit, poll, approve, reject, cancel, time out | two pages poll one slot; check, take and store are separate steps; approvals are awaited | a caller gets one answer, of a request with its id that the user agreed to | `WsConfirm` on `PendingSlot`, implements `Approval` |
| Pairing (`websocket/server.rs`, `pairing.rs`, `PairingDialog.tsx`) | code, lifetime, attempts and gate per connection; one dialog | connect, ask for a code, verify, request | codes replace each other; one dialog for all connections | a gate opens only with a code that was shown for this connection; a code can be missed only so often | `WsPairing` |
| Hardhat plugin (`packages/hardhat-plugin`) | socket, map of waiting requests, cached accounts | connect, request, time out, reconnect, send | handlers of an old socket act on the new one; a timeout races the answer | every call of a script ends, with an answer that is its own | `HardhatPlugin` |
| App lock (`internal/app/session.go`, `commands/auth.rs`, `sessionStore.ts`, `AppPasswordContext.tsx`, `useInactivityLogout.ts`) | session map, Rust copy of the token, store, unlock flag, four timers | unlock, use, lock, log out, sweep | three owners of one fact; stale closures; validation in two critical sections; a revocation that fails | locked means revoked, or tried; an idle user is logged out, an active one is not | `AppLock` |
| Home page (`Dashboard.tsx`, `WalletCreate.tsx`, `WalletImport.tsx`, backups, `DeleteWalletDialog.tsx`, `dashboardStore.ts`) | list, selected wallet, view, dialogs, recovery phrase | load, create, import, restore, export, delete, open, lock | answers of a page that has gone still change the store | the list settles on what the stick has; a page is unlocked only by a password entered on it | `Home` |
| Wallet page (`WalletDetail.tsx`, `useWalletData.ts`) | password and passphrase, tab, flow, balances | unlock, load, open a flow, close it | two unlocks at once, loads that answer for another wallet | the secrets held are those of this wallet and were accepted | `WalletPage` |
| Swap (`useSwapFlow.ts`, `SwapTransaction.tsx`) | step, selection, quote, allowance, built swap | quote, approve, build, confirm, sign | quotes and allowances that belong to an earlier selection | what is paid was agreed to | `SwapPage` in `WalletPage` |
| Staking (`StakingTransaction.tsx`) | amount, protocol, report, box | choose, check, acknowledge, stake | checks that answer late, several stakes under way | as above | `StakingPage` in `WalletPage` |
| Token approvals (`TokenApprovals.tsx`) | list, selection, revocations one by one | load, revoke, revoke many | a loop that goes on after the tab has closed | only what the user agreed to is revoked | `TokenApprovals` in `WalletPage` |
| Sending coins (`SendTransaction.tsx`, `useSignReview.ts`, `signgate`, `txguard`, `blacklist`) | step, form, built transaction, check report, acknowledgement; the list | edit, build, review, sign, broadcast, back | Back works at any time; calls outlive the page; the list grows in between | no second request, no consent for something else, a finding of this very request | `SendPage` |
| WalletConnect (`WalletConnectContext.tsx`, `services/walletconnect`) | SDK client, sessions, their copy on the stick, dialogs, requests | pair, approve, end, sign, lock, restart | one dialog for all requests, which the screen follows late; ends of sessions, sweeps and recoveries in any order | a signature is for the request that was shown, with its own consent | `WalletConnect` |
| EVM broadcast (`chainadapter/ethereum/adapter.go`, `rpc.go`, `storage/memory.go`) | store of sent transactions | build (nonce), broadcast | lost answers, nodes that disagree, restarts | what is recorded is not sent again and has its nonce taken; a failure has its reason | `Broadcast` |
| RPC client (`chainadapter/rpc/http.go`, `health.go`) | rotation index, counters, circuits | call | circuits move under the rotation | every endpoint is tried once, none is starved, every call ends | `Failover` |
| Contacts (`internal/contacts/store.go`, `AddressBook.tsx`, `useContacts.ts`) | encrypted file and its temporary; list, form, dialog | add, edit, remove, load | crash between write and rename; a stick that is out; a form that is closed by another's answer | one request, one atomic change; the page is true again once it is quiet | `AddressBook` on `ContactStore`, implements `Contacts` |
| FFI queue (`ffi/queue.rs`) | channel | one command per export | callers that have gone | order, own replies | in the modules of its callers |
| Wallet store, app config, sign-in page (`services/wallet`, `storage`, `backup`, `internal/app/storage.go`, `AppUnlock.tsx`) | two files per wallet, `app_config.enc`, the page's guess whether it exists | create, import, list, open, export, delete, set up, sign in | the app dies or the stick is pulled between two files; the configuration is written in place | a wallet comes into being at once and stays until it is deleted; answers are true | `WalletStore`, implements `Vault` |
| Wallet sessions (`wallet_session.go`) | absolute-lifetime sessions | open, use, close | a second session manager | ends with the app's lock | outcome only |
| Bitcoin, fees, swap aggregator, providers, clear signing, derivation, BIP-39 | none or caches | functions of their input | arithmetic, cryptography, I/O | - | not modelled |

How the components interact: the page calls the shell with awaited commands; the
shell calls the library through the queue; requests of local programs go the
other way, through the pending slot that the page polls. Shared state across
these borders is what the modules put together: the slot and both pages
(`WsConfirm`), the manager, the Rust copy and the store (`AppLock`), page, gate and
list (`SendPage`), the stick, the store and the views (`Home`), unlock and flows of
one wallet (`WalletPage`), SDK, dialogs and lock (`WalletConnect`), store, client and
nodes (`Broadcast`), file and page (`AddressBook`), stick and sign-in (`WalletStore`).

## 2. Modules

    Approval   <- refined by -  WsConfirm   -> PendingSlot       WsConfirmProofs
    HardhatPlugin                                                WsConfirmProofs
    Contacts   <- refined by -  AddressBook -> ContactStore      AddressBookProofs
    Home                                                         AddressBookProofs
    Vault      <- refined by -  WalletStore                      ShellProofs
    WalletPage -> SwapPage, StakingPage, TokenApprovals          WalletPageProofs
    Broadcast  -> Failover                                       BroadcastProofs
    DevSession                                                   DevSessionProofs
    WsPairing                                                    ShellProofs
    AppLock                                                      AppLockProofs
    SendPage                                                     WalletPageProofs
    WalletConnect                                                WalletConnectProofs

An arrow is `EXTENDS` or `INSTANCE`. Each `MC` module declares the model values of an
instance and, for `WsConfirm`, `WalletConnect` and `WalletPage`, which of its small scenes
a behaviour plays in; `MCShell` and `MCDesk` hold two independent modules as two scenes.
`MCSendPage` and `MCHardhatPlugin` give their module's names a page, or a server, to stand
beside: the proofs extend them, and the assumptions on such an instance's constants
are theirs (`SendAssumption`, `PluginAssumption`, `PathAssumption`, `HomeAssumption`).
Definitions marked *Mutant* are the faulty variants that `PROJECT.json` names: a run
with one of them in place of the original has to find the property violated.
Variables marked *history* record what was shown or agreed; no guard reads them.

**DevSession.** One FFI call at a time (`worker`) against the cleanup goroutine
(`cleaner`) and the clock. A step is a critical section or the code between two.
`CreateSession`, `FetchSigner`/`Sign`/`CountSignature`, `RemoveSession`/`ZeroizeRemoved`
and `SweepBegin..SweepEnd` follow the functions of the same names; `shares` is the
state of a signer's two shares, `torn` while `Zeroize` is between them. A signer is
named by the address-book entry it was derived for, because entries share
addresses.

**PendingSlot, WsConfirm, Approval.** `PendingSlot` is the Rust side: `Submit`,
`Deliver` and `Timeout` of the handler, the steps of `get_pending_transaction`
(`PollCheck`, `PollTake` or `PollEmpty`: the slot is unlocked between them), `Respond`
and `CancelCurrent`. Storing over a full slot drops the sender that is in it, which ends
that caller's wait (`DropReplaced`). `WsConfirm` adds both pages. Both clients count
their ids from 1, so `ReqId` need not be injective: `Approval` promises a caller at most
one answer, and a signature only of a request with its own id that the user agreed to -
possibly another client's (`IdsCorrelate`, section 5). The refinement mapping is the
identity on `verdict` and `agreed` (`Promise` in `WsConfirm`).

**WsPairing.** Connections that open and close, codes that are generated, queued,
shown and mistyped, the 60 s lifetime, the attempt budget, and the gate. `wrong` is a
history variable: how often each code was missed, over all states it was part of.

**HardhatPlugin.** `ArcSignClient` with one action per handler of a socket, because a
late `close` or timeout of one socket clears `this.ws` of the next; `ArcSignProvider`
and `ArcSignSigner` on top, with the accounts they cache for ever. Provider and signer
have a client each in the code; the module has the provider's, which the scripts share.
The signer's second client is a second copy of it that only ever asks for the explorer's
keys, and what it asks meets nothing of this one. The dashboard is external: it answers,
is silent or closes. The pairing gate is `gated`: the plugin has no pairing handshake,
so a gated server refuses what needs one.

**AppLock.** The Go manager (`live`, `life`, `idle`), the Rust copy (`backup`), the
queue (`calls`, `replies`), the page (`token`, `unlocked`) and the timers. Time left
is counted down by `Tick`. A revocation may fail (`RevokeToken`): the page drops its
token and locks all the same (`sessionStore.ts:161`), and the session stays with the
manager, and with the Rust copy until the next sign-in replaces it (`kept`, history).
`performLogout` awaits the clearing of the backend's memory; what the user does
meanwhile does not stop it (`leaving`, `LogoutReturns`).

**Home.** The stick, the store and the page; `calls` is the queue, each call with the
pages that asked for it (`own`, `host`). A handler whose page has gone keeps what it
sets in the store and loses what it sets on the page. A load decides by the selection it
began with, so its answer may select another wallet under an open page
(`Dashboard.tsx:415`): the page of the first wallet turns into that of the second,
unlocked if the first was, with the first one's password. What holds (`DetailIsEntered`)
is that a page is unlocked only by a password that was entered on it since it was
opened. Details read off the code: the recovery phrase confirms itself after 30 s, and a
request of the developer's tool, a lock or a late import takes it away before; the
delete dialog stays open over a wallet a reload has dropped, and keeps what was typed
for another wallet; `selectedWalletId` survives a restart. The backend lists a stick
that is out as an empty one, so a stick pulled between the search for it and the list
shows an empty home without an error (`read` is `"blind"`). The view of addresses is
unreachable: `WalletDetail` ignores the callback. A request is one step here; its files
are in `WalletStore`.

**WalletStore, Vault.** A wallet is `seed` (`mnemonic.enc`) and `meta` (`wallet.json`,
which names the seed's absolute path and makes it listed); `config` is
`app_config.enc`. One request is in service (`op`), and `step` says how far: creation
writes the seed, then the metadata; listing reads the directory, then wallet by wallet;
a deletion proves, touches the metadata and removes file by file. Between any two
accesses the stick may be `Pull`ed and come back at any path (`Plug`), a write may
fail, the app may `Die`. `AppUnlock` asks once whether there is a configuration
(`IsFirstTimeSetup`) and acts on the answer later. Temporary files are left out,
as nothing reads them; the limiter is a sign-in, or a deletion, that may be refused.
`Vault` is the promise: a wallet goes from new to kept to doomed (its deletion
was authorised) to gone, and a successful answer says what is so at the time, for lists
and deletions only if the stick stayed where it was (`steady`).

**WalletPage, SwapPage, StakingPage, TokenApprovals.** `WalletPage` has the unlock
(`passwordForThisUnlock` against the state, Enter bypasses the disabled button, so two
unlocks may run), the loads it starts and the tabs; the three flows are instances that
are mounted and unmounted. In `SwapPage` quotes carry no guard against stale answers, a
finished swap closes whatever swap page the wallet then shows, its success step is never
seen, and a swap left behind by a page that is gone may spend the allowance the next
page has read: what it promises to a user who waits is promised from a page opened with
no swap under way (`crossed`). In `StakingPage` the box survives a change of the amount,
because the amount is not in the call data that keys it. In `TokenApprovals` the bulk
loop goes on after the tab is closed, a reload may be answered out of order, and
revocations send no acknowledgement, so the gate refuses what it flags.

**SendPage.** One action per handler; `Reviewed` is the effect of `useSignReview` and
is part of every action that changes its key. `job` holds a signature or a broadcast
under way; `own` says whether the page that started it is still mounted. `consent`
is a history variable: the request the box was ticked for and the finding on screen at
that moment. The report of the request before stays until the new check answers, so
a quick user ticks the new request's box under the old finding: `consent.shown` is then
`"an earlier one"`, `DangerIsConsented` tells it apart, and the gate lets it count.

**WalletConnect.** The page's listeners stay over a lock, the dialogs do not. A request
is put into the reference at once (`pending`), on the screen with the next render (`drawn`)
and its box is cleared by an effect after that (`stale`): a click in between answers the
new request with what was on the screen of the old one (`early`). A request whose place
another one takes is never answered (`Superseded`). An unlock starts a recovery of
sessions that is awaited and may cross anything (`recovering`). `live` is
what the SDK has, `shown` what the page lists, `usb` the sign-in whose token the copy
on the stick is encrypted with: a copy of an earlier sign-in fails its HMAC, so it
is recovered only within one sign-in; at a lock the token is revoked before the
deletion of the copies, which therefore fails. A client that finishes its start
while the app is locked lists sessions that no sweep takes away. The passphrase
sent is always empty, so messages of wallets with one are signed by another key.

**Failover, Broadcast.** `Failover` is `HTTPRPCClient.Call` with `SimpleHealthTracker`;
of the two counters only the difference matters (`lead`). `Broadcast` puts calls on
top of it: reading, building (nonce, then gas and fees) and sending. The nodes are
external and do what the client's error handling tells apart: accept, refuse as
`known`, `underpriced` or `stale`, lose a request or its answer. `doubtful` is a
history variable for records that rest on a certificate error, `missed` one for the
endpoints that lost a message of the running call.

**ContactStore, Contacts, AddressBook.** `ContactStore` loads, changes and saves the
whole list: it writes a temporary file, then renames it, and may stop between the two;
nothing reads the temporary file. The file is on the stick, and no call asks for it:
path and session are checked in memory, and `NewContactStore` takes a file that is not
there for an empty book (`store.go:62`). So a list asked while the stick is out is empty
and no error, and a contact added with the stick out at the read and back at the write
replaces the whole book. `Contacts` is the promise that is kept: each request is applied
wholly or not at all to the book it saw, which is the stored one or, if the stick was
out (`Miss`), an empty one. Writing needs the stick: that `MkdirAll` and the write fail
on a path whose device is gone is assumed. `AddressBook` adds the page: forms, delete
dialog, reloads, and answers that close or mark whatever form is open by then. The id of
a new contact is drawn when the request is made, which is equivalent to the store's
drawing it.

## 3. Runs

Twelve runs; bounds are constants of the `.cfg` files.

| Run | Shows | Instance, and why it is enough |
|---|---|---|
| `dev_session` | `KeysFollowSessions` (keys of ended sessions are erased, those of live ones whole, and a key is lost under a call only when its session expired), `AdmitsOnlyLive`, `ExpiredKeysErased` | 2 sessions, 2 book entries that share an address (as EVM coins do), 2 chains, one of them a mainnet, clock to 2 with a life of at most 2: a session expires in every phase of a call and of a sweep. |
| `ws_confirm` | `WaitingIsReachable`, `Approves` (refinement of `Approval`), `DeveloperModeServes` | 2 of 3 requests (ids 1, 1, 2) on 2 connections whose clients count alike, one of a script, in three scenes: two polls that overlap, over requests with one id; two approvals or rejections that overlap, over requests with two ids; one of each while the user goes from page to page. |
| `shell` | `OpenGateWasShown`, `BudgetIsKept`; `KeepsWallets` (refinement of `Vault`) | two scenes. Pairing: 2 pages, 2 connections in all, 3 codes, 2 attempts instead of 3, lifetime 1, so that a code can expire, be replaced, lock and be shown over another. The stick: 2 wallets (a bundle goes on after one that failed), 2 mount points, 2 app passwords. Pages, wallets, points and passwords are symmetric. |
| `app_lock` | `LockedIsRevoked`, `IdleIsWatched`, `EndedStaysEnded`, `LogoutOnlyWhenIdle`, `AwayIsLoggedOut` | 2 sign-ins, 2 calls and 1 logout under way, times of 0 to 3 (a session's idle limit is 0: unused for one tick, it runs out): the order in which the limits fall due is what matters, not their size. |
| `send_page` | `OneRequestAtATime`, `FindingIsCurrent`, `DangerIsConsented`, `SpinnerStops` | an ERC-20 of one chain and the coin of another, one recipient that enters the list while the page is open, 2 signatures under way (one of a page that is gone). |
| `broadcast` | `RecordedIsNotResent`, `NonceIsTaken`, `FailureIsExplained`, `RotationServes` | 2 nodes, 2 payments that may say the same, 2 nonces, 2 faults (lost message, failed handshake, restart); thresholds 2 and 1 instead of 3 and 2, so that two faults open circuits. |
| `walletconnect` | `SignatureIsConsented`, `ListedIsConnected`, `LockSweeps`, `AskedIsSettled` | three scenes: two sessions and a fault without requests; one request over two sign-ins; a transaction and a message that compete for the dialog. The safety properties are proved for any instance, without scenes. |
| `wallet_page` | `WalletIsProven`, `PagesAreServed`, `PaymentIsAgreed`, `RevocationIsAgreed` | four scenes: the prompts of two wallets, one with a passphrase, with 2 unlocks at once; the swap page with 2 assets, the gate flagging the coin, and 2 calls, one of them left behind at most (`OneLeft`); the staking page with 2 protocols, one blacklisted, 2 stakes; the approvals tab with 2 approvals on 2 networks. One flow is open at a time in the code, too. |
| `desk` | `HomeSettles`, `DetailIsEntered`, `PhraseIsShown`; `PageIsTrue`, `KeepsPromise` (refinement of `Contacts`) | two scenes. The home page: 2 wallets (symmetric), 2 calls in the queue and few detections of the stick beside them (`FewLoads`), so that an answer of a page that has gone meets a call of the page that replaced it. The address book: 2 contacts, 2 values (symmetric), 3 calls in the queue, so that an edit can overtake the reload that follows a removal; the stick is out only while at most 2 requests are under way (`FewAway`). |
| `hardhat_plugin` | `AnswersArrive`, `ReturnedIsKnown`, `CallsEnd` | 2 scripts, 2 sockets, 3 requests: an old socket's handlers run while a request waits on the new one. |
| `send_reviewed` | violation of `SignedIsReviewed` | as `send_page`, amounts 1 and 2 |
| `setup_first` | violation of `SetupIsFirst` | 1 wallet, 1 mount point, 2 app passwords |

Deadlock is checked in `dev_session`, `app_lock`, `send_page`, `broadcast` and `desk`.
It is not in `shell`, `walletconnect`, `hardhat_plugin` and `ws_confirm`, where
connections, codes and requests are used up and nothing is left to do; nor in
`wallet_page`, whose user may simply stop.

Named bounds that cut behaviour off: `MaxTime`, `MaxSigns` (DevSession), `MaxCode`,
`MaxOpen`, `MaxTime` (WsPairing), `MaxSession`, `MaxCalls`, `MaxLogout` (AppLock), `MaxNonce`,
`MaxFaults` and `Bound`, at which the difference of the counters saturates
(Broadcast, Failover), `MaxLogin`, `MaxFaults` (WalletConnect), `MaxUnlocks`, `MaxCalls`,
`MaxStakes` (WalletPage; `OneLeft` of its instance), `MaxCalls` (Home, AddressBook; `FewLoads`
and `FewAway` of the instance), `MaxRequest` (HardhatPlugin).
A bound on calls only keeps the user from asking for more while that many wait.

### Fairness

* `DevSession`: the worker goes on whenever it again and again can (strong
  fairness: the cleaner may hold the lock in between, and Go's mutex is not
  starving), the cleaner's ticker fires, time passes. Nobody has to call.
* `WsConfirm`: some handler, some poll and some continuation go on while there is one
  (of two under way one may take for ever), and the user of DeveloperMode answers
  something of what is listed, not necessarily the request that waits. The
  five-minute timer owes nothing.
* `AppLock`: time passes, due timers fire, worker and event loop go on. The user and
  the hourly cleaner owe nothing.
* `SendPage`: each backend call is answered, each with fairness of its own, since
  the queue serves in order; a user who keeps clicking cannot starve one.
* `Broadcast`: the client goes on and every request is answered or times out
  (30 s); gossip and mining owe nothing.
* `WalletConnect`: continuations of requests and sweeps run, as the event loop runs
  what is resolved and the relay's calls end; a user who is shown a request answers
  it. Nobody has to pair, lock or send.
* `HardhatPlugin`: timers of waiting requests fire and a socket's events are
  delivered; the dashboard owes no answer.

## 4. Proofs

Eight modules prove, for every value of the constants, what the runs check on small
instances. In each, an inductive strengthening is shown to hold at the start and to
be kept, with one lemma per action or group of actions, and the theorems follow
from it. Assumptions are the named `ASSUME`s of the modules, mostly that model values
are distinct and bounds are numbers. The theorems are about the specifications
themselves, without the scenes of an instance and its cuts (`OneLeft`, `FewLoads`, `FewAway`).

* **`DevSessionProofs`**: `TypeCorrect`, `EndedKeysAreErased`, `LiveKeysAreWhole`,
  `KeysAreLostOnlyByExpiry`, together `KeysFollowTheSessions`;
  `AdmissionIsAtomic`; `KeyInvariant` is the strengthening. None is inductive
  alone, because a state in the middle of a sweep or a call looks like a violation.
  `KeyInv` adds what makes it harmless: what a sweep still has to do are expired
  sessions of the map (`CleanerInv`); a removed session is out of the map
  before it is zeroized, a found one is in the map or expired
  (`WorkerInv`); the table names signers made for its addresses (`TableInv`);
  all keys of an open session are whole unless the sweep has its lock, and a key
  that is not erased is in a table or was replaced there (`OpenInv`, `ClosedInv`).
* **`WsConfirmProofs`**: `TypeCorrect`, `CallersAreReachable`, `AnswersAreAgreed` (a
  success is a signature the user agreed to, of a request with the caller's id) and
  `ImplementsApproval`, for any numbering of the requests. The strengthening adds that a
  job past signing holds an agreed request and that a reply in a channel has the id of
  the channel's own request or is no success. `AbstractStep` maps every step to a step
  of `Approval` or a stutter. For the plugin, `PluginAnswers` and `PluginReturns`:
  request ids are given once, a promise is settled only by the answer of its own id, and
  an entry of the client's table belongs to the request that waits for it.
* **`ShellProofs`**: of the pairing server `TypeCorrect`, `GateWasShown`,
  `BudgetHolds`: the gate of a connection is open only with a code that was shown
  for it, and whatever is asked, expires or reconnects, no code is missed more often
  than its budget allows, nor pairs after that: the misses of a code are those of the one
  connection that has it, and stay when its page asks again. The strengthening follows
  a code from the moment it is generated over the queue to the dialog. Of the stick
  `StickKeepsWallets`: the store is a `Vault`. A wallet is listed only with its seed,
  what a call adds was not there, what it read is still on the stick, and a renamed
  directory has its target (`StoreInv`); so a step moves at most one wallet, from new
  to kept, from kept to doomed, or from doomed to gone, however a call is cut off.
* **`AppLockProofs`**: `LockRevokes`, `OneTimerWatches`, `TokensDieOnce`,
  `OnlyIdleUsersLogOut`. That a locked app leaves no usable
  session but one whose revocation failed rests on three facts: a
  sign-in is the last thing asked of the queue until it is answered, and the page
  is locked meanwhile (`SignInIsLast`); at most one session lasts beyond the safety
  margin and its token is with the page or in the sign-in's answer
  (`LastingIsHeld`); tokens exist before they are held (`TokensExist`).
* **`WalletPageProofs`**: for `Spec` of `WalletPage`, where all flows may be opened in turn
  and leave any number of calls behind, `WalletsAreProven`, `PagesKeepUp`,
  `PaymentsAreAgreed`, `RevocationsAreAgreed`. In `WalletInv` an unlock in progress carries
  what has been accepted for its wallet (`TaskOk`), so that its answer may be late. A
  box is ticked for the transaction the page has (`SwapBox`, `StakeBox`); for a user who
  waits, that transaction is the form's from the quote on (`FormIsBuilt`), the step
  tells the one call it waits for (`OneIsAwaited`) and no swap of an earlier page
  spends what was approved (`SwapsAreOwn`); what a batch has left was in its panel,
  whose red entries were acknowledged (`BatchIsAcknowledged`); and the pages are mounted
  exactly while they are shown (`MountedIsShown`). Of `SendPage`, `TypeCorrect`,
  `OneRequest`, `FindingCurrent`, `DangerConsented`: what is loading, what is under way
  and whose page is mounted are tied together; the report on screen is of the request
  the page has, or the check of that request is out (`ReviewIsCurrent`), and the tick that
  goes with a signature was given for what is signed (`JobIsConsented`).
* **`BroadcastProofs`**: `NothingIsResent`, `NoGapInNonces`, `FailuresAreExplained`. The
  page and the call it waits for agree (`PagesFollow`), a nonce that was handed out is
  at or below what the node had pending (`NonceLeft`), an answer of acceptance means a
  node has it (`AnswerIsTrue`), and outside of a broadcast every endpoint that is
  through lost a message, while a nonce refused as stale is used up (`RoundIsTrue`).
* **`WalletConnectProofs`**: `SignaturesAreConsented`, `ListIsConnected`. A tick that
  the effect has not still to clear belongs to the request on screen, and goes to the
  backend with it or with a click that was `early` (`BoxIsConsent`, `SentIsConsent`); a
  sweep begins when its sign-in ends (`SweepsHaveBegun`) and takes only what it began
  with (`SweepsShrink`).
* **`AddressBookProofs`**: `StoreKeepsPromise` for the store alone, `PromiseIsKept` for
  page, queue and store: every step is a step of `Contacts` or a stutter.
  `OneChangeIsWritten` is what makes it so: what the rename puts in place is what the
  request saw, the file or nothing, with the one request under way applied to it
  (`StoreInv` adds what each step knows of file and memory). `TypeCorrect`.
  `PageTellsTheTruth`: of a contact no request of the page is about, the page shows what
  is stored; once a request met no stick, one of the two may lack it, but they never
  differ. Its invariant `LineInv` reads the queue as one line: the requests the page
  asked, those already taken and the answers not yet seen, of which at most one is the
  page's own and the last read is of the file as the line will leave it. Of the home
  page `DeskSettles`, `DeskDetailIsEntered`, `DeskPhraseIsShown`: the queue is served in
  order and every name in it was given once (`QueueInv`); a list that is not right is
  about to be read again or has been read right (`WillBeRight`); a page holds only a
  password that was entered on it since it was opened (`DetailInv`), and a phrase is
  shown only for the wallet it was made with (`PhraseInv`).

Only model-checked: all liveness (`ExpiredKeysErased`, `DeveloperModeServes`,
`AwayIsLoggedOut`, `SpinnerStops`, `RotationServes`, `LockSweeps`, `AskedIsSettled`,
`CallsEnd`), which the prover does not reach, as it does not reach `ENABLED` or
induction over data. Every safety invariant, every action property and all three
refinements that the passing runs check are proved.

## 5. Where the code and its words disagree

With a run of their own (`findings` in `PROJECT.json`):

* **`SignedIsReviewed`**: the form stays open while a transaction is built and the review
  step shows the form; what is signed is what was built.
* **`SetupIsFirst`** (WalletStore; `internal/app/storage.go:201`): `exports_app.go:92` and
  `storage.go:59` call `InitializeApp` the first-time setup, but it writes over a
  configuration that is there. The page offers it when the configuration could not be
  seen, so after a lock with the stick out, and still does when the stick is back.
  What was encrypted under the old app password, contacts among it, can then no
  longer be read; the wallets have passwords of their own.

Stated in the modules and violated there, without a run of their own:

* `EndClearsAllKeys` (DevSession; `dev_session.go:214`, `:372`): of signers that share
  an address only the last is in the table; the shares of the others stay after
  `EndSession`.
* `SignatureVerified` (`adapter.go:693`, `docs/architecture.md:643`): a sweep that
  zeroizes under `Sign` gives a signature by another key; `Sign` prints the mismatch and
  returns success.
* `TestnetsCanBeSigned` (`dev_session.go:42`): some networks of `TestnetChainIDs` have
  no adapter.
* `IdsCorrelate` (WsConfirm; `protocol.rs:13`): both clients count ids from 1;
  DeveloperMode lists one entry per id, so a stale entry hides a new request and its
  approval answers it.
* `ApprovesOnlyWaiting` (`websocket_commands.rs:90`): the five-minute timeout leaves the
  request in queue or slot, where it can still be approved and signed.
* `NobodyIsDropped` (`websocket_commands.rs:170`): answering with another id than the
  slot's drops the slot's sender, which cancels that request at once; the comment says
  it will time out.
* `DialogCanBeAnswered` (`TransactionSignDialog.tsx:120`): `isLoading` stays after a
  confirmation; the next request's buttons are disabled.
* `PairedStays` (WsPairing; `server.rs:398`): a paired page that asks for a new code after the
  lifetime can be unpaired by a slip.
* `PluginIsServed` (`ArcSignProvider.ts:30`): the Hardhat plugin never pairs, so a
  server whose gate is on refuses its accounts and its developer signatures.
* `AutoLogoutLocks` (AppLock; `useInactivityLogout.ts:43`): the inactivity logout empties the
  dashboard's store; token and unlock state stay.
* `ActivityHidesWarning` (`useInactivityLogout.ts:109`), `ExpiryDisconnects`
  (`App.tsx:100`): the activity handler belongs to the first render and cannot hide the
  dialog; an expired session leaves dApps connected.
* `AckIsReset` (SendPage; `docs/architecture.md:893`): the key of `useSignReview` leaves
  the value out, so a coin transfer built again with another amount is still
  acknowledged.
* `SuccessReachedNetwork` (Broadcast; `adapter.go:800`): "replacement transaction
  underpriced", and any error text with "already" or "known" in it ("signed by unknown
  authority", too), is reported and recorded as a success.
* `SignedHasSession`, `SignedByShownAddress` (WalletConnect; `App.tsx:100`): a request in the
  dialog over a lock is shown and signed after the next sign-in, though its session
  was swept; messages of wallets with a passphrase are signed by another key.
* `ConfigIsWhole` (WalletStore; `docs/architecture.md:280` "All writes are atomic"):
  `SaveAppConfig` writes in place, and a sign-in that renews old key parameters writes.
* `OpensAnywhere` (WalletStore): `wallet.json` names the seed by its absolute path, so
  the right password fails where the stick is mounted elsewhere.
* `DeletedIsGone`, `LeftIsListed` (WalletStore; `service.go:523`): `RemoveAll` succeeds
  on a stick that was pulled; one that was cut off after `wallet.json` leaves a seed
  that no list shows.
* An address book without its stick (ContactStore; `store.go:62`): a test has
  `listContacts` reject with "USB disconnected"
  (`dashboard/tests/frontend/hooks/useContacts.test.ts:63`) and the manual checklist
  expects an error from a missing stick (`dashboard/MANUAL_TESTING_CHECKLIST.md:701`, of
  the addresses); the backend answers with an empty book, and a contact added while the
  stick comes back replaces the file. `Miss` of `Contacts` is this step.
* `SwapConfirmedIsBuilt` (MCWalletPage; `useSwapFlow.ts:337`, `SwapConfirm.tsx:22`): the
  inputs stay open while the swap is built, so the confirmation shows another one than
  is signed.

Found while modelling, not stated as properties: a refusal by the gate after the list
has grown starts no new check, so no box appears until the form changes; a payment
whose answers were all lost is shown as failed although a node may have it, and Try
Again makes a second one; a block between an answer that was lost and the next node's
refusal has a payment shown as failed that was mined, as the last error decides; a
second payment is made, too, by a script that is told of a timeout while its
transaction is being signed; the counters of the circuit breaker are totals
although its comments say consecutive; the recovery phrase confirms itself after
30 s (`MnemonicDisplay.tsx:55`) although `dashboard/SYSTEM_SPECIFICATION.md:95` wants it
confirmed before proceeding; `TokenApprovals.tsx:23-30` names two networks otherwise
than the balances do; a late unlock of a wallet that was left makes WalletConnect
sign for it while another is open; late answers switch the selected wallet under an
open page; a finished save of a contact closes whatever form is open, and a failed
one shows its error there; the backend lists a stick that is out as empty and reports no
error; imports never find a duplicate, as the check for one is a stub; the library's
`RenameWallet` changes nothing; the limiter of `DeleteWallet` is made anew by each
call; a backup of all wallets leaves out, silently, those it cannot read.

## 6. Not modelled, and why

* **Cryptography** (keys, signatures, ciphers, derivation) is a fact, not a step: a
  signature is named by what it signs.
* **Arithmetic of one call**: Bitcoin coin selection and fees, EVM fees, the best quote of the
  swap aggregator. They keep nothing between calls, and nothing here compares amounts.
* **Limiter and audit log.** The windows of the attempt limiter are a refusal that may
  come at any sign-in; the audit log is written and never read. The provider
  settings inside `app_config.enc` go with it as a whole.
* **Wallet sessions** (`wallet_session.go`): a second manager like the one in `AppLock`, whose
  token nothing but its own validation uses.
* **Message signatures and session commands** of `handler.rs`: a second slot with the
  code of the first, and calls passed on.
* **The queue itself**: closed channel, panic of the library, metrics. Its callers assume
  order and one call at a time, which its single worker gives.
* **WebSocket RPC client, file transaction store, `CallBatch`, `GetBestEndpoint`,
  `RevokeAllSessions`**: no caller in the program.
* **Data race on `currentIndex`** (`http.go:278`): needs two calls at once, which the
  queue excludes.
* **Overlays** are taken to cover the buttons behind them: keyboard focus that leaves a
  dialog is not modelled.
* **Presentation**, translations, logging, metrics, the simulation that only adds a warning.

`PROJECT.json` lists each component with its status.
