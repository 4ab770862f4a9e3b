# TLA+ models of the TON-EVM bridge relay

The relay is a long-running program of a bridge between TON and EVM networks.
It watches the bridge contracts on TON, and votes for *events*: contracts that
claim that something happened in an EVM network (`EthEvent`) or on TON
(`TonEvent`).  For an EVM event it looks at the EVM network itself before it
confirms or rejects.  It also takes part in the elections of the relays.  This
directory holds models of it in TLA+, configurations that check the models with
TLC, and proofs checked by TLAPS.  `PROJECT.json` is the machine-readable
index: which definition stands for which lines, which run checks what.  Paths
below are relative to `src/src/`.

## 1. Inventory

| Component | State | Operations | Talks to |
|---|---|---|---|
| `utils/pending_messages_queue.rs` PendingMessagesQueue | map of sent messages with deadline and `oneshot` sender, cached minimum of the deadlines, counter | `add_message`, `deliver_message`, `update` | engine (adds, waits), TonSubscriber (delivers, expires) |
| `engine/eth_subscriber` EthSubscriber, one per EVM network | topics, `pending_confirmations` with counter, `last_processed_block`, `new_events_notify` | `subscribe`, `verify`, the loop `start`/`update` | bridge (calls `verify` and waits), JSON-RPC node |
| same, relay address verification | the file of `config/verification_state.rs` | `verify_relay_staker_address` | staking, EVM network |
| `engine/bridge` Bridge, events | `EventsState` of either kind: account -> `processing_started`, observer, counter | `process_*_event_configuration_event`, `process_eth_event`, `process_ton_event`, `preprocess_event`, `update_eth_event`, `update_ton_event`, `get_all_events` | TonSubscriber (transactions, states), EthSubscriber, engine (`deliver_message`) |
| same, connectors and configurations | connectors, active configurations of both kinds, code hashes, the collector of expired configurations | `process_bridge_event`, `process_connector_event`, `check_connector_contract`, `add_*_event_configuration`, the GC task | TonSubscriber, EthSubscriber (`subscribe`) |
| `engine/ton_subscriber` TonSubscriber | `ready`, current utime, per account a state receiver and transaction subscriptions, shard-block awaiters | `wait_sync`, `wait_contract_state`, `get_all_shard_accounts`, `handle_masterchain_block`, `handle_shard_block` | the node; everyone above |
| `engine/mod.rs` Engine | context, subscribers | `start`, `send_ton_message`, `deliver_message` | all |
| `engine/staking` Staking | round and elections state, balance of the staker, four `Notify`, two `Tristate` flags | `new`, `process_staking_event`, `process_user_data_event`, `start_managing_elections`, `become_relay_next_round`, reward tasks, `ensure_verified` | TonSubscriber, engine, EthSubscriber (address) |
| `engine/metrics_exporter` | the running endpoint, two buffers, the interval and its `Notify` | `reload`, `acquire_buffer`, `wait`, requests | engine (collects), HTTP, SIGHUP (`main.rs`) |
| `utils/shard_utils.rs` | none | `contains_account` and the arithmetic of shard prefixes | TonSubscriber, queue |
| `engine/keystore`, `config/stored_keys.rs` | keys in protected memory | sign, unlock | engine |
| `engine/ton_contracts`, `config`, `main.rs`, `utils` | none | codecs, parsing, `retry` | all |

What is hard: the components share maps and atomics between tokio tasks; an
`await` separates almost every look at a contract from the decision that rests
on it; transactions of one account are handled late and in order, those of
different accounts in any order; `Notify::notify_waiters` is lost on a task that
has not registered; EVM blocks may be replaced; requests and broadcasts fail and
are repeated.  What makes each part correct:

* **PendingMessagesQueue**: a sender gets exactly one answer; it does get one;
  the cached deadline and the counter are exact although `update` reads the
  cache without the lock.
* **EthSubscriber**: a confirmation is only for a log that is, and stays, on the
  chain; a rejection only for one that is not; every caller is answered.
* **Bridge events**: one vote at a time for an event; an event that can use the
  vote is neither dropped nor left to nobody.
* **Bridge configurations**: a configuration that is active on chain becomes
  known once, with the end it has on chain, and stays known until it has
  expired; no connector is forgotten; the counters are exact.
* **TonSubscriber**: nobody waits forever for the first block or for a state
  that exists; a state handed out is not older than asked for.
* **Staking**: the relay starts and ends elections that are due, enters every
  election it has the deposit for, and misses the reward of no round.
* **Address verification**: after a crash at any point the address is still
  verified, and not paid for twice.
* **Metrics exporter**: a scrape is whole and never goes back in time; a reload
  ends, and the collector notices it.

The list of hazards, each at its line, is in `PROJECT.json`.

## 2. Modules

`Maps` holds `EmptyMap`, `Put` and `Drop`, the operations on Rust's hash maps.

### PendingMessagesQueue (and its specification MessageExpiry)

`entries`, `min_expire_at`, `entry_count` are the fields of the struct; `rx[m]`
is what the `oneshot` receiver of message `m` holds.  `add_message` and
`deliver_message` are one critical section each.  `update` is two actions,
`UpdateCheck` (the load of the cached minimum, without the lock) and
`UpdateBody` (`retain` and both stores under it); `pc[s]` says whether the
handler of shard `s` is between them, `utime[s]` is its argument.  Handlers of
different shards interleave; the one of a shard is sequential
(`engine/ton_subscriber/mod.rs`, `handle_block`).  Whether a shard contains an
account (`contains_account`) is the constant `Home`.

`MessageExpiry` is what the callers rely on: no cache, no lock, no counter, and
a sweep that is one step.  The mapping is the identity on the map and the
answers; `swept`, the time of the last finished call of `update`, is a history
variable both have.

### EthSubscriber (and its specification EventVerdicts)

The chain of the EVM network and its node are external: `Mine` and `Reorg`
change them at any moment.  The number of reorganisations before a block was
mined stands for its hash, so that the pair of number and version identifies
a block; `log[i]` is the block that holds log `i`.  `MaxReorg` is the depth
that the network never exceeds; `ConfAssumption` says that a configuration asks
for at least as many confirmations.

`verify` is the call of an event contract: the insertion under the lock, the
counter, `notify_waiters`.  A second insertion for the same log replaces the
first and drops its sender (`Dropped`).  The loop `update` is cut at every
await: `IsEmpty`, `Register` (the `Notified` future is created only here),
`Notified` or `IdlePollElapsed`, `GetHeight`, `GetLogs`, `Apply` (the lock is
taken; statuses from the logs; due and invalid ones are answered at once),
`Receipt` per due confirmation, `Resolve` (answers, removal, the lock is
released), `Commit`.  `RequestFailed` and `ReceiptFailed` are errors after the
retries.  `verify` is disabled while the loop holds the lock (`Locked`).

`PendingConfirmation::check` compares emitter, topic, data, block number and
block hash: the first three never change and are the set `Genuine`.

`EventVerdicts` is what a caller of `verify` may rely on: the chain, whose last
`MaxReorg` blocks can change, and the answers.  There is no loop, no map, no range
of blocks and no receipt: a call is judged in one step, by the chain of that
moment and not before its target block (`Judge`), or dropped by a later call for
the same log (`Ask`).  `Verdict` says how far a refusal may be wrong: only where
more than one block can be replaced, and only for a log that was elsewhere before.
The mapping is the identity.

### BridgeEvents

`pending` is `EventsState.pending` (account -> `processing_started`), `task`
the background tasks with the point they wait at, `announced` and `queue` the
`EventDeployed` and the event's own transactions that the listeners have not
handled yet, `scan` what is left of the snapshot of `get_all_events`.  The
contract is external: `status`, `voted`, `low` (balance below
`MIN_EVENT_BALANCE`) and how its transactions change them.  A transaction is
queued for the relay only while an observer of the account is alive, together
with the status at the end of its block, as `AccountObserver` hands over the
state after the block.

`process` is `EventBaseContract::process`; `update_eth_event` and
`update_ton_event` are the actions `StartProcessing`, `CheckState`, `Verified`
/ `VerifyFailed`, and the loop of `deliver_message` in `Send`, `Accept` (the
message is in a block), `Expire`.  The two kinds differ in `process`, in what
the listener does (`EthRemoves`, `TonRemoves`) and in the verification, so that
one module holds both; `attr[a].kind` tells.  `attr[a].configured` is whether
the configuration of the event is known, `attr[a].relay` whether our key is
among the relays of the event's round.

`CheckState` and `Preprocess` decide on the status of the contract of this very
moment: that `wait_contract_state` returns no older state is `ReturnsLatest` of
the next module.

### TonSubscriber (and its specification ContractStates)

`subs` is `state_subscriptions`: per account the value of the watch channel,
whether it is new to the map's own receiver (`unseen`), and the observers that
are listed.  A call of `get_contract_state` or `wait_contract_state` clones that
receiver (`CallState`) and reads when its copy has something new (`Wake`); the
variable `unseen` holds the calls whose copy has.  `handle_shard_block` is one
step, since it runs under the lock of the map: it drops what `update_status`
calls `Stopped`, for accounts of any shard, sends the new state where somebody
waits, and otherwise marks the value as seen.  `alive` are the observers that
somebody still owns.  Account states are `Missing`, `Uninit`, `Frozen` or one of
`Actives`, two of which are enough to tell an old state from the latest.
Reading an account from the shard state is taken not to fail.

`start` is `StartLoad`, `StartRegister`, `StartWaitShards` and its awaiter in
`MasterchainBlock`; `engine_status_changed` is two steps, `SetReady` and
`NotifyWaiters`.  The clock and the times of masterchain blocks go to `MaxTime`.

`ContractStates` has the accounts and the calls only: no channels, no flags, no
subscriptions to drop.  A call is one read of the account as the last block left
it (`Read`); it fails for a frozen account and for no other reason, in
particular not because the sender of its channel is gone.

### BridgeConfigurations

The connectors of the bridge go through `Stages` on the chain; `Target[c]` is
the configuration of connector `c`, `end` the timestamp (or block) at which it
stops.  `state` is `BridgeState`: `connectors`, `configurations` with the end
the relay believes in, `event_code_hashes`, and the two counters.
`get_all_configurations` is `StartupLoad` (the lock is taken and a snapshot of
the accounts is loaded), one `StartupConnector` per connector and `StartupDone`;
the lock is held over all of them, and whatever the chain does meanwhile is seen
by neither the snapshot nor a subscription.  `LeftBehind` says which connectors
the start does not settle, and `StartupSkips` is the branch in which the details
of a connector cannot be read; such connectors are remembered in `missed`, as
`stale` remembers the configurations whose end was changed between the reading
and the subscription.  `process_bridge_event` spawns a check of the new connector;
`process_connector_event` runs it inside the listener.  A check
(`check_connector_contract`) waits for the connector, then for its
configuration, then takes the lock (`CheckConnector`, `CheckConfiguration`,
`CheckAdds`); an error in one of the first two ends it (`CheckFails`), and an
enabled connector is `missed` from then on.  `AddConfiguration` stands for `add_eth_event_configuration` and
`add_ton_event_configuration`, which differ in what they refuse.  The collector
is `GcWake` (something has expired), `GcWait` (it waits for the shards to reach
that time) and `GcRemove`, which decides again under the lock.

### Staking

`contract` is the staking contract as far as `get_round_state` looks at it;
`block` are the events of the block that is being made, for an event that is
read from a transaction carries the state of the contract after the whole block.
The listener puts that state into `state`, and notifies.  The loop
(`start_managing_elections`) and the vote tasks create their `Notified` futures
under the lock of the listener; `ListensTo(s)` are the notifications for which
the loop has futures when it has read `s`, `Registered` whether it has any.
`loop.pc` follows the loop: it takes the lock, sleeps until the deadline of the
state it has read, sends the message, and waits; a notification drops all of it.
`vote[n]` is the task of the elections of round `n`, which registers for
their end only when it runs (`spawned`), and whose message may still be in
flight when it has been dropped (`orphan`).  `Staking::new` is `Init` (the
snapshot), `StartupSubscribe`, `StartupVoted` (if it began within elections it waits for
the vote of `FirstRound`, the round of the snapshot) and
`StartupCollect`, which reads a second snapshot; `lost` says that something
happened between the first one and the subscription.  `rewards` are the rounds
that have a task.

### AddressVerification

`pc` is the point at which `ensure_verified` is, with
`verify_relay_staker_address` in its middle.  The transaction is known by its
nonce, since its contents do not change; `file` is a nonce, `NoFile`, the state
of another address (`Foreign`) or something that cannot be parsed (`Torn`).
Saving is two steps, `Open` and `Write`.  It does not truncate, and all states
have the same length: a stop between the two leaves a part of a new file
(`Torn`), but an old file stays what it was or becomes the new one.  `Crash` is
possible at each point, and stands for the errors that end the process as well.  `lost` and `forgotten` mark
the windows that the code leaves open, and the properties name them.

### MetricsExporter

`data[b]` is the number of the collection in buffer `b` or `Partial`.  The
collector takes the buffer that is not current, writes, stores the index and
only then drops the guard (`acquire_buffer`, `WriteMetrics`, `Publish`,
`Release`), then waits (`Register`, `LoadInterval`, `AwaitConfig` or `SleepEnds`
or `Notified`).  A request loads the index and takes the lock in two steps;
`floor` is the newest collection that had been returned when it came.  An
interval of 0 is a config like any other to a reload, but the collector cannot
tell it from none: it waits for the next notification.  A reload
holds `running_endpoint` and goes through `stop`, `bind`, `store`, `notify`.

## 3. Runs

| Run | Checks | Shows |
|---|---|---|
| `queue` | `TypeOK`, `MinExpireAtExact`, `CountExact`, `WaiterHasEntry`, `Refinement`, `Resolved` | cache and counter are exact; a receiver is unanswered exactly while the map holds its sender; the queue implements `MessageExpiry`: an early return of `update` had nothing to expire; a message with a finite deadline is delivered or expires |
| `eth` | `TypeOK`, `RejectIsFinal`, `WaiterHasEntry`, `ImplementsVerdicts` | the loop implements `EventVerdicts`; with reorganisations not deeper than the overlap of two scans (one block), a rejection is final as well as a confirmation |
| `eth_deep_reorg` | `ConfirmIsFinal`, `WrongRejectOnlyIfMoved`, `EveryCallAnswered` | with deeper ones a confirmation stays right, and only a log that was moved can be rejected wrongly; every call whose target block is reached is answered, in spite of lost notifications and failing requests |
| `bridge` | `TypeOK`, `OneVoter`, `DroppedOnlyWhenUseless` | one voter per event at a time; nothing useful is dropped |
| `bridge_live` | `NotAbandoned`, `DutyDone` | every event that waits for the vote has somebody working on it, and gets it |
| `ton` | `SubscriptionsKept`, `ReturnsLatest`, `ImplementsStates`, `WaiterServed`, `StartReturns` | the subscriber implements `ContractStates`: a call returns the latest state although channels are shared; a block drops no subscription that is needed; whoever waits for a contract that stays active is served; `start` returns, unless the notification of the node comes between its test and its registration |
| `configurations` | `TypeOK`, `CountersExact`, `EndsFollow`, `NoneForgotten`, `RemovedOnlyExpired`, `ConfigurationsKnown` | the counters are the sizes of the maps; ends follow the chain; an enabled connector is settled or on its way, unless the start or a failed check gave it up; only what has expired is collected; once all configurations exist they become known |
| `staking` | `TypeOK`, `LoopNotStale`, `RewardsCovered`, `ElectionsProgress`, `VotesInElections` | a loop in an outdated state has its notification coming; no reward is missed; elections that are due are started and ended by this relay alone; a staker with the deposit enters them |
| `address` | `TypeOK`, `PaidOnce`, `VerificationEnds` | whatever stops the relay, it pays once, but for one window; the verification ends, but for three named ways to hang |
| `metrics` | `ScrapesMonotone`, `CollectionsContinue`, `ReloadEnds` | scrapes are whole and in order; a reload ends, whether or not it can bind; no wake-up of the collector is lost |

Two runs expect a violation; each is a disagreement between the code and what
the repository says of it (`findings` in `PROJECT.json`):

* `eth_wrong_reject` (`RejectIsFinal`): a reorganisation of two blocks brings a
  log to the voted block after an early scan has seen it elsewhere.  That block
  is not scanned again, `Invalid` stays, and at the target block the answer is
  `NotExists` without a look at the receipt.
* `bridge_startup` (`NotAbandoned`): a contract that is still initialising when
  the relay starts.  The scan starts a task for it, which sets
  `processing_started` and returns; when the relays arrive the next task
  finds the flag set and returns as well.

Further behaviours that the models show, which no run claims the opposite of:

* Two event contracts for the same log: the second `verify` replaces the
  confirmation of the first (`Dropped` in EthSubscriber), whose event is then
  removed without a vote.
* A vote that concludes a TON event and leaves it with a low balance is handled
  as somebody's vote and not as `Closed`; the entry stays in the map
  (`process_ton_event`).
* The node reports `Synced` between the test of `ready` and the registration
  for `ready_signal`: `notify_waiters` reaches nobody and `start` waits on, if
  the node reports it once.  `StartReturns` names the window
  (`NotifiedTooEarly`) and says that there is no other.
* A relay that starts within elections and lacks the deposit is kept in
  `Staking::new` until they end (`StartupVoted`).
* `update_participates_in_round_status` looks for the staking contract among the
  stakers, so the flag is `False` after the first new round
  (`StakingAccountInRound`).
* An address verification that is stopped while it writes a new file does not
  start again (`LoadFails`).
* A connector whose configuration does not exist stops the listener of
  connector events; hence the condition of `ConfigurationsKnown`.

### Bounds

* `queue`: three messages, two shards, times 0..3.  One message per shard and
  one whose account is in both (a shard and its successor after a split); four
  instants are enough for a deadline before, at and after a block, beside the
  value `u32::MAX` that stands for an empty queue.  `U32Max` bounds the time.
  About 46,000 states.
* `eth`: two logs, three calls, of which two are for the same log in the block
  first mined and in the one that replaces it; one reorganisation of one block;
  four blocks, ranges of at most two: a scan that lags behind the chain, one
  that overlaps its predecessor, and the target block of both voted blocks are
  reached.  About a million states.  `eth_deep_reorg`: one log, two
  reorganisations of up to two blocks, five blocks; 133,000 states.
  `MaxHeight`, `MaxReorgs` are the bounds.
* `bridge`: one event and three tasks.  Nothing in the code relates different
  events except the map they are in, so interleavings of one event are what
  matters; three tasks are one that is voting, one that was announced and one
  that the listener started.  Three announcements let an event be dropped and
  added twice.  118,000 states; `bridge_live`, without failures, 28,000.
  `MaxDeploys` and `Tasks` are the bounds.

* `ton`: one account, two calls that wait for it, one that reads it and an
  observer: a channel is shared by a caller that has gone, one that stays and
  an observer.  Blocks of a second shard come in between; all they can do is
  drop subscriptions.  Calls and observers start again, so their number is not
  bounded.  97,000 states.  The clock has two instants, before and after the
  start.

* `configurations`: two connectors, one with a TON configuration that ends at
  time 1 and one with an EVM configuration of the same code, so that the order of
  the checks decides; any stage of either at the start; one change of an end;
  two instants, before and after the expiry.  1.6 million states.  `MaxConnectors`, `MaxTime`,
  `MaxSets` are the bounds.
* `staking`: two rounds, two instants, one change (a deposit, or the other of two
  configs, which differ in both deadlines and in the deposit), up to two events in a block; the start in any phase of the first round.  A
  block with two events is what makes a state newer than its event.
* `address`: three stops, one forgotten transaction, two nonces: a stop before
  the file is written, one after and one in the window that costs a second
  transaction.
* `metrics`: two connections, two reloads, the intervals 0 and 1, three collections told apart - with
  two buffers, the one served, the one written and the next.

The queue, the loop of EthSubscriber and TonSubscriber never stop, so their runs
check for deadlock.  The others may stop: contracts reach their last state, the
verification is done, the last of the bounded rounds, reloads or changes has
come and nothing is left to do.

### Fairness

* `queue`: every shard produces blocks with growing time (strong fairness
  of `LaterBlock`: between two blocks the handler is busy), and a handler gets
  the mutex, which nobody keeps across an await.
* `eth_deep_reorg`: the network grows; the loop is scheduled and its timer fires;
  height and logs, requested again forever, are answered some time (strong
  fairness: each failure ends the update and the next one repeats the request).
  No fairness for a notification: the idle poll must be enough.
* `bridge_live`: listeners and tasks are scheduled; a message that is sent again
  whenever it expires, while the contract would accept it, is accepted some
  time (strong fairness of `Accept`).  The contract itself has no fairness.
* `ton`: the node synchronises, every shard and the masterchain produce blocks,
  tasks are scheduled.
* `configurations`: tasks and listeners are scheduled, and a connector that the
  bridge has announced does appear.  No fairness for the rest of the chain, nor
  for the collector.
* `staking`: tasks are scheduled, blocks are made; a message that is sent over
  and over while the contract accepts it gets into a block (`LoopDelivered`,
  `VoteDelivered`: `deliver_message` repeats it).  An error of the sending is
  always possible, and the properties allow for it.  Time need not pass.
* `address`: the process is started again and runs, a pending transaction gets
  into a block or is forgotten, the bridge reports it, the account is funded.
  Stops are bounded by `MaxCrashes`, not excluded.
* `metrics`: tasks are scheduled; a request gets the read lock although the
  collector takes it again and again (strong fairness of `Respond`; tokio's lock
  is fair).

## 4. Proofs

For every value of the constants, from the assumptions named in the modules:

* `PendingMessagesQueueProofs`.  `QueueCorrect`: `TypeOK`, `MinExpireAtExact`,
  `CountExact`, `WaiterHasEntry` together are inductive.  The lemmas on `MinOf`
  say what a minimum is for a finite map, that adding an entry takes the smaller
  of both and that removing an entry that is not the minimum keeps it: that is
  why `deliver_message` may skip the computation.  `QueueRefinesExpiry`: every
  step is a step of `MessageExpiry` or a stutter.  The early return is a sweep
  because an exact minimum not below `t` leaves nothing overdue; that the lock is
  taken later does not matter because the body looks at the map again.  `SweptBehind`,
  the last sweep of a shard is not later than its current block, orders them.
* `EthSubscriberProofs`.  `ConfirmationsAreFinal`, `WrongRejectionNeedsReorg`,
  `ConfirmationsConsistent`.  The invariant `EthInv` says that a receipt that was read
  for a due confirmation is from a block that cannot be replaced any more:
  `cur` is at most the height, the target block is at least `MaxReorg` above the
  voted one, so a log found there is settled, and `Reorg` leaves settled logs
  alone; and that an unmoved log was never seen in another block.  This needs
  `ConfAssumption`, without which the statement is false.
  `RejectionsAreFinal` has the hypothesis `MaxReorg <= 1` and the invariant
  `FinalInv`: a confirmation that is `Invalid` is *doubtful*, that is, the log is
  not in the voted block and can no longer come to it, or the voted block can
  still change and the loop has yet to scan it once more, because a scan begins
  with the last block of the one before.  At the target block only the first is
  left.  With two blocks the second alternative fails, as the run
  `eth_wrong_reject` shows.
  `UpdateRefinesVerdicts`: every step is a step of `EventVerdicts` or a stutter.
  Mining and reorganisations are `ChainMoves`, `verify` is `Ask`, and `Apply` and
  `Resolve`, which answer several calls from a status or receipt read long
  before, are one `Judge` by the chain of this moment: a look that is old was at
  something settled.  Nothing else touches the answers.
* `BridgeEventsProofs`.  `OneVoterPerEvent` and `DropsAreUseless`, from
  `BridgeInv`: (`QueueTruth`) a queued transaction tells something that is still
  true of the contract, since statuses only move forward; (`EntryHeld`) while
  the contract can use our vote, the entry of a working task stays and is
  marked; (`Alone`) such a task is alone.  `OneVoter` is not inductive on its own:
  an entry may be removed and added again, unmarked, while a task works.
  What saves it is that an entry is removed only when the contract wants no
  vote any more, and then `process` tells no later task to vote.
  `NoEventAbandoned` assumes that requests do not fail and that no contract is
  initialising when the relay starts; each of them is needed (`TaskFailed`, and
  the run `bridge_startup`).  Its invariant `CareInv` is, for every event:
  (`StartsInTime`) nobody marks an entry, and no task starts, before the contract
  has its relays; (`MarkedIsWorkedOn`) a marked entry with the vote outstanding has a task
  past `start_processing`; (`UnmarkedWillStart`) an unmarked one has the
  transaction with the relays ahead in its queue, or a task that is going to
  mark it.  Who of the three starters takes over from whom is the case analysis of
  the proof.
* `TonSubscriberProofs`.  `NothingNeededIsDropped` and `StatesAreLatest`, from
  `TonInv`: a value that is new to any receiver is the state after the last
  block.  A block replaces it where somebody waits and marks it as seen for the
  map's own receiver where nobody does, so a later clone cannot find an old
  value; blocks of other shards do not change the account.
  `SubscriberRefinesStates`: every step is a step of `ContractStates` or a
  stutter.  A call that wakes up reads the last state by `TonInv`, and the
  branch in which its sender is gone is never taken, by `SubscriptionsKept`.

* `BridgeConfigurationsProofs`.  `ConfigurationsExact`, `ConnectorsRemembered`,
  `CollectorRemovesExpired`, from `ConfInv`.  `CountersExact` needs that a
  configuration is counted in the step that inserts it; `EndsFollow` is carried
  by the last queued change of each configuration, which the listener brings to
  the map before any other.  `NoneForgotten` is not inductive: a connector that
  is enabled later must have an observer by then.  `Watched` (a connector with
  an observer that is enabled is settled, or has an event or a task) and
  `Announced` (a deployed connector that has none and that the start has passed
  is missed or in the channel of the bridge) make it so.  A check that fails
  takes away a task, so the connector has to be `missed` in the same step.  `TimeInv`, that the collector's time is not ahead of the
  masterchain, gives `RemovedOnlyExpired`.
* `StakingProofs`.  `LoopNeverStale` and `RewardsAreCovered`, from `StakingInv`.
  The heart is `FreshInv`: not only the state that the loop has read, but also
  the one the listener holds and the one in every event of the channel is
  current, or followed by an event that wakes a loop that has read it.  For an
  event only those behind it count.  `Changes` says of a transaction what is
  needed: each state that was current stays so or is woken by its event - a fact
  about `ListensTo` alone, which is why a loop that waits for a new round need not
  listen to configs.
* `AddressVerificationProofs`.  `VerificationPaidOnce`, from `VerificationInv`:
  `OneTransaction` says that there is one transaction until the file is cleared
  too early: it is pending only after its hash was saved, it is made only while
  it is neither pending nor in a block, and once it is in a block the file names
  it, or the process waits for its confirmation or has it.
* `MetricsExporterProofs`.  `ScrapesAreMonotone`, from
  `ExporterInv`: the collector never writes the current buffer, which holds the
  newest collection or is about to be replaced by it; a buffer that is not being
  written is whole; and the buffer whose index a request has loaded is not older
  than what was returned before, unless it is being written again.

Left to TLC: everything about liveness (`Resolved`, `EveryCallAnswered`,
`DutyDone`, `WaiterServed`, `StartReturns`, `ConfigurationsKnown`, `ElectionsProgress`,
`VotesInElections`, `VerificationEnds`, `CollectionsContinue`, `ReloadEnds`),
which the prover cannot do.  Every invariant and action property of a run, and
every refinement, is stated by a theorem; so are the types of TonSubscriber and
MetricsExporter (in `NothingNeededIsDropped` and `ScrapesAreMonotone`), which no
run repeats.

## 5. Not modelled

* Keystore and stored keys: cryptography and protected memory.
* Configuration files and the command line: pure I/O (the reload on SIGHUP is
  where MetricsExporter begins).
* The bindings of the TON contracts: declarative codecs.  `retry`: a request
  fails or succeeds.  The formatting of the metrics.
* The bits of `shard_utils`: whether a shard contains an account is a constant
  relation.
* `get_reward_for_relay_round`: a reward task is only its existence.  It sleeps
  until the end of the round and sends one message.
* `EventsState.count`, which is changed outside of the lock and only reported.
* In BridgeEvents a transaction is reported once.  If an entry is removed and
  added again while a delivery still keeps the observer of the first, the code
  reports it to both.  The second report changes nothing that matters: a second
  task finds the flag set, and what is removed twice wants no vote any more.
* `unsubscribe` of EthSubscriber is never called.
* In BridgeEvents, whether the configuration of an event is known is an
  attribute that does not change; BridgeConfigurations tells when it is.

## 6. Plan

1. **Delivery**: `deliver_message`, `send_ton_message` and the queue composed
   with a contract that may accept a message after its sender saw it expire, as
   a refinement of "at most one vote per key".
2. **Snapshots**: `get_all_shard_accounts` (awaiters of `wait_shards`, states of
   the shard blocks a masterchain block names) against the blocks observers see.
   The modules here take a snapshot as the state of one moment.
3. **Bridge**: BridgeConfigurations composed with BridgeEvents, to say what
   becomes of events whose configuration is collected.
4. **ShardUtils**: `contains_account`, split and merge of prefixes as operators
   on bit vectors, against a definition by prefixes.
