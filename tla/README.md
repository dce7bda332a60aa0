# emicro, specified in TLA+

emicro is a Go microservice framework on top of gRPC: servers register
themselves in etcd, clients resolve and watch them, balance over them, call
several of them at once ("cluster" strategies) and are held back by rate
limiters; next to that it has a small RPC framework of its own over TCP.  This
directory holds TLA+ modules of its concurrent core, TLC configurations that
check them on small instances, and TLAPS proofs for every instance.

Commands, in this directory: `tlasany M.tla` parses, `tlc -workers 2 -config
X.cfg M` checks, `tlapm M.tla` proves.  `PROJECT.json` lists the components,
the runs, the source lines each definition stands for, the hazards, the
findings, the theorems, and for every checked property a mutation of a
definition that breaks it (the operators named `X_Something`, each placed just
before the `X` it mutates).

## 1. Inventory

| Component | State | Operations | What is hard |
|---|---|---|---|
| Server (`server.go`) | listener, serviceInstance, the grpc.Server | Start (listen, register, serve), Close (unregister, GracefulStop) | Close in the middle of Start; requests to etcd that time out and are applied later; crash; a successor at the same address |
| etcd registry (`registry/etcd`) | the session and its lease, cancel functions of the watches; in etcd: keys, leases, revisions, watches | Register, Unregister, ListServices, Subscribe (a goroutine per watch), Close | events before the watch, lost watches, unbuffered hand-over, cancellation against a blocked send |
| Resolver (`resolver.go`) | close channel; in gRPC: the address list | Build, ResolveNow, the watch loop, Close | two goroutines resolve concurrently, each a read of etcd followed by a write to gRPC; who closes which channel |
| Client (`client.go`) | none after Dial | Dial | wiring only |
| Rate limiters (`ratelimit`) | counters, queues, channels, keys in Redis | one interceptor each; Close of the buckets | lock-free resets, clocks read before locks, answers from Redis that are lost, producer goroutines |
| Balancers (`loadbalance`) | per-connection weights, counters and averages | Build, Pick, the Done callback of each call | Pick and Done run concurrently; unsigned arithmetic; feedback |
| Cluster strategies (`cluster`) | one response channel per call | the interceptors of broadcast, broadcastall, fastest | goroutines per instance, who receives, who closes, cancelled contexts |
| RPC framework (`rpc`) | connection pool; stubs on the server | Client.Invoke, one-way calls, Server.Start / handleConn / Invoke, framing | deadlines against late answers, pooled connections with something left in them |
| Observability, utilities, serializers | none that the program reads | interceptors, pure helpers | (left out) |

How they meet: Server.Start and Close call the registry, the registry writes
etcd; etcd tells the registry's forwarding goroutine in every client, which
hands events to the resolver's watch goroutine; the resolver lists the registry
and gives gRPC the addresses; gRPC's balancer (a Picker of `loadbalance`) picks
among them and asks the resolver again when connections fail.  Cluster
interceptors list the registry themselves.  Limiters wrap the server's handlers
and share nothing with the rest.

What makes each correct, in one line: a server that serves is listed and one
that is closed or dead is not; a client ends up with the current listing and
never moves back; a limiter lets no more than its rate through and does not
reject below it; a balancer's weights stay within bounds and follow the
outcomes of calls; a cluster call ends, and its channel is closed once, after
the last answer; an answer of the RPC framework reaches the call it belongs to.

## 2. What is modelled

### Resolution (`resolver.go`, `registry/etcd/registry.go`) and Directory

`Resolution` has three goroutines and etcd.  `pc["grpc"]` stands for the calls
gRPC makes on the resolver one at a time (Build, ResolveNow, Close),
`pc["watch"]` for the goroutine that Build starts, `fwd` for the one that
Subscribe starts.  `resolve()` is two steps, List and Update, because etcd
changes between them.  etcd keeps every revision of the listing in `log`, so a
listing is named by its index; `snap[t]` is the revision a goroutine read and
`view` the one gRPC was last given.  A DELETE event has an empty value, so
json.Unmarshal fails and the forwarder hands on an Event that carries only the
error (`Decoded`); the resolver does not look at it and resolves anyway.

`Directory` is the abstract promise: the client's view is a listing etcd really
had, and it only moves forward, unless two resolves overlapped (`racing`).
`Resolution!Implements` is that refinement, as a property and as a theorem.

### Registration (`server.go`, `registry/etcd/registry.go`)

Processes, each with one Server.  Start is Listen, Register (the Put is sent),
the answer, Serve; Close is CloseBegin (the Delete is sent), the answer,
GracefulStop, CloseReturn; any of them interleaves with those of other
processes and, in one process, Close with Start.  A request has a life of its
own: a caller may give up (RegisterErr, UnregisterErr) or die (Crash) and the
request may still be applied (ApplyStray).  A key remembers the process that
put it last, hence its lease; LeaseExpire takes away what that lease holds.
A restart is a second process with the same port and key.
`del` is "sent" while a Delete with a key is on its way and "blank" while one
without is: Close reads serviceInstance when it is called, and before Start has
set it the instance names no key.

### Discovery

Servers and one client over one etcd: a step of Registration that changes the
store is a Publish of Resolution, in one step, and gRPC's balancer asks for a
resolution while the client is shown a closed port.  `Revisions` holds the
parameters of the client.  `MCDiscovery` has two parts, of which a behaviour
has one: a client by itself, for Resolution's own properties, and a client with
a server.

### Window limiters (`ratelimit`)

`RateLimit` holds the parameters they share.  `FixWindow` has a step per atomic
operation of the lock-free interceptor: reading the clock, loading the window
start, CAS, Store of 0 and taking a number.  Its clock counts ticks within a
second and starts again, as `time.Now().Nanosecond()` does.  `SlideWindow`
reads its clock in one step and runs its critical section in another. `served`
counts what it admitted by time stamp, `passed` by the time it was admitted at.
`RedisFixWindow` and `RedisSlideWindow` run their Lua scripts as one step of
Redis, with the call and its answer in flight on either side, retries by the
Redis client with the same arguments, and, for the sliding window, a time stamp
by the server's own clock.  `Counted` is how the histories of both are summed.
`Limiters` composes the six limiters: `limiter` says which one the behaviour is
about, so that their state spaces add up in one run, and so that the theorems
speak of the same properties.  They share the clock (`clock`, each module's
`now`) and where a request is (`place`, each module's `pc`); `MCTraffic` extends
it together with `Balancers`.  `AllLimits` gives the Redis sliding window a rate of its own.

### Bucket limiters (`ratelimit/token_bucket.go`, `leaky_bucket.go`)

`Bucket` is what both promise: a firing of the ticker earns at most one credit,
no more than Capacity are kept, and a request is let through for one.
`TokenBucket` has the producer's goroutine (receive a tick or the close, then
put a token in the channel or drop it), the ticker's one-element channel, and
the interceptor, whose select has a default; it implements a bucket of
Buffer + 2: the buffer, the tick the producer holds and the one in the ticker's
channel.  `LeakyBucket` has requests that wait on the ticker's channel
themselves, and implements a bucket of one.  Both are in `Limiters`.
Their Close is a step (two for the leaky one, which closes a channel and then
stops the ticker), and a second Close, which panics, is not taken.

### Balancers (`loadbalance`)

`Connections` and `Weights` declare what pickers share; one picker lives in a
model, from Build on (gRPC makes a new one when connections come or go, with
all state new).  `Filters` is `types.go`: the two group filters, which differ
when a group is no string.

`WeightRoundRobin` has callers that pick, call and report, over and over.  A
pick visits the connections its filter leaves one by one: Add is what happens
under a connection's mutex up to the comparison, Compare the comparison, which
reads the best connection's weight without its mutex, and the unlock; Subtract
is the end of the pick.  A step that needs a mutex waits while a caller is
between Add and Compare there (`Locked`).  Weights are numbers modulo Word.

`RoundRobin` has one counter and one mutex; a Pick is two steps, so that the
mutex is what keeps picks apart.  `RandomPickers` has the pickers without
state: a random number is a choice, the sum of weights wraps, and both hash
pickers give their first connection and ask no filter.

`P2C` reads the load of a pair's first connection in one step and of the second
in the next, under the picker's lock, while the Done of other calls runs field
by field: `inflight`, the clock, `last`, `latency` (loaded in one step and
stored in another, so averages get lost), `stamp`, and logStats.  `logFunc` is
never set, so the first Done that reaches logStats ends the program; the model
has that panic, and everything a slow goroutine lets happen before it.  An
average is any number between the old latency and the new, less 1 for rounding,
the new one if there was no old one, the old one if no time has passed.  The
success rate is left out: it makes Pick draw again, three times at most, so that
any pair stays possible.

`Balancers` composes them, `kind` naming the one a client was dialed with; the
filters are those of the calls under way (`Wanted`, for weighted round robin).

### Cluster strategies (`cluster`)

`Fanout` is what the three interceptors share: a client that calls once or twice
with a context, a goroutine per listed instance, and an unbuffered channel that
the client receives from once, ranges over, or looks at after the call.
`BroadcastAll` returns at once and has a goroutine that closes the channel after
the others.  `Fastest` waits for its goroutines, offers each answer without
waiting, and closes the channel when it returns.  `Broadcast` has an errgroup
and one reply that all instances decode into; `reply` is the instance whose
answer it holds, "mixed" when two decoded at once; `heard` and `last` record the
instances that were decoded, and the one done last.

### RPC framework (`rpc`)

`RpcMessage` is the codec: header and body lengths, the encoded sequence of
fields and separators, and what DecodeReq cuts out of it (`Pairs` are the
metadata it parses and then drops).  `Rpc` has calls of one client: the
generated function, the goroutine Invoke starts, the pool with its idle
connections and its queue, TCP connections that carry messages and may break,
the server's handler per connection, and crashes of either side (`alive`).
`setup` names what may differ between programs: the codes the client uses, the
method it asks for, the services and codes of the server, and `tcp.ReadMsg`,
which in the repository is a stub that panics and is also modelled as its
callers expect it written.  A service is registered with every method it has
(`RegisterService`): one the stub can call ("fit"), one without a result, and
Name, which Service demands and which has no request; a client that asks for
another than the fit one goes to the exported Client.Invoke with a request of
its own (`Direct`).  `Panics` has what then ends the server: the second
parameter that is missing (server.go:207), the nil entries of the tables, and
the result that is missing (server.go:230).  A caller that panics is "panicked",
not "returned".  The
listener accepts connections until CloseListener ends it with what it has not
accepted; the handlers of the others go on.

`ClientCalls` composes the strategies and this client: a call is one that
becomes goroutines and ends with a context.  `kind` is the strategy or "rpc".

## 3. Runs

| Run | Instance | Shows |
|---|---|---|
| resolution_nil | the resolver as Build makes it, close channel nil | `CloseReturns` fails: Close sends on a nil channel for ever (finding) |
| registration | two processes at one address, two Closes each | who is listed is bound, who serves is listed, who closed is gone, the dead are delisted |
| registration_open | a process with a registry and one without | `ListedIsOpen` fails: Close overtakes Start and leaves the instance registered behind a closed port (finding) |
| discovery | one client, by itself (one instance comes and goes, a made close channel) or with one server; 3 revisions | settled views are current (`Fresh`), the refinement (`Implements`), events lead to views (`EventuallyFresh`), the forwarder ends after cancellation (`ForwarderEnds`), Close returns (`CloseReturns`); a closed server leaves settled clients (`ClosedNotShown`); a dead address leaves every client (`DeadLeaves`) |
| traffic | limiters: 3 requests, rate 2 (1 for Redis sliding), interval 2, a 5-tick second or a horizon of 3; balancers: up to 3 connections of weights 2, 1, 1 and groups none, "b", "b"; 2 callers; Word 4; forcePick 1, 2 ticks; 7 picks in turn | see below |
| fix_closed | 2 requests, 4-tick second, interval 1, rate 1 | `FullWindowEnds` fails: a window opened late in a second is the last one (finding) |
| slide_over | 2 requests, rate 1 | `AtMostMaxRate` fails: one request too many (finding) |
| redis_over | 3 requests, rate 2, one clock | `RequestsPerWindow` fails: requests of one millisecond are one member of the set and all pass (finding) |
| weight_wrap | weighted round robin alone | `FailureNeverRaises` fails: the lower guard does not work (finding) |
| calls | 2 instances and 2 calls in a row with one context, with each cluster strategy; 2 RPC calls, a pool of 1, 2 connections, three sets of metadata | see below |
| broadcast_mixed | broadcast, one call of 2 instances | `LastReply` fails: two answers are decoded into the one reply at once (finding) |
| rpc_timeout | the RPC framework alone | `TimeoutIsError` fails: a deadline without a one-way mark panics at a nil map, where TestTimeout expects DeadlineExceeded (finding) |

`traffic` has two parts that share nothing; a behaviour is of one of them.  Of
the balancers it checks that weighted round robin neither makes nor loses weight
(`Conserved`), that a pick nobody disturbs is the sequential algorithm
(`SoloIsSequential`) and that its upper guard works (`SuccessNeverLowers`); that
round robin is strict among picks with the same candidates (`Even`); that a call
that names a group is given a connection of it or an error, by the pickers that
ask their filter (`OwnGroup`); and that the power of two choices passes neither
of two connections over for more than forcePick while picks come no further
apart (`NoneStarves`).

`calls` checks that broadcastall closes its channel only after every answer of
a call was received or its context ended (`AnswersBeforeClose`), and that
neither it nor fastest panics unless a context is used for a second call
(`PanicNeedsReuse`); that a client of fastest which waits from the start gets
an answer (`FirstAnswer`); that nobody writes broadcast's reply once the call
has returned, and that a call without error has decoded an answer of every
instance it asked and holds the last of them, or a mixture if two were decoded
at once (`ReplySettled`; that the mixture happens is broadcast_mixed); that,
when the context ends, only those goroutines and calls stay that report a
failed dial or a failed listing (`OnlyErrorsLeak`); that an RPC answer goes to
its own call, but on a connection a one-way call has used (`AnswersMatch`),
that requests decode to what was encoded (`RequestsIntact`), that only ReadMsg,
a code that is a nil entry of the server's tables, or a registered method the
stub cannot call ends the server (`ServerSurvives`), and that no caller stays
in Invoke once its context has ended and no goroutine keeps a result that
somebody waits for (`CallsEnd`; a caller may end in a panic, which is
rpc_timeout, and the goroutine whose caller left first stays).

Of the limiters `traffic` checks that the fixed window admits at most maxRate
per window opened (`RatePerWindow`) and moves only forward by more than
interval (`WindowsSpaced`); that the newest sliding window never holds more
than maxRate + 1, however requests pass the mutex (`NewestWindow`), and rejects
a request only when more than maxRate came through since its window began, in
any order (`RejectedIsFull`); that the Redis counter never gives more than 2
maxRate slots in one interval (`BurstAtBoundary`) and limits only after maxRate
of them (`LimitedIsFull`); and that the Redis sorted set never holds more than
maxRate different time stamps of the last interval less the clock skew
(`StampsPerWindow`), which bounds milliseconds, not requests (redis_over); and
that the token and the leaky bucket implement `Bucket` (`TokenIsBucket`,
`LeakyIsBucket`).

### Bounds, and why they are enough

* Resolution: three revisions let one resolve fall two behind the other, which
  is all two goroutines can do to each other; one instance suffices because
  listings are told apart by their revision.
* Registration: two processes at one address cover a crash or a close with a
  successor; MaxTries 2 covers a Close that failed and is called again.  More
  processes at other addresses touch disjoint keys; the proofs cover them.
* Discovery: one server, started, closed or dead, and three revisions; where the
  server and the client are together the client is not closed, and by itself it
  may be.  The two parts are of one run and share its fairness, which is stated
  for each part.
* Limiters: two requests are needed for every race at a window's edge, the
  third is the bystander that is let through by it.  The five-tick second holds
  two windows; a horizon of 3 ticks and an interval of 2 see a window, its
  edge, the expiry of a key, and the next.  The Redis sliding window has rate
  1, since an interval of 2 less a skew of 1 leaves two stamps to count.  `cnt`
  of the fixed window stays at maxRate + 1 from there on, since only `cnt >
  maxRate` is ever asked; overflow of an int64 is out of reach. Symmetry over
  requests is used in `traffic`, which has no liveness property.
* Buckets: a buffer of 2 and three requests fill and drain the bucket while
  ticks are earned and lost.
* Balancers: three connections let a best one be replaced twice in a loop, and
  are the first number for which a pair is drawn; two callers are a pick and
  whatever it races with.  Word 4 makes weights wrap within a few calls where
  2^32 takes as many as the weight is large (below) or is never reached
  (above); the properties are stated modulo the word.  Seven picks go around
  three connections twice.  With forcePick 1, two ticks let a connection be
  picked, passed over, and forced; the proof has no such bounds.
* Calls: two instances are a first and a last answer; two calls are one context
  used again.  A pool of one makes the second RPC call wait for, or inherit, the
  first one's connection; the second connection is for after the first breaks.
  The settings of the RPC framework are a JSON client, a proto client at a
  server with the base codes and at one with all of them, clients that ask for a
  method without a result, for Name, or for none there is with unknown codes,
  and ReadMsg as it is.
* Where the system may stop (all work done, a bound reached, or a panic) a
  configuration switches deadlock checking off.

### Fairness

* Resolution: weak fairness of the steps a scheduled goroutine takes and of
  ListServices, which answers or fails; strong fairness of the close case of
  the watch loop's select, which Go picks at random among the ready ones.
  Nothing is assumed of servers, of gRPC's calls, or of etcd.
* Registration: a dead process's lease runs out.
* Discovery: the two, that the balancer asks as long as it is shown a closed
  port, and (strongly) that a registry asked again and again answers sometimes.
* calls: weak fairness of everything the program does by itself: scheduled
  goroutines run, a dial or an invocation ends (with an error when the context
  does), the client comes to receive.  One condition for all of them is enough,
  since no goroutine of these runs for ever.  Nothing is assumed of the RPC
  server: it may never answer.
* fix_closed: goroutines run, time passes, requests keep coming at every moment
  of the second (strong fairness per tick).  The counterexample holds all of
  these: every request finds windowStart + interval not below its clock.

## 4. Proofs

Every invariant and action property that a passing run checks is also a theorem,
and so are the refinements.

| Module | Theorems | Inductive invariant |
|---|---|---|
| ResolutionProofs | the client by itself: TypeCorrect, Freshness, Refinement | `Places`, `Reached`, `SoloAlone`, `CaughtUp` |
| RegistrationProofs | TypeCorrect, ListedBound (`BoundWhileListed`), ServingIsListed (`ServingListed`), ClosedIsGone (`ClosedMeansGone`) | `StartPlaces`, `ClosePlaces`, `Held`, `Ported`, `Unlisted`, `PutHolds` |
| DiscoveryProofs | PartsImplemented (the composition implements Registration and Resolution), ClientTyped (`TypeOK`), ClientIsFresh (`Fresh`), ClientImplements (`Implements`), ClosedIsNotShown (`ClosedNotShown`), ShownIsServed, ServersAreShown | those two, and `Link` |
| LimiterProofs | fixed window: TypeCorrect, Rate (`RatePerWindow`), Spaced (`WindowsSpaced`) | `Decided`, `Accounts` |
| | sliding window: NewestWindowBounded (`NewestWindow`), RejectedOnlyWhenFull (`RejectedIsFull`) | `SlideInv`, `BehindInv` |
| | in Redis: BoundaryBursts (`BurstAtBoundary`), LimitedOnlyWhenFull (`LimitedIsFull`), StampsBounded (`StampsPerWindow`) | `RedisFixInv`, `RedisSlideInv` |
| | buckets: BurstIsBounded, TokenBucketRefines (`TokenIsBucket`), LeakyBucketRefines (`LeakyIsBucket`) | `BucketInv`; types and what the channels hold |
| | LimitersTyped (`LimitersOK`), EachAsItsModule | all of these |
| BalancerProofs | power of two choices: NoneStarved (`NoneStarves`), InflightIsCalls (`InflightCounts`) | `Typed`, `Choosing`, `Picked` |
| | round robin: PollingIsEven (`Even`) | `RobinHolds`, `RobinSeries` with `Fair` |
| | weighted: RaisesOnly (`SuccessNeverLowers`), RaisesFromZeroOnly, WeightIsConserved (`Conserved`), SoloPicksSequentially (`SoloIsSequential`) | `WeightPlaces`, `Balanced`, `Sequential` |
| | GroupsAreKept (`OwnGroup`), BalancersTyped (`TypesOK`), EachAsItsModule | `RobinGroups`, `RandomGroups`; all of these |
| ClusterProofs | ClientsTyped (`TypesOK`), PanicFree (`PanicNeedsReuse`), AnswersFirst (`AnswersBeforeClose`), WaitingClientIsAnswered (`FirstAnswer`), RepliesSettle (`ReplySettled`), EachAsItsModule | `AllInv`, `FastInv`, `ReplyInv` |
| RpcProofs | RpcTypes, AnswersFindTheirCalls (`AnswersMatch`), OnlyKnownCausesEndTheServer (`ServerSurvives`), RequestsCanBeCut (`RequestsIntact`) | `Places`, `Exclusive`, `Pool`, `Unmixed`, `Quiet`, `Unanswered`, `Faithful` |
| SumProofs | lemmas about sums over finite sets, remainders and least elements | |

The theorems about limiters, balancers and cluster strategies are about the
module whose property it is, or about the specification of the one that composes
them (LimiterSpec, AnySpec).  EachAsItsModule carries the first over to the
second: a behaviour of the composition is one of the module of its `limiter` or
`kind`, so what is proved of a module holds there too.

They hold for any sets of instances, processes, addresses, requests, callers and
calls, and any bounds, rates and intervals, under the ASSUMEs the modules name,
which TLC evaluates in the runs:

* ports determine keys, and no process is None (ProcsAssumption,
  ServersAssumption in Discovery); MaxRev is at least 1 and the close channel is
  nil or open (CloseChanAssumption, MaxRevAssumption, of Revisions);
* requests are finitely many, a second has at least one tick, and rates,
  intervals, horizon, retries, skew and buffer are numbers (those of RateLimit
  and AllLimits);
* callers are finitely many and forcePick is less than logInterval, which makes
  every connection of a new picker overdue (P2CAssumption); weights are less
  than the word (WeightsAssumption); the group of a call without one is no
  string (FiltersAssumption); a weighted caller's filter leaves some set of
  connections (WantedAssumption); the counter of round robin does not wrap in
  MaxPicks picks (PicksAssumption, a number);
* a pool may open at least one connection, and metadata have the keys the
  framework gives them (RpcAssumption); no instance is called as the two values
  of a reply that are none (InstancesAssumption).

The arguments:

* Resolution.  `Fresh` speaks of settled states only.  The invariant says what
  the last event leads to while it is on its way: once all events have been
  told, the watch goroutine is about to list, or holds the current listing, or
  is done and the view is current or was raced or failed (`CaughtUp`); and a
  resolve that nothing overlapped does not move the view back (`SoloAlone`).
* Registration.  `ServingListed` needs that a Put once answered holds
  (`PutHolds`), which needs that nobody else at that key is alive and has a
  Delete on its way: ports are exclusive (`Ported`), and a process that has let
  go of its port has finished its Delete (`ClosePlaces`) or left it as a stray.
* Discovery.  A step of the composition is a step, or none, of each part, so
  the invariants of both hold.  That takes what joins them: the last listing of
  etcd is what its store lists (`Link`), and a write lists one key more or one
  less, since a lease holds the one key of its process (`OneKey`, from `Held`).
  A settled view is then current (`SettledShowsStore`), and what was proved of
  the store holds of it: a closed server is not shown (ClosedIsNotShown),
  whatever is shown is registered by a process that holds its port, has died or
  was closed too early (ShownIsServed), and every server that serves
  undisturbed is shown (ServersAreShown).
* Fixed window.  Between a CAS and its Store a window has been counted but its
  numbers are still to come: each pending Store stands for maxRate numbers
  nobody has drawn (`Accounts`, with a cardinality).  `WindowsSpaced` needs what
  a request on its way to the CAS knows (`Decided`).
* Sliding window.  From every time on that the newest window holds, the queue
  has as many time stamps as requests were served (`SlideInv`); an eviction
  takes only what no such window holds, and as the queue may be out of order it
  may stop early, which only makes it longer.  From any element of the queue
  on, the requests behind it came through when the clock had reached its time
  stamp (`BehindInv`); the front that eviction leaves is within the window, and
  what the queue holds therefore came through since the window began, in any
  order.
* Redis.  The fixed window's key has given `val` slots since it was made and the
  one before it at most maxRate; an interval meets two of them (`RedisFixInv`).
  The sorted set holds all time stamps that an interval can still need, however
  late a request arrives and whatever its server's clock said (`RedisSlideInv`).
* Buckets.  That a burst is bounded is a fact of `Bucket`; the two limiters
  inherit it because each of their steps is a step of `Bucket` or none.  The
  credits of a token bucket are the tokens in the channel, the one in the
  producer's hand, and the tick it has not yet received.
* Power of two choices.  Only Pick changes `pick`, under the lock, with times
  that do not go back (`Choosing`).  Of two connections one was always picked
  last (`Spread`): if the other one is overdue it is the one of more load, and
  forced, or the one of less load, and taken because the last one is not
  overdue, as long as picks come within forcePick of each other.  Nothing is
  assumed of the loads, so the lost averages do no harm.
* Round robin.  Of two candidates picked equally often either may be next, so
  `Even` is not inductive.  `Rank` is how many picks of the series come before a
  candidate's turn; who comes later was picked no less often, and at most once
  more (`Fair`).
* Weighted round robin.  `Conserved` is an equation up to a multiple of the word
  (`Balanced`); each step changes one element of each sum.  A pick that nobody
  disturbs has compared those behind it, and holds the first of the heaviest of
  them (`Sequential`, `Leads`).
  RaisesFromZeroOnly is what the finding of weight_wrap leaves true: a failed
  call raises a weight only where a 0 wraps.
* Groups.  What a pick takes is from the candidates of its own filter; the
  random pickers get to a candidate although their sums of weights wrap, and
  return an error when there is none.
* Broadcastall.  A goroutine that may still send belongs to a call whose
  WaitGroup is not done, and the closer waits for that WaitGroup; so a channel
  closed under a sender was closed for another call (`ClosedBy`, `AllHeard`).
* Fastest and broadcast.  Their steps are moves of a call or a goroutine
  (`Moved`) with what they do to the channel or the reply; who is done without
  an error was heard (`ReplyInv`).  A channel was closed by a call that is
  over; until the first answer a client that came early is still there
  (`FastFirst`); who has decoded has been heard, and the reply is that of the
  last one or a mixture (`Written`).
* RPC.  A connection in use belongs to one call and is not in the pool
  (`Exclusive`); one that carried no one-way call has one message at most, the
  request of its call or the answer to it (`Unmixed`), and a broken one has none
  (`Quiet`).  What the server can be sent is what the codec makes of the
  client's codes (`Sent`), so an unregistered code or a method
  the stub cannot call comes from the setup.
* The codec.  A message on its way is one that a call has sent, with metadata
  that do not change any more (`Faithful`).  That such a message can be cut is a
  lemma (`RequestCut`): the metadata have two keys at most, so the flattening of
  the pairs is computed without induction; the length reserved for them is a
  cardinality (`MetaLength`), so the buffer takes all cells (`Encoded`); and a
  cut is made at the least index of a separator (`CutAtFirst`), which is found
  where it was put (`HeadOf`, `PairsOf`).
* Sums.  A sum is a fold that takes some element at a time.  That any may be
  taken first is shown for a smallest set for which it would be wrong, which
  needs no induction theorem.  Integer roots (P2C's load) exist by a least
  number in the same way.

Only model-checked: all liveness (EventuallyFresh, ForwarderEnds, CloseReturns,
DeadDelisted, DeadLeaves, OnlyErrorsLeak, CallsEnd), which is outside what
the proof system does.

## 5. What is not modelled, and why

* That `/emicro/user` is also a prefix of `/emicro/user-service`: the models
  have one service.
* That a handler of the RPC server spins once its client has gone (below): the
  turn changes no variable, and nothing in the repository says a handler ends.
* The closing of `r.close` on every turn of the resolver's loop is in Resolution
  (a panic after any completed Close), but no property is about it.
* The balancer of gRPC around the pickers: it replaces a picker whenever a
  connection changes, so that counters, weights and averages start again.
* `leastactive` does not compile: it adds the constant -1 to a uint32.
  `fastest` (the balancer) cannot run: Build gives runtime.SetFinalizer a
  function of the wrong type, and Pick unlocks for reading what it has locked
  for writing.
* What the RPC server's Start does after Close: it compares an error with
  net.ErrClosed that Accept wraps, prints, and accepts in a loop, which touches
  nothing the model has.
* The method limiter, which passes one method's calls through another limiter.
* Attributes and the JSON of an instance: no control depends on them but what
  Filters and Weights have of them.  TLS and dial options.
* Pure helpers, serializers, observability, examples, generated code.

## 6. What the code does that a reader may not expect

Apart from the findings of section 3, modelling showed, and the models have:

* P2C: the first Done ends the program (picker.go:200).  The load is never 0,
  because 1 is added under the root, so the penalty for a connection without
  data (picker.go:251-255) never applies.  Pick never asks its filter.  When
  picks come more than forcePick apart, the connection of more load is picked
  every time.
* Round robin: all groups of a filter share one counter, so calls of two groups
  in turn may always get the same connection of each.
* Broadcastall: without a listing, the call waits on the channel for a client
  that may only receive after it.  The error of a failed invocation is not sent
  (`er`, which is nil, is) but stored in the variable that the call returns,
  which it may have done before or may do after (cluster.go:55, 64, 76).
* Fastest: the first answer is lost to a client whose goroutine comes late.
* RPC: `Request.Data` is not filled from the arguments, so the server decodes
  nothing; for an answer without an error the generated function returns a zero
  reflect.Value, which panics, unless it cannot uncompress or decode what came;
  after io.EOF a handler reads again, at once.
* RPC: DecodeReq parses the metadata into a local map and never assigns it to
  req.Meta (request.go:110), though request_test.go:22-25 and 89 expect it back.
  So the server sees neither "deadline" nor "one-way" (server.go:91, 97): it
  answers one-way calls, and the next call on that connection takes the answer
  for its own, which is what `AnswersMatch` excuses.  `RpcMessage!DecodeReq` has
  it, and `RequestsIntact` compares the metadata as parsed (`Pairs`).
* RPC: every service has a method that ends the server when it is called by
  name, Name itself: it has no second parameter to make a request of
  (server.go:207).

The findings in a sentence each: Close of the resolver blocks for ever
(resolution_nil); a Close that overtakes Start leaves the instance registered
(registration_open); a fixed window opened late in a second is the last one
(fix_closed); the sliding window admits one too many (slide_over); a connection
that keeps failing gets the largest weight (weight_wrap); the Redis sliding
window counts milliseconds, so that all requests of one millisecond pass what
redis_slide_window.go:16 calls the threshold of the traffic (redis_over);
broadcast's reply may be a mixture where cluster.go:57 promises the last value
(broadcast_mixed); a call with a deadline panics at a nil map where TestTimeout
(rpc/client_e2e_test.go:226-270) expects DeadlineExceeded (rpc_timeout).

## 7. Plan

Done: all of section 2 and the proofs of section 4.  What is left:

1. That Discovery's refinements carry liveness over, as far as TLC can tell:
more than one server in its run.
2. A picker that gRPC replaces while calls of the old one are under way.
