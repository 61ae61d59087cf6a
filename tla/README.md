# Noise monitoring: TLA+ specifications and proofs

Specifications of the noise-level pipeline in this repository: what its parts do,
what they promise, which of the promises model checking and proofs confirm, and
where the code does something else than its comments say.

## The system

```
 Contiki sensors --MQTT--> gateway broker --bridge--> edge broker --> Node-RED flow --+
                                                                                      +--> Kafka poi-data
 MPI city simulation -----------------------------------------------------------------+        |
                                                                                               v
 CSV dump <-- Kafka poi-avg-hour / -day / -week, poi-top-10, poi-streak <-- Spark driver
```

The parts run in processes of their own and share no memory; they interact only by
messages through MQTT and Kafka, and through files (POI table, configuration, CSV).

| Part | Source | State | Operations | What is hard | What makes it correct |
|---|---|---|---|---|---|
| City simulation | `mpi/src/sim.c` | entities, sensors and their `noise_mw` on every rank; MPI's buffers | load, broadcast, spawn; then move, measure, reduce, publish, barrier | ranks interleave; collective calls match by order only; a derived datatype | each reading sums one contribution of every rank for its own sensor and step, in order, none skipped |
| Its configuration | `mpi/src/config.c` | none | accessors that exit on a missing key | none | fails before any collective call |
| Its TOML parser | `mpi/src/toml/toml.c` | the document, the current table, the calls of its parsers | one parser per construct; conversion of characters | tables named before they are defined, arrays of tables, files that end anywhere | a file is read completely or refused; nothing is overwritten or defined twice |
| Its Kafka producer | `mpi/src/communication.c` | librdkafka's queue and delivery reports | send, poll, close | full queue, other errors, broker outage, reports served only by polling | each reading is refused or reported; none is refused if the queue is long enough |
| Entity motion | `sim.c:62-88`, `utils.c` | positions and velocities | step with reflection | reversed bounds, steps longer than the region, rounding | entities stay in the region, and move |
| Sensor: MQTT client | `mqtt-demo.c` | state, timers, `connect_attempt`, library connection, message buffer | state machine on a timer; events of the library | events between timer firings, lost connections, refusals, `uint8_t` wrap-around, one static buffer | client and library agree; it always wakes up again, publishes as long as it can, never alters a message under way |
| Sensor: noise window | `noise.c` | ring of six readings, running sum | average or latest reading | ring and sum must not drift apart | reports the level of the last six readings |
| Edge flow | `node-red/flows.json` | POI table in two nodes' contexts, moving averages | clean, enrich, aggregate, publish every 5 s | table arrives as a message; asynchronous sends; undefined and NaN values | every valid reading reaches the closest POI; averages stay numbers |
| Spark driver | `spark/driver/...` | windows, per-POI streak state | averages, top 10, streaks, publish | out-of-order times, restart, batches | averages of the window; ten loudest POIs; longest quiet streak |
| CSV dump | `kafka-consumer/...` | group offsets, one file per topic | poll, write, flush | crash between write and commit, restart, one thread dying, one group for all threads | no row skipped, none repeated unless the group loses a position; nothing committed that is not on the disk |
| Border router's web server | `webserver/*.c` | pool of two connections, a shared output buffer | connect, poll, close, generate a page | callbacks, time-outs, ends that are reported twice or never, shared static state, lists that change while they are written | a slot has one connection; no client is waited for for ever; a page that is written alone is intact |

Not parts of the program's own logic, and not modelled: Node-RED's `settings.js`, the configuration of mosquitto and Docker, Cooja's simulation
and map files, the build files. The acoustics in `physics.c` is floating-point
arithmetic; the sums that are made of it are modelled, with one symbolic addend per rank.

## Modules

| Module | What it is |
|---|---|
| `SensorLayout` | the memory layout of `sensor_t` and of the datatype that `define_sensor_dt` builds: which words of the array a broadcast copies |
| `Simulation` | the ranks of the city simulation, one action per call or loop body of `main` |
| `CityReadings` | abstract: sensor after sensor and step after step, one complete reading is published or dropped |
| `EntityMotion` | how entities share out over the ranks, where they begin and how they move, with the rounding of float additions |
| `MCSimulation` | the buffering of the ranks for TLC; evaluates `EntityMotion` on small regions |
| `SimulationProofs` | proofs about `Simulation` and `EntityMotion` |
| `TomlParser` | `toml_parse`, one action per token or call of its parsers |
| `TomlDocument` | abstract: a document grows, keeps what it has, and is accepted or leaves nothing |
| `Utf8` | the conversions between codes and UTF-8 bytes |
| `MCTomlParser` | evaluates `Utf8` at the codes where the number of bytes changes |
| `TomlParserProofs` | proofs about `TomlParser` and `Utf8` |
| `KafkaProducer`, `KafkaProducerProofs` | `kafka_send_reading` between the simulation and librdkafka; proofs |
| `NoiseWindow` | `get_noise_average`: the ring and its running sum |
| `RecentNoise` | abstract: the level of the last six readings |
| `MqttClient` | the sensor's state machine, the library's events, the network and time; extends `NoiseWindow` |
| `SensorFeed` | abstract: one message at a time is on its way, and it arrives once and unchanged or never; extends `RecentNoise` |
| `MqttClientProofs` | proofs about the window and the client; those about the client build on those about the window |
| `EdgeFlow` | the Node-RED flow: one action per node that handles a message, and the messages between them |
| `MCEdgeFlow` | points of interest and readings for TLC |
| `EdgeFlowProofs` | proofs about `EdgeFlow` |
| `PoiUpdates` | the flow's periodic updates and asynchronous sends, and the topic `poi-data`, for one point of interest |
| `StreakState` | the driver's streaks of good noise level: batches, state, publication; extends `PoiUpdates` |
| `QuietStreak` | abstract: the longest quiet streak of a history of readings |
| `StreakStateProofs` | proofs about `StreakState` |
| `TopRanking` | `mergeTop` and `MergeList` in every order of merging |
| `CsvDumper` | a dumper thread, its file and its group's offset |
| `TopDump`, `MCTopDump` | a window's ranking, its publication and its dump; extends `TopRanking` and `CsvDumper` |
| `TopDumpProofs` | proofs about the three |
| `WebServer`, `MCWebServer`, `WebServerProofs` | the border router's web server; a router with two neighbours; proofs |

### Simulation

Variables and code: `pc` is where a rank is in `main`; `at` holds the positions in a
rank's `sensors` array; `step` counts the passes of the loop, `sensor` is its `j`;
`noise_mw` is the field of that name; `noise_sum` is root's; `channel[r]` holds what rank
`r` has passed to `MPI_Reduce` and root has not combined yet; `arrived` counts barrier
calls. `offered` and `produced` are the loop at `sim.c:267-271` and what Kafka accepted.

* A sum is the set of its addends, and an addend says which rank measured it, with the
  sensor at which position, in which step. So the model can tell a complete sum from one
  that misses, repeats or mixes contributions, which numbers could not.
* MPI may return from `MPI_Reduce` at a rank that is not root before root has taken
  part. `Eager[r]` is how many contributions MPI takes from rank `r` before the call
  blocks; the standard allows any number. Root combines each rank's contributions in the
  order they were posted, the ranks in any order.
* Broadcasts: root is ahead of the others by what MPI buffers at most.
* A missing argument, file or key ends rank 0 before its first collective call
  (`ConfigFails`); `mpirun` then kills the others.
* Memory is counted in 8-byte words on a machine with 8-byte pointers, as in the
  container that the repository builds. With three words per sensor and an extent of two,
  a broadcast of `n` sensors copies words 1 to 2n.
* The loop is endless. `MaxStep` bounds it, and is the only bound of the model.

### Entity motion

A coordinate is a whole number of a unit so small that velocities are whole; positions
are the multiples of `grid`, as floats between two powers of two are. `EntityStep` is one
coordinate of `entity_step`: the sum is rounded to the nearest position, then come the two
reflections, in the order of the code. Subtracting from twice a bound needs no rounding as long as
the result is between the same powers of two. The angle and the formulas of `physics.c` are left out.

### Configuration reader

Variables and code: `tok`, `curtab` and `tpath` are the fields of `context_t`, `tab` and `key`
the variables of `parse_keyval`, `llb` that of `parse_select`. The calls of `parse_array` and
`parse_inline_table` that are not finished are `stack`; `pc` is where the innermost one is. `defined` is not in
the code: it lists the tables that headers and braces gave.

* `tree` maps the path of each table, array and value to what the code keeps about it.
  `check_key` looks into all three lists of a table before each insertion, so one map does.
* A token's kind is chosen by the file. Of a string only matters whether it is a key
  and which; `STUCK` is the one whose text is empty: `next_token` steps over a token's
  length and finds the same one for ever. `EOF` is the newline that `set_eof` makes.
* Left out: allocations that fail (one of them, `toml.c:882`, leaves an array with a pointer to memory that
  was moved), the types of values in arrays, and the accessors `toml_rto*`.

### Kafka producer

Variables and code: `queue` and `reports` are librdkafka's, `polling` says that
`kafka_send_reading` is between `rd_kafka_producev` and `rd_kafka_poll`; `reported` and `failed` are what
`dr_msg_cb` was given, `refused` and `errored` the readings that `rd_kafka_producev` did not take, because
the queue was full or for any other reason: both return before the poll. Time is counted in readings: a message that the broker does not
confirm fails `lifetime` readings later at the latest (`message.timeout.ms`). `kafka_close` is never
called, as the loop before it is endless. `Simulation!Publish` abstracts from this module: a
reading is accepted or dropped.

### MQTT client

Variables and code: `state`, `connect_attempt`, `connection_life` and `app_buffer` are
the variables of that name, `timer` is `publish_periodic_timer`, `conn`,
`out_queue_full` and `out_buffer_sent` are the library's connection as the client sees
it. `wire` and `received` are the network and the broker, `address` the node's global
address. `quiet` is not in the code: it remembers how long ago `mqtt_connect` was called.

* Contiki's processes are not preempted, so a run of the state machine is one action, and
  so is an event of the library together with `mqtt_event`.
* The state machine runs only on its timer. `process_poll` (`mqtt-demo.c:230`) wakes the
  process, which then looks for a timer event and finds none; so a disconnect is
  handled when the timer fires, up to ten seconds later.
* Time passes in ticks. A handler may run late, by any number of ticks.
* `EventDisconnected` overwrites `state` at any time; `mqtt_disconnect` is
  then called on a connection that is already gone (`ConnectionAgreed`), and does nothing.
* A refused connection is reported by an event other than the disconnect, which
  `mqtt_event` logs in its default branch.
* The configured names are shorter than their buffers, and `RECONNECT_ATTEMPTS` is
  `RETRY_FOREVER`: `STATE_CONFIG_ERROR` and `STATE_ERROR` cannot be entered and are left
  out. `seq_nr_value` is written and never read. Received messages change nothing.
  A message is shorter than 512 characters, so `publish` never returns early. The library's
  own pings are left out: publishing every ten seconds keeps the connection busy.
* Readings are whole decibels and averages are counted in sixths. The `float` running
  sum accumulates a rounding error that this does not show.

### Edge flow

Variables and code: `queue` is Node-RED's queue of messages between nodes;
`aggregatorMap` and `enrichmentMap` are the `map` in the contexts of "POI Aggregator" and
"Enrichment"; `joined` is what the join node has collected; `produced` what has reached
"Kafka producer". `received` numbers the readings.

* A function node runs to its end; what it returns is delivered later, and all nodes' messages
  in the order of sending. A message to two nodes is two entries of the queue, so a
  reading has an instant at which it is between "POI Aggregator" and "Enrichment".
* The list of points of interest is read once, after the start, and readings may come
  first. "POI Aggregator" starts with an empty list and "Enrichment" with none: its
  function then throws, and the reading is lost.
* The names of nodes are written with underscores.
* A noise level is modelled by the readings that were averaged into it. It is a number
  exactly if none of their fields was undefined.
* Degrees are integers and a distance is a sum of differences: only which comparison
  is true matters, and that comparisons with NaN are false.
* The producer's sends are asynchronous, which `PoiUpdates` models where it
  matters: in front of the analytics. Left out: the disabled generator of random
  readings, debug nodes.

### Streaks

Variables and code: `currentValue`, `maxValue`, `baseTimestamp` are StreakState's;
`sending` are the sends under way, `topic` is `poi-data`. `position` and `batch_end` say how
far Spark has read and how far the running batch reaches; `results` and `sent`
belong to the task that runs `foreachPartition`. `seen`, and the two fields of a
streak that name records, are not in the code: they are for the properties.

* `mapWithState` keeps one state per key, and keys do not interact: the model is of one.
* A send whose answer is lost may be stored again. Sends overtake each other.
* A batch ends anywhere. Spark applies a batch's updates and then publishes; a task
  that fails publishes from its first result again. The last of `MaxFailures` failures makes
  `awaitTermination` throw, and the driver ends (`running`); it may also crash or be killed at any time.
* Nothing restarts it by itself: `docker-compose.yml:66-79` has no restart policy. A driver that somebody
  starts begins without state at the topic's end, since the
  code neither recovers from its checkpoint nor commits offsets (`DataAnalytics.java:50-59`).
* A result given to `KafkaSink` may be lost (`lost`): nothing looks at the outcome.

### Ranking

A state is the set of lists that are not merged yet, each with the readings it stands
for; `reduceByWindow` may merge any two next. `Passes` says where `mergeTop`'s two cursors and its
list are after each pass of its loops; it is a function on numbers, so that one can reason about it.

### CSV dump

Variables and code: `thread` is where `DumperThread.run` is, `batch` the records of the last poll
that its loop has not written, `rows` the file with the writer's buffer, of which `flushed` rows are
certainly on the disk. `position` and `committed` are the consumer's.

* Auto-commit, every five seconds when `poll` is called, and once more in `close`, is the
  client's default and is not changed; so is that a group without an offset begins at the topic's end.
* The model is of one thread. The threads have topics and files of their own and the group `KafkaDumper` in
  common (`DumperThread.java:28`): whenever one of them joins or leaves, Kafka assigns the group's topics anew.
  A thread that commits its position in time finds it again (`PollNothing`); one that was thrown out of the group, or whose commit
  failed, begins at the last commit, or at the topic's end if there is none (`Rejoin`, `Join`).
* An `IOException` ends the thread, not the process. A process that is killed may be started
  again and empties the file.
* `TopDump` connects a ranking of one window to the topic `poi-top-10`: the task that publishes it
  may fail and run again, with another time as key, and what it sends may be lost.

### Web server

Variables and code: `state` is the pointer that `tcp_markconn` stores with a connection, `used` what
`memb` has allocated, `expired` the timer, `request` is `s->state` and the place of `handle_input`, `script` whether
`s->script` is set. `at` is the place of the protothreads `handle_output` and `generate_routes`, `buf` and `blen` are the static buffer,
`cursor` the static iterators, `tables` the lists they go through. `phase` is uIP's state of the connection.

uIP is not in this repository; the model of it is what is known of it, as follows.

* It calls `httpd_appcall` for one event at a time, and polls a connection only when nothing waits to be acknowledged,
  so seldom while a page is being sent.
* After `uip_abort` it calls no more for the connection. After `uip_close` (`fin_wait`) it calls only for the end, or
  never: a connection whose peer does not close is dropped without a call (`Forgotten`).
* When the peer closes first, the end is reported at its FIN and again when the server's own FIN is
  acknowledged or times out (`ended`). The server clears no mark, so that the second report frees the slot once more,
  whoever has it then, and sets its `script` to NULL (`Ended`).
* A segment is sent again from `buf` as it is then.

Of the server:

* A poll that finds the timer expired frees the slot and runs `handle_connection` all the same (`Poll`).
* A script that is called through a NULL pointer stops the router (`up`).
* A page's text is followed only as long as the page has buffer, iterators and slot to itself and the lists stay as they are
  (`alone`): the comment at `webserver.c:53-56` says that pages mix, and they do. The model goes on through all of it; only `segment` and
  `page`, which are for `PageIntact`, are emptied then.
* The lists change at any time. An iterator that waits at an entry may then be anywhere in the list, or at an entry that has
  left it. A list of links may have a heading and no row, when only the root is among the nodes.
* Every name has the same page, so the answer for a missing file cannot be reached. The
  list of routes is compiled out, as the router keeps none.
* A connection whose slot could not be allocated is aborted; the last branch of
  `httpd_appcall`, for a connection without state, cannot be reached then.
* Left out: that `buf` ends after 256 characters; the places inside a line that a request is cut at.

## Runs

| Run | Shows |
|---|---|
| `simulation` | 3 ranks, 3 sensors, 2 steps; rank 1 is not buffered and rank 2 is, by two contributions |
| `simulation_positions` | the five sensors of `simulation.toml`; a counterexample |
| `mqtt_client` | the client and its window of readings against every order of events |
| `mqtt_client_refused` | a broker that refuses; a counterexample |
| `edge_flow` | three readings of four kinds, a list of two points of interest, one update, restarts, in every order |
| `edge_closest` | two points of interest; a counterexample |
| `streaks` | three updates and records, levels below and above the threshold, failing tasks, a driver that ends anywhere and may be started again |
| `streaks_late` | the same; a counterexample |
| `top_ranking` | five readings of three points of interest at two levels, the best two; up to three publications of the list, and a dumper that is started three times and loses its position twice |
| `toml_parser` | files of up to fourteen tokens, one key, paths of two |
| `kafka_producer` | seven readings, a queue of four, lifetimes of one to three readings, errors at any of them |
| `web_server` | three connections through a table of two, two slots, three pieces of data, tables with and without rows and links that change once |

**Bounds.** `simulation`: three sensors are the least number of which the broadcast
misses one; two buffered contributions let a rank run ahead by nearly a step; two steps
let ranks be in different ones and show a sum left over from the first. A third rank makes
the order among contributions a choice. `mqtt_client`: one tick is a second, and the two
intervals below a second are rounded up, so the order of all intervals is the code's.
`connect_attempt` has four values in place of 256: enough for each back-off and for the
wrap-around. One level suffices for both branches, because the ring starts with silence and the mean becomes
loud with the fifth reading, and a running sum that loses its oldest addend differs from the
ring's. That readings of different levels keep their places in the ring is proved for all of them.

`edge_flow`: two readings suffice for a first one that comes before the list
and one after it, the third shows that none in between is skipped; two points of interest
make the closest one a choice. `streaks`: three records are a base, a loud reading and a
quiet one after it, and the least with which a late reading matters; sends may be repeated, so the
records need not be of three updates. `top_ranking`: five entries of three ids
contain repeated ids, equal levels, and lists that were cut off before they are merged.
Three records let a poll return some, one and none; a second start finds an offset, and a third one
follows a second failure; two lost positions show one before the first commit and one after, or two of either. The dumper's steps are tried once the list is there: with an empty topic
they have no effect on the ranking.

`toml_parser`: with one key, every two names that may collide do; headers of two keys pass
through tables, and fourteen tokens are enough for two headers and a key in braces
(`[a.a]`, `[a]`) or for an array of tables that is continued. `kafka_producer`: with lifetimes of one and two
the queue suffices, with three it does not, so that both halves of the properties occur.
`web_server`: two slots are the code's `CONNS`; a third connection is one that is refused, or takes a slot that an end frees
for the second time. Three pieces of data are two requests, one of which comes in two; two rows show an iterator that two pages move. One change of the tables
is enough for an iterator that waits to lose its entry; each change after it would do the same to another page.

**Properties of the simulation.** `ReadingsAreTotals`: a published reading is the sum of
exactly one contribution of every rank, of its own sensor and step. `RanksInStep`: the
barrier keeps ranks within a step of each other. `ProducedInOrder`: a refused reading is
skipped, never sent late. `ImplementsCity`: all of this as one refinement.
`EveryReadingOffered`: no collective call waits forever.

**Properties of the client.** `ConnectionAgreed`: the client is online exactly while the
library is connected, and asks for a connection only when there is none.
`NeverAsleep`: the timer is always set. `NoHammering`: attempts to connect are two seconds
apart, also when the count of attempts wraps around. `ImplementsFeed`: the static buffer
is not changed while a message is under way. `KeepsPublishing`: if the network is up from some
time on, messages are published again and again, whatever happened before; the only
exception is a last attempt that was refused.

**Properties of the edge flow.** `SameReadings`: the readings that moved the levels are
those that are published, though the two nodes get the list separately. `NoneSkipped`: from the first
blended reading on, exactly the usable ones are blended, once and in order.
`LevelsAreNumbers`: only a reading without noise turns a level into NaN (which it then
stays). `ReadingsReachKafka`: the join node lets a reading go even if no other one follows.

**Properties of the analytics.** `GoodWhileInOrder`: as long as no reading comes late, no
published streak contains a loud reading, across batches, retries and restarts.
`ImplementsQuietStreak`: in the order of arrival, `maxValue` is the longest
quiet streak of what was seen. `StreaksPublished`: a task that fails half-way and begins again leaves no result out, as long as
the driver runs; a result that `KafkaSink` loses is not covered, as the code does nothing about it.
`ListsAreRankings`: cutting lists off early loses nothing.

`FileFollowsTopic`: the file skips no record from where its thread began on, and has each once and in order unless the group
loses the thread's position. `CommittedOnDisk`: a record is on the disk before it is committed; what a
restart empties is gone, and what an I/O error cuts off may have been committed.

**Properties of the reader.** `KindsTellItems`: an array's kind, which `walk_tabpath` trusts, is that
of all its items. `DefinedOnce`: no table is given twice. `ReadonlyKeeps`: no
`key = value` adds to a table in braces. `ImplementsDocument`: what was stored stays as it is, each
entry has a container, and a refused file leaves nothing. `Terminates`: every file comes to a verdict.

**Properties of the producer.** `EachAccounted`: a reading is refused for one reason or the other, waiting, or reported, one of
these, and one reported as delivered is in the topic. `NoneRefused` and `FullForGood` are the two cases of a queue that
is long enough and one that was full once.

**Properties of the web server.** `SlotsExclusive`, of each step: a slot gets two owners, or a live connection loses its slot, only when an end is
reported for the second time; the NULL script is called only after that; and a slot that nobody has stays allocated only after a connection that the server closed
and its peer did not. `NoneStays`: no client, silent or not, keeps its connection open for ever; that its slot is given back as well
depends on the peer, and is not claimed. `PageIntact`: a page that is written alone is right,
with its segments sent again or not, unless a connection that was cut has left text in `buf`, the lists change, or its slot is freed. What
pages do to each other, and what an iterator finds whose entry has gone, is modelled (`TypeOK` bounds it) but nothing is promised about the text.

**Fairness.** `Simulation`: every rank is a process that the operating system schedules,
and MPI delivers what was posted; nothing is assumed about which of two possible steps
comes first. `MqttClient`: Contiki runs a process whose event is due, clocks advance, a
connection that is neither refused nor lost is answered, and a node gets its address again. Faults
are not fair: they may happen never, once, or again and again; `KeepsPublishing` assumes
that they stop. `EdgeFlow`: Node-RED delivers queued messages, and the join node's timer
fires. `TomlParser`: the parser runs. `WebServer`: the clock runs, uIP polls idle connections,
and what was sent is acknowledged or the connection ends, as uIP gives up after so many retransmissions; nothing obliges a peer to send a request, or to close. `StreakState`: Spark starts batches that are due, and runs their tasks; sends, failures, the driver's end and its restart
are not fair.

### Where the code and its comments disagree

* `simulation_positions`: "each node has the list of simulated sensors, each node
  measures noise contribution for its entities on all sensors" (`sim.c:125-126`). It does
  not: `define_sensor_dt` leaves out `id` and does not resize the datatype. On ranks
  other than 0 sensor `j` has its position only if `3j < 2n`, and is at (0, 0) otherwise.
  With the shipped configuration this concerns `sim-004`.
* `mqtt_client_refused`: `RECONNECT_ATTEMPTS` is `RETRY_FOREVER` (`mqtt-demo.c:84-87`), but a
  refused connection is never retried: nothing leads out of `STATE_CONNECTING` but a
  connect or a disconnect event. That the library reports a refusal without a
  disconnect is an assumption about the library, whose code is not in this repository.
* `edge_closest`: Enrichment looks for the closest point of interest (`let closest`, and a
  reduce by the smaller distance, `flows.json:300`), but computes distances from
  `msg.payload.lan`, which no message has. All are NaN, and the last point of interest
  of the list is chosen.
* `streaks_late`: "point of interest with the longest streak of good noise level"
  (`DataAnalytics.java:119`). A loud reading that arrives late moves `baseTimestamp`
  back, in front of a loud reading that was seen before, and the streak that is published
  next contains it.

Without a run: a comment says that a loud reading shall "reset the current value"
(`StreakState.java:15`); it resets the base only, and `currentValue` keeps its last value, which
nothing reads before it is set again.

`communication.c:31-34` says that delivery reports come from `poll()` or `flush()`; after the first
refusal neither is ever called again, and the producer stays full though the broker is back
(`FullForGood`).

`webserver.c:53-56` says that several connections can interleave their segments. Three more things can happen to them,
which no comment mentions (`SlotsExclusive` names each as the one exception to its rule): the slot of a passively closed connection is freed twice, the
second time when another may own it (`httpd-simple.c:213-217`); the freed connection's page is then continued by a call of NULL (`:143`); and the slot of a
connection that the server closed and the peer did not is never freed. That they happen depends on uIP, as described above.

`simulation.toml:18,23` gives velocities in m/s, which `sim.c:230-235` divides by the earth's radius: radians per second,
added to positions in degrees. Entities are 57 times too slow, and a person's step of three
seconds is less than half the distance of two floats at a latitude of 45: `StandsStill`.

`toml.c:309` says of `readonly` "no more modification allowed". Headers do not look at it:
`[a.x]` adds a table to one that was written in braces, and `[[a]]` an item to an array of such
tables (`ReadonlyKeeps` is about keys only).

## Proofs

TLC checks one instance; the theorems hold for all constants that satisfy the assumptions.

**Simulation**, for every number of ranks, sensors and steps and every buffering
(`WorldSizeAssumption`, `NSensorsAssumption`, `EagerAssumption`, `MaxStepAssumption`):
`TypeCorrect`, `ReadingsCorrect`, `BarrierKeepsStep`, `ReadingsInOrder`,
`SimulationImplementsCity`. The invariant is `Inv == ControlInv /\ ChannelInv /\ RootInv`:

* `ControlInv` is about control alone. A rank's `arrived` equals its `step` outside the
  working part of the loop and is one less inside, and no rank's `Left` exceeds anyone's
  `arrived`: this is what the barrier means, and why ranks are at most one step apart. The
  set-up part says that after its last broadcast a rank knows exactly the positions
  that `MeasuredAt` names.
* `ChannelInv` says what MPI holds for a rank: the contributions from root's current
  sensor on, in order, all of the current step. `ReadingsAreTotals` is not inductive without it:
  that the oldest contribution is the one root needs depends on what has been posted
  since.
* `RootInv` says that `noise_sum` is the sum of the combined ranks' contributions, that the
  sensors behind root's loop variable hold totals, and that what was published is made of
  totals.

`TwoThirdsReplicated` is the arithmetic behind the first disagreement: sensor `j` of `n` is
replicated exactly if `3j < 2n`, so with three sensors or more the last one never is.

**Noise window**, for every set of integers as readings: `RunningSumCorrect` and
`WindowImplementsRecentNoise`. The invariant adds to the types that the running sum is
the ring's sum. The step of the refinement is `RingShift`, that after a call the ring read backwards
from the new position is the old one shifted by one; it is modular arithmetic,
and it is why the ring's size is the number six here and not a parameter.

**MQTT client**, for all positive intervals, all sets of readings and all widths of
`connect_attempt` above two bits: `ClientTypeCorrect`, `ConnectionCorrect`, `AlwaysAwake`,
`AttemptsApart`, `ClientImplementsFeed`, and `RefusedForGood`, which is why `mqtt_client_refused` fails: after a
refusal no step leads out of `STATE_CONNECTING`. The invariant adds `Spacing` (what is left
of the timer makes up for what is missing since the last attempt; `NoHammering` speaks
of two steps that lie apart and needs it) and `BufferInUse` (what the two flags of the library say
about the message) to the checked invariants.

**Streaks**, for all levels, intervals, bounds and a start at least a second after
the epoch (`baseTimestamp` is zero while it is not set): `StreakTypeCorrect`, `StreaksGoodInOrder`,
`StreaksImplementQuietStreak`. The invariant adds to the types that `seen` is the part of
the topic before `position` (`SeenInv`), what `baseTimestamp` is in terms of it (`BaseInv`: the
last loud reading's time, or the first one's), that `maxValue` is the
longest streak of `seen` (`LongestInv`), and that results and published streaks are such
streaks, and good while readings are in order (`ResultsInv`, `StreaksInv`). `OneBeginning`
is the heart: a streak's beginning is determined by the readings before its end, so
that the code's single variable for it suffices.

**Entity motion**: `PeopleShareOut`, `StaysInside` (a step no longer than the region, bounds that are
floats), `StandsStill`, `SwappedBoundsKeepOut`, for all regions, steps and roundings.
They rest on three lemmas: rounding moves a sum by half the distance of two floats at most, keeps the order, and
different floats are that distance apart.

**Edge flow**, for every list of points of interest but the empty one, every set of inputs and every bound:
`TypeCorrect`, `ReadingsAgree`, `NoneIsSkipped`, `LevelsStayNumbers`. (`Undefined` must be neither a number nor a list, which
is true of JavaScript's `undefined`.) `SameReadings` is not
inductive: that both nodes use the same readings depends on what is in the queue. The invariant adds

* `Paired`: what goes to "POI Aggregator" is followed at once by the same message to "Enrichment", so that the
  two differ by one message at most (`Agreed`), and both get the list between the same two readings;
* `ListOnce`: the list is under way only once, and before it has arrived;
* `InTurn` and `BlendedInTurn`: of two readings under way the older one is the further, and what
  was blended is older than both. So handlers that take different times cannot reorder readings;
* `Faithful` and `NoneMissed`: what is on its way or blended is what was received, and a usable reading that is
  neither came before all that are;
* `OlderFirst`: behind "Enrichment", readings stay in their order through the join node's two ways of letting them go.

The preservation of these is proved from a few facts about what any step does to the queue (`QueueMoves`, `Handled`),
not handler by handler. `ClosestIsLast` shows the disagreement `edge_closest` for every list: whatever was read where, the
last point of interest is chosen.

**Configuration reader**, for all keys and every bound on paths and tokens: `TypeCorrect`, `KindsAreRight`,
`GivenOnce`, `BracesKept`, `ReaderImplementsDocument`. It is assumed that no key is a punctuation mark
(`KeysAssumption`), as they are different kinds of tokens. The code follows pointers without a check, so the heart is that they
lead to what it expects:

* `Sound` says that the tree is connected (each entry is in a table under a key or in an array under a
  number that the array has) and that an array has all its items, of the kind it says. `KindsTellItems` needs the connection: a new
  item is new only because nothing is stored past `nitem`.
* `Frames` and `Pointers`: the calls that are not finished are about arrays and tables that are there, and so are
  `curtab` and `tab`.
* `Given`: what headers and braces gave is there, distinct, and no longer `implicit`, which is why
  the next header of that name is refused.
* `Known`: what the parser has found out when it gets to a place, for instance that the table
  of a `key = value` is not `readonly`.

Every step refuses the file, accepts it, or is a `Growth`: what was in the tree stays, of the same nature. That is a
step of `TomlDocument`.

**Characters**: `RoundTrip`, for every code below 2^31 that has bytes.

**Kafka producer**, for every limit and lifetime: `TypeCorrect`, `Accounted`, `RoomEnough`, `FullStaysFull`.
Besides the checked invariants, the one for `RoomEnough` (`HeldAreYoung`) says that between two calls the messages and the reports that wait are
of `lifetime + 1` consecutive readings (`Window`), so that they are too few to fill the queue. They need not be the last ones: a reading
that `rd_kafka_producev` refuses for another reason calls no poll, and adds nothing.

**CSV dump**, for every topic that only grows and every number of lost positions: `FileCorrect`, `CommitsCorrect`. The invariant adds to the two properties
what a thread's place says about its batch, its rows and what is flushed (`ControlInv`), and that a position counts the rows and the batch
until it is lost for the first time (`PositionInv`).

**Ranking**, for any number of readings and ranked entries: `RankingsCorrect`. `Merging` is the invariant of `mergeTop`'s
loops: the list has each point of interest that was tried, as loud at least, and is as loud as all that was not
tried. `Ranks` says what a list must be for merging to work: each reading's point of interest is in
it, as loud at least, or the list is full and all of it is as loud. The point is
`HalfRanked`, where a full list has been tried to its end: its entries fill the new list (a pigeonhole argument), so that nothing
that was cut off before is missed. `RankingsDumped` and `TopDumpImplementsDumper` carry this and the dumper's theorems over to
the composition, provided that `Records` has the published lists, as it has in the run.

**Web server**, for every size of pool, table and page: `TypeCorrect`, `SlotsAreExclusive`, `PagesAreIntact`. `SlotsAreExclusive` is
about steps; its invariant is `SlotInv`: of an allocated slot whose output has begun the script is set, its request is complete, and a connection that waits for an
acknowledgement is marked with it (so that no poll runs its script). Hence a script that is called and NULL is that of a slot that is not allocated, which only a second report brings about.
`PageInv` is the invariant of `PagesAreIntact`: of a page that has everything to itself, `Undisturbed` says that nobody else writes and that its connection owns its slot, and
`Written` that what has arrived is its beginning, that the next part and nothing else is
on its way and in the buffer, and that the static iterators are where that part was found; so
sending a segment again sends the same text, and an acknowledgement moves on by one part. `PageOrdered` is the lemma on the
page itself: each part is followed by the one that the iterators give next.

Three facts about numbers are proved here from the well-foundedness of `<`, as no proof can instantiate the
library's induction: a set of numbers has a least one, what holds at 0 and is kept holds always, and
a function that is defined by recursion satisfies its equation (`PassesOneByOne`).

Only model-checked: `EveryReadingOffered`, `KeepsPublishing`, `ReadingsReachKafka`, `StreaksPublished`,
`Terminates` and `NoneStays`, as liveness under fairness is out of the prover's reach; and, being false, the four
disagreements. Every safety property and every refinement of a passing run is proved.

## Not modelled

* Floating-point functions: `physics.c`, and the rounding of the sensor's running sum.
* librdkafka, the Kafka clients, Spark, uIP, Contiki's MQTT and MPI are modelled as far as the
  code uses them.
* Failing allocations, in the TOML reader and elsewhere.
* The three windows' averages, a commutative sum and a division; the producers that
  each of their tasks opens and nobody closes.

## Plan

1. Safety lemmas behind the liveness properties: bounds on what is left to do that each fair step lowers, for `Terminates`
   and `ReadingsReachKafka`.
2. A composition of the sensor, the edge and the analytics by way of their abstract
   specifications.
