# A verification of the OpenHR20 master

This directory holds TLA+ modules, TLC configurations and TLAPS proofs about the
ESP8266 master for OpenHR20 radiator valves (`src/src`).  The master keeps a
mirror of every client (valve), sends requested changes to it over a slow and
lossy radio, and connects the mirror to MQTT and a web page.

Build modelled: the default of `platformio.ini` and the headers: `NTP_CLIENT`,
`MQTT`, `MQTT_JSON`, `WEB_SERVER`, `WIFI_MGR`, `DEBUG`; radio by interrupt
(`RFM_POLL_MODE` undefined); `VERBOSE` and `HR20_DISPLAY` undefined.

1. [Inventory](#inventory)
2. [Modules](#modules)
3. [Runs](#runs)
4. [Fairness](#fairness)
5. [Proofs](#proofs)
6. [Where code and documentation disagree](#where-code-and-documentation-disagree)
7. [What is not modelled](#what-is-not-modelled)
8. [Plan](#plan)

Properties are checked with `tlc -config X.cfg M`, proofs with `tlapm M.tla`.

## Inventory

Everything but the radio's interrupt handler runs in one main loop
(`main.cc`).  A round of it asks an NTP server when it is time to, and slews the
clock; once the clock is synchronised it hands the time to the event log, calls
`HR20Master::update` and, when the radio is idle, the MQTT publisher; then the
web server.  Nothing is persisted but the configuration; after a restart the
model and the event log are empty and filled again.

| Component | State | Operations |
|---|---|---|
| packet queue (`packetqueue.h`) | 32 slots of address, packet (25 bytes), time; the slot being sent, prologue, CMAC | `want_to_send_for`, `prepare_to_send_to`, `peek`, `pop`, `clear` |
| client model (`model.h`) | index by address, 8 records, count | `prepare_client`, `operator[]` |
| synced values (`value.h`, `util.h`) | remote and requested value, flags, retry counter | `set_requested`, `set_remote`, `needs_read`, `needs_write` |
| protocol (`protocol.h`) | `last_addr`, force count, each client's `synced`, `need_fat_comms`, `last_contact` | `receive`, `process_packet`, the `on_` handlers, `queue_updates_for`, `update`, `send_sync` |
| master (`master.h`) | packet being assembled, its remaining length | `update`, `send`, `receive`, `wait_for_sync` |
| radio driver (`rfm12b.cc`) | mode, queues `in` and `out`, `limit`, underrun flag | `on_interrupt`, `update`, `send`, `recv`, `switch_to_*` |
| MQTT publisher (`mqtt.h`) | change bits of each client, place of the sweep, connection | change callback, `update`, `reconnect`, topic callback |
| NTP clock (`ntptime.h`, `lib/NTPClient`) | base (`_currentEpoc`, `_epocMS`), drift, times of the last update and slew | `begin`, `update`, `forceUpdate`, `slew`, `getEpochTime`, `getMillis` |
| crypto (`crypto.cc`) | key, rtc, packet counter | `update`, CMAC, cipher |
| event log (`eventlog.h`) | ring of 64 events, the place of the next, the time to stamp it with | `append`, `update`, iteration |
| event page (`webserver.cc`, `index.html`) | in the browser: offset of the next portion | `handle_events`, `stream_events` |
| codecs (`timer.h`, `converters.h`, `str.h`) | the word of a timer | parsing and formatting |
| rest of web server and JSON, configuration, button, display | configuration | reads of the model, formatting, restart |

How they interact, and where it gets hard:

* **Radio and main loop** share `in`, `out` and `mode` without a lock.  `out` is
  not circular, so a second frame may find no room while the first one leaves; a
  byte received before the switch to TX may be read after it; `wait_for_sync`
  and the handler both reset `out`.
  Correct when a frame is sent whole, finds room, and no broken reception
  leaves the master waiting for ever.
* **Protocol and packet queue**: commands for a client share packets until the
  client speaks; then its packet is marked, sent byte by byte over many rounds
  of the loop, and meanwhile seconds pass, others speak, the queue is cleared
  each full minute and slots that are too old are reused, the one on the air
  among them.  Correct when a command reaches its addressee only, in one piece, at
  most once per queueing, and a mark never outlives its frame.
* **Protocol and values**: a request stays until the client confirms it.
  Reads and writes share a retry counter that counts opportunities, not time;
  a pass has limits for eeprom and timer accesses; commands and answers get lost.
  Correct when no request is forgotten, no value stays unread, and the mirror
  ends up with what the client has.
* **Protocol and publisher**: a change callback sets bits which a sweep, a step
  per call, clears group by group while further changes come in.  Correct when
  no bit is cleared for a change that was not published, and every client gets
  its turn.
* **Model**: the record of a new client is given out on its first valid packet.
  Correct when records and addresses stay one to one, also when the ninth
  client comes.
* **Clock and everything else**: the clock is a base and `millis()`, which wraps,
  and every function reads `millis()` anew; an update blocks the loop for up to
  a second; its answer may be lost or come when the next one is waited for; a
  drift is slewed a millisecond a minute, back over a second that was already
  handled.  The protocol acts when the second is 0 or 30, the event log needs a
  time that is not 0.  Correct when no such second is passed over, time goes back
  by no more than slewing justifies, and the clock keeps to UTC.
* **Event log, web server and browser**: the page is read in portions by offset
  from the newest event, while events are reported.  Correct when no event is
  left out between two portions, and the page knows the end of the log.
* **Topics and values**: what is published is text, and text is what is
  requested.  Correct when each value is read as it was written.

The list of hazards, each at its line with the properties about it, is in
`PROJECT.json`.

## Modules

| Module | Models | State and actions |
|---|---|---|
| `PacketQueueOps` | the queue's functions | `Queued` is `want_to_send_for` with the pushes that follow it, `Prepared` is `prepare_to_send_to`; no variables |
| `PacketQueue` | the queue with its callers | `que`, `tx` as in the code; `talking` marks a packet exchange, a run of calls nothing interrupts; actions for a call in an exchange, its end, a second (aging, clearing, sync), a popped field |
| `Mailbox` | what the queue promises | a command is new, waiting, sent or lost; it is delivered once, to its addressee |
| `SyncedValues` | `CachedValue`, `SyncedValue`, the flag byte | operators on a record; no variables |
| `Protocol` | `protocol.h` with values, queue and clients | `hr` is the model; actions are a report or an answer heard or lost, a frame heard or lost, a second, a sync heard, a topic asking for something, a turn of a client's wheel |
| `ClientRegistry` | `prepare_client`, `operator[]` | `index`, `cidx`, `clients` as in the code |
| `ClientDirectory` | what the model promises | a partial function from addresses to records, with room for some |
| `TopicPath` | `mqtt::Path` | `Compose` and `Parse` on sequences of levels; no variables |
| `Codecs` | `StrMaker`, `Str`, the converters, `Timer` | texts are sequences of digits and signs; no variables |
| `TopicCallback` | the topic callback on top of `ClientRegistry` | `message` is the last topic and payload; a message that is a request, another one, a packet |
| `Radio` | `on_interrupt` against `HR20Master::update` | the handler is one action per branch; the loop has a program counter, so that the handler runs between any two of its accesses to shared state |
| `MqttPublisher` | change bits and sweep | `cell` is how far each value got; one call of `update` is one action |
| `NtpClock` | `NTPClient`, `NTPTime`, the time part of `loop()`, `Crypto::update` | the variables of the code; `pc` makes each reading of `millis()` that is compared with another a step, and `Tick` lets time pass between any two |
| `EventLog` | the ring and its iterator | `events`, `pos`, `now` as in the code; `Listed` is what an iteration passes |
| `RecentEvents` | what the log promises | the last events, newest first |
| `EventPages` | the log, `handle_events` and the page in `index.html` | `browser` is where the request is, `shown` what the user sees; an event, a time, a restart, a request served, answered, lost, "load more", the page opened anew |
| `MC*` | instances for TLC | values of constants |
| `PacketQueueProofs`, `ClientRegistryProofs`, `TopicCallbackProofs`, `ProtocolProofs`, `RadioProofs`, `MqttPublisherProofs`, `NtpClockProofs`, `EventLogProofs` | proofs | |

`PacketQueue` and `Protocol` both use `PacketQueueOps`; `Protocol` uses
`SyncedValues`.  `TopicCallback` extends `ClientRegistry`, `TopicPath` and
`Codecs` and implements the first.  `EventPages` extends `EventLog`.
`PacketQueue` implements `Mailbox`, `ClientRegistry` implements
`ClientDirectory`, `EventLog` implements `RecentEvents`.  `map` in `PROJECT.json` gives the lines of every definition.

Abstractions that recur:

* **Time** in the queue is an age relative to now, cut off when it is past
  `MaxAge`: only `time + packet_max_age < curtime` is ever asked.  Local time is
  `TzOffset` ahead, which matters since `send_sync` passes local time.
* **A frame's CMAC** is the contents it was computed over: a client accepts a
  frame exactly when what left the radio is what the CMAC covers.
* **Bytes of a packet** are commands with their lengths; a byte on the radio is
  the length it would mean, or whether it ends its frame.
* **Values** are members of a small set; what is equal, out of range or refused
  is all the code distinguishes.  Texts are exact in digits; letters are alike,
  since the code compares no words but the mode (`str.h:85` compares a text with
  itself, which leaves the length).
* **Scales** of the clock are constants: ticks in a second, seconds in a minute,
  ticks until `millis()` wraps, the width of a `long`.
* **Mutants**, named as such, follow the definitions they stand in for; the
  specifications do not use them.

The clients' firmware is not in the repository.  That they speak once a minute,
answer commands and report values is taken from what `protocol.h` expects.

## Runs

| Run | Question | Instance, and why it is enough |
|---|---|---|
| `queue_safety` | Is the queue a mailbox?  Do marks end, pushes fit, queues drain? | two slots, two clients, a packet that two of three writes fit into (sharing and overflow), an acknowledge without bytes, packets too old after 3 seconds, stalls of 2 seconds over the full minute, a sync that finds all packets too old |
| `topics` | One record for each address, records fresh, a directory?  Is a client asked by the topic of the value, and by no other, for the value that was published?  Do the codecs agree? | room for 2, addresses 0-3 and one beyond: the array fills up and both refusals happen; topics of each kind with and without prefix and set branch, too short and too long, with a day too many, an unknown client, and numbers of 256 and more; payloads at the ends of each range, and texts that are read as another value or as none; the codecs over every value of their widths |
| `protocol_safety` | Are requests kept, temperatures in range? | one client, all basic values and an eeprom cell, topics that set several, one refused and one unsendable temperature, a lossy radio |
| `protocol_live` | Is every request settled and every value read? | one eeprom access and one timer in an exchange, so the limits of a pass bite; two timers and a cell compete |
| `protocol_shared` | The same with a queue that is too small, and the mirror | one slot for two clients and the sync; wheels turned at the clients |
| `protocol_stale` | Can an old command undo a newer one? | reads of three timers fill a packet so that writes overflow; violated |
| `protocol_timers` | Does a timer that was asked for get to the client? | one timer; violated |
| `radio` | Are frames sent whole, do they fit, does the radio come to rest? | frames of one or two bytes, two of the longest fit into the queue and three do not; a packet can claim to be longer than both buffers, in any order |
| `radio_lost` | Does what `send` accepted stay until it is sent? | the same; violated |
| `events` | Is the ring a list of the last events?  Is the page complete when it says so? | six slots, of which five are listed, an iterator that counts modulo 12, portions of two: three portions, the last one short; eight events, so that the ring is overwritten while it is read; the clock set at any time, restarts, lost answers |
| `clock` | Does the protocol see its seconds, does time go back no further than it may, does the clock keep to UTC? | seconds of three ticks and minutes of eight seconds, `millis()` wraps after 61 ticks, an update every three minutes, after two polls it gives up; 90 ticks, so that several updates follow one another and `millis()` wraps once; one tick in a round of the loop apart from polls; the device started at two phases of the minute, begun at once or a second later |
| `publisher` | Is every change served and published? | an address without client and two with; two days of two slots, two eeprom chunks; re-reads, reports at any place of the sweep, one fault of the connection |

Bounds are constants with `Max` in their names, or bounds of the instance:
`MaxAsks` and `MaxTurns` (requests and turned wheels in a behaviour of
`Protocol`), `MaxAir` (fields of a frame the radio has taken when a second
passes; a frame takes it 20 ms), `MaxReports` and `MaxFaults` (reports of timers
and eeprom cells, and faults, in a behaviour of `MqttPublisher`; the frequent
report is not bounded), `MaxEvents` (events in a behaviour of `EventPages`; the
code of an event is its number, so that one left out can be told), `MaxTicks` and
`MaxStall` (ticks in a behaviour of `NtpClock`, and in a round of its loop).  In `PacketQueue` each command is queued once, so that
a delivery can be told from a repetition.

The properties, beyond a type invariant of each module:

* `MarkedIsSending`, `PacketFits`, `NoMisdelivery`, `ImplementsMailbox`,
  `ServingKeepsFresh`, `QueueDrains` of the queue;
* `OneRecordEach`, `FreshRecords`, `ImplementsDirectory` of the model;
* `KeepsRegistry`: whatever topic arrives is to the model a request for a value
  that exists, or nothing; `AskedByItsTopic`: the topic is the one the master
  would write for that client and value, up to the freedom the parser leaves;
  `RequestsGetThrough`: what the master publishes of a value, sent back to it,
  requests just this value; `CodecsAgree`: every value is read as it was written,
  for all values of its width, and a temperature in hundredths is printed at most
  one of them too low;
* `TempInRange`: no temperature out of range is queued, whatever was requested;
  `GivenUpForGoodReason`: a request ends by confirmation, refusal, or because it
  cannot be sent; `RequestsSettle`, `ReadsComplete`, `MirrorSettles`;
* `NoCutFrame`, `FrameFits`, `ComesToRest` of the radio;
* `OnlyLateChangesOverlooked`: a change not published has its bit, or came
  behind the sweep; `ChangesAreServed`, `FrequentValuesArrive`;
* `ImplementsRecent`: the ring lists the last events wherever the place of the
  next one is; `EmptiesLast`: events without a time come last, so that leaving
  them out ends a page and does not tear a hole; `NothingSkipped`: whatever is
  reported between two portions, none is left out on the screen (some come
  twice); `EndIsTheEnd`: when the page offers no more, it has all that were
  reported before it was opened and are still in the log;
* `SyncSecondsSeen`: the RTC passes over no second 0 or 30 unless the clock was
  just set or `millis()` wrapped: the update blocks at second 55, which leaves
  the loop the time it needs; `SecondsGoBackByOne`; `LogGetsTimes`: no event is
  stamped as if it had no time once the log is told the time; `KeepsTime`:
  before `millis()` wraps the clock is off by no more than the answer was old by
  which it was set, the fraction of a second or the polls counted wrong for it,
  and a millisecond for every minute since.

## Fairness

* **Queue**: an exchange ends (one call of `process_packet`); the loop calls
  `send` on each round, so fields leave and full minutes are seen again and
  again.  The loop may stall over one of them, not over all.
* **Protocol**: seconds pass; a frame that is on its way ends.  The radio is lossy
  but not malicious: a client that keeps having something to say that the
  master needs is heard at some time, and so is a frame with a command that is
  still needed.  This is strong fairness written out with its enabling
  predicate (`Listening`, `Telling`, `Commanding`), which TLC evaluates faster than
  ENABLED.  Nothing is assumed of the sync packet, of frames nobody needs, nor of
  the order in which requests and reports come.
* **Radio**: the loop runs, the chip asks for bytes while it sends, a sync is
  queued every half minute unless a frame is still on its way.  Nothing is assumed
  about reception: a packet may break off anywhere, for ever.  It is the sync that
  brings the radio back.
* **Publisher**: `update` is called again and again, `MQTT_RECONNECT_TIME`
  passes, clients report once a minute.
* **Clock and event log**: none; all their properties are safety.


## Proofs

All theorems hold for every value of the constants that satisfies the named
assumptions of the modules.

* **`PacketQueueProofs`** (`TypeCorrect`, `MarkCorrect`, `PushesFit`,
  `DeliveredToAddressee`, `QueueIsMailbox`, `FreshPacketsStay`).  The invariant
  `IInv` adds to `NoMisdelivery` what is true of queue and transmission together
  (`QueueOK`): a packet addressed to a client, and the contents of the CMAC of
  the frame under way, hold only its commands.  Neither follows from what was
  delivered so far.  `QueueOK` is a predicate of a queue and a transmission, so
  that lemmas about the operators (`QueuedOK`, `PreparedOK` and so on) speak of
  the queues in the middle of a handler.  Slots are found with the least element
  of a set of naturals.  For the mailbox `HeldOK` is added: a command waits in one
  packet only, was queued once, and is nowhere any more when it was received; then
  every step of queue and clients is one of the mailbox, or none.
* **`ClientRegistryProofs`** (`TypeCorrect`, `RecordsAreOwned`,
  `NothingInherited`, `RegistryImplementsDirectory`).  The code compares `cidx`
  with the room there is, the directory the number of enrolled clients; `IInv`
  says they agree, which needs one record for each address.
* **`TopicCallbackProofs`** (`CallbackKeepsRegistry` and with it the four theorems
  of the registry, `OnlyAskedByItsTopic`, `RequestsAreUnderstood`,
  `CodecsAlwaysAgree`).  What the callback takes has one of three shapes
  (`TakenKinds`), which exclude each other, so that the order in which the parser
  tries them is no matter; it is then the path of a value that can be set
  (`TakenIsSettable`) and the topic is the one written for it, up to the freedom
  named (`TakenByItsTopic`).  The other way round, what `Compose` writes is parsed
  to the path it was written for (`ComposedIsParsed`), and what is published is
  read as the same value: a text is taken apart where it was put together
  (`TakenApart`), and up to three digits add up to the number they were made of
  (`DigitsRead`).  For hundredths it is shown of any number and any power of two
  by which the float is scaled, that cutting off after rounding loses one at most
  (`CutOff`); that there is a power with 24 bits is a case for each (`HasExponent`).
  Assumed: numbers of days, slots, cells and addresses fit a byte (`uint8_t` in
  `Path`), and every cell a topic names is one there is.
* **`ProtocolProofs`** (`ProtocolTypeCorrect`, `TempStaysInRange`,
  `RequestsAreKept`).  A request for a temperature out of range is replaced by the
  reported one, so `TempInRange` needs that this one is known whenever something
  is queued: `IInv` says that a client that was heard has reported its
  temperature (`TempsKnown`), and that only those have commands queued or answers
  on their way (`AddressedAreKnown`).  The loops of `queue_updates_for` are
  recursive functions; what a round keeps, the loop keeps (`LoopStays`,
  `Rounds`).  Assumed: there is a content that can be requested, the cells of
  each kind are told apart.
* **`RadioProofs`** (`TypeCorrect`, `FramesSentWhole`, `FramesFit`).  A frame
  could be cut in two ways.  When the handler runs out of bytes before the end
  of a frame: excluded since the last byte in `out` ends a frame, which needs that
  no frame is pushed in part.  When the loop calls `wait_for_sync` while the radio
  sends: excluded since `in` is cleared at the switch to TX, nothing is received
  until it is over, and `send` has reset the packet being assembled.  That
  frames find room is the long part (`Frames`, `Pending`, `Waiting`): when a
  frame is waiting in `out` and the radio does not send yet, the packet being
  assembled is too short to be answered before it does; so only a sync can come
  on top.  `RadioAssumption` asks that two of the longest frames fit (they have
  37 bytes: 4 of prologue and sync word, length, address, 25 of packet, 4 of CMAC
  and 2 dummies; the queue has 84) and that a packet that is answered has more
  than one byte.
* **`MqttPublisherProofs`** (`SweepTypeCorrect`, `OnlyLateOverlooked`).  In
  `SweepIInv` every value that is not published has its bit set or is late, the
  place of the sweep is one that `nextMajorState` reaches (a multiple of the chunk
  for eeprom cells), and what the sweep passed in its group without publishing it
  was reported behind it.
* **`NtpClockProofs`** (`ClockTypeCorrect`, `LogGetsATime`, `TypeCorrect`,
  `ClockKeepsTime`, `RtcGoesOn`, `NoSyncSecondSkipped`).  `ClockIInv` follows the
  time from the start: without an epoch the clock counts from 0
  (`CountsFromStart`), an answer is stamped no earlier than the device was started
  (`StampsFromStart`), and in the second in which an update is allowed at least a
  second has passed since `millis()` was 0 (`UpdatesLate`).  The last one needs
  `UpdateSecAssumption`: no round of the loop gets from second 55 over the end of
  `millis()`, since 2^32 ms end in second 47.  Three more invariants rest on it.
  `DriftIInv` says when each reading of `forceUpdate` was made (`ReadInOrder`): the
  drift is the difference of two readings a stall apart, less than two seconds
  even if `millis()` wraps in between, which the width of a long takes out
  (`DriftBound`); so an update never moves the base (`CorrectLeavesBase`).
  `KeepsIInv` counts the slews: at most one for each minute since the start.
  `RtcIInv` says how much time passed on the own clock since the RTC was updated
  (`RtcFollows`), and that the RTC is in the second of the update or the one before
  where there are polls.  They need `TimingAssumption`: a round of the loop takes
  less than a second without polls (`MaxStall`; nothing in the code bounds it) and
  less than two with them (101 polls of 10 ms, `NTPClient.cpp:79-89`), and neither
  the second of the update nor the next one is a second of a sync (55 and 56; 0
  and 30).
* **`EventLogProofs`** (`LogTypeCorrect`, `RingRefinesRecent`, `EmptyEventsLast`,
  `PagesTypeCorrect`, `NothingIsSkipped`, `EndOfPagesIsTheEnd`,
  `PagesImplementRecent`).  `LogIInv` says what is where in the ring: the event
  reported k-th before the next one is k places before it (`Place`), and the
  iterator's view is the sequence of them (`View`), whatever its width, as long as
  that is a multiple of the length.  `PagesIInv` numbers what is shown
  (`Numbered`), says that a portion ends where the next one may begin
  (`OffsetOK`, `NoneLeftOut`) and that only a short one is the last (`ShortIsLast`).
  `EndOfPagesIsTheEnd` has the hypothesis `PageLen = FullPage`: the server's portion
  (`MAX_JSON_EVENTS`, `config.h:101`) is the one the page counts on (`index.html`,
  `stream_events`).

Model-checked only:

* liveness, which is out of the prover's reach: `QueueDrains`, `RequestsSettle`,
  `ReadsComplete`, `MirrorSettles`, `ComesToRest`, `ChangesAreServed`,
  `FrequentValuesArrive`;
* what is violated: a counterexample is the proof.

## Where code and documentation disagree

Three disagreements are shown by runs (`findings` in `PROJECT.json`):

1. `protocol_stale`: filled from the top, sent from the bottom: an older
   overflowed write may go out after a newer one and undo it.
2. `protocol_timers`: `set_timer_mode` and `set_timer_time` do not set the
   request flag, so timers are never written (`model.h:120`).
3. `radio_lost`: `switch_to_idle` drops a frame that `send` accepted while the
   radio was receiving (`rfm12b.cc:379`).

Noticed while modelling, and followed in the models, without a run:

* Packets carry Unix time, the sync is compared in local time, so east of
  Greenwich every packet counts as too old when a sync is queued, and the one in
  the top slot is overwritten, which is neither a "free spot" nor a "too old
  packet" (`packetqueue.h:109`).  `ServingKeepsFresh` says when it does not happen.
* The case MODE runs on into LOCK (`mqtt.h:1026`), whose comparison is only about
  the length of the payload (`str.h:85`): "open" and "auto" also lock the menu,
  "off" unlocks it.  `AskMode` of `Protocol` and `Requested` of `TopicCallback`
  follow the code.
* The word of a mode is compared with `strcmp`, but a payload does not end with a
  zero byte (`mqtt.h:1003`): it depends on what follows whether a mode is
  recognised (`seen` in `TopicCallback`).
* `Timer::set` takes hour, minute and mode, but is called with the mode first
  (`timer.h:41-59`): a time that is set by topic becomes another one
  (`SetTimerTime` of `Codecs`).
* What is behind the point is printed as a number of its own, without leading
  zeros, and cut off below (`str.cc:58`): 20.05 degrees are "20.4", although
  `converters.h:133` says "X.XX".
* An empty payload, and a minus sign alone, are the number 0 (`str.h:160`).
* A drift is what passed on the own clock between two readings a moment apart,
  less the fraction of the answer; the seconds of the answer are used by the
  first update only (`NTPClient.cpp:127`), so the clock is never corrected against
  the server (`NTPClient.h:83`: "to divert from abrupt time skips").  `KeepsTime`
  counts a millisecond a minute for it, with a `millis()` that keeps UTC itself.
* The fraction is shifted too far: `mssec` is an eighth of it (`NTPClient.cpp:117`).
* An answer that comes after `forceUpdate` gave up is taken for the answer to the
  next request (`NTPClient.cpp:84`): the clock may be set behind by a minute and
  more (`late`, `age` in `NtpClock`).
* When 2^32 ms have passed since the base, which slewing moves by a millisecond a
  minute, more than a minute in all, the clock goes back by 2^32 ms: nothing moves
  the base on (`NTPClient.cpp:178`).
* Events are stamped 0 before the first synchronisation and are never listed; the
  first after it carry a time counted from 1970 (`main.cc:104` with
  `ntptime.h:86`).
* The log lists one event less than "last N events" (`config.h:97`).
* Address 0 gets a record from `prepare_client` when a packet claims it, although
  `error.h:41` calls it invalid.
* `synced` says that the last pass queued nothing, not that everything is known
  (`model.h:42`).
* `last_addr` is forgotten each second, so it prevents a second answer only
  within that second (`protocol.h:142` and `:294`).
* `master.h:108`, "when sending, we are sure to discard any prior received data":
  a byte that is still in `in` may be read after that, until the radio switches;
  `Radio` shows that it does no harm.
* The topic is `timers` in the README and `timer` in what is published; when set,
  both are taken, since only the beginning is compared (`mqtt.h:176`).  So are
  `eeproms`, and numbers modulo 256 (`mqtt.h:443`).
* A timer topic with a day or slot out of range sets nothing, but the callback
  goes on as if it had and has the client visited again (`mqtt.h:1054`).
* A change behind the sweep within its group loses its bit; the broker learns
  of it with the next change of that group (`late` in `MqttPublisher`).
* `on_menu_lock` calls no change callback.

## What is not modelled

* The composition of `NtpClock` with `PacketQueue` and `Protocol`: there a second
  is a step, and stalls of the queue stand for those of the clock.
* Cipher and CMAC as arithmetic, and the packet counter, which the ends of the
  radio link count up alike within a second.  A frame that was not sent by a
  client with the key is a lost one.
* Payloads of eight digits and more, and temperatures with a sign or beyond the
  range of their byte: converting such a float is undefined.  A text that does not
  fit its buffer.  Volts, which are printed like hundredths.
* Time zones: they are whole minutes, and change no second of the minute.  How long
  a DNS lookup blocks the loop.
* Empty levels of a topic, and the leading separator the parser skips.
* Names of events and errors, their JSON, and the other handlers of the web server:
  they read the model in one step and change nothing in it.  Configuration,
  button and display.
* SPI commands of the radio but for their effect on mode and FIFO; underruns and
  broken receptions are choices.
* Wi-Fi, DNS and the MQTT library (external: `connect`, `publish` and `loop` may
  fail).

## Plan

Done: 1. `PacketQueueOps`, `PacketQueue`, `Mailbox` and proofs.
2. `ClientRegistry`, `ClientDirectory` and proofs.
3. `SyncedValues`, `Protocol`.  4. `Radio` and proofs.  5. `MqttPublisher`.
6. `TopicPath`, `TopicCallback`.  7. `NtpClock`.  8. `EventLog`, `RecentEvents`,
`EventPages`.  9. `Codecs`, and payloads in `TopicCallback`.

10. Proofs of the safety properties of all components: each invariant and each
action property a passing run checks is a theorem.
