# A TLA+ model of agentx-proxy

agentx-proxy speaks the PostgreSQL and the ClickHouse protocols and stores
everything in MySQL. This directory holds TLA+ modules that model its core,
configurations that model-check them with TLC, and theorems that TLAPS proves.
Line numbers refer to the files under `src/`; a name of a module here that
equals a name of the code models that code. `PROJECT.json` maps every
definition to the lines it stands for.

## 1. The system

```
 PostgreSQL clients ──> postgresql.Server ──────────────┐
                          └─ Catalog (pg_catalog)  ─────┤
 ClickHouse clients ──> HTTPServer   ── WriteBuffer ────┼──> mysql.Pool ──> MySQL
                    └─> NativeServer ── WriteBuffer ────┘
 main: pool, schema, the three servers, SIGTERM
```

| Component | Code | State it keeps | Operations |
|---|---|---|---|
| PostgreSQL server | `internal/proxy/postgresql/server.go` | per connection `connState`: prepared statements, portals, `describedPortals`, `inTransaction`, `transactionFailed` | start-up, Query, Parse, Bind, Describe, Execute, Close, Sync |
| pg_catalog emulation | `internal/proxy/postgresql/catalog.go` | `colTypeCache` | one handler per catalog table; three of them read MySQL |
| PG translation | `translator.go`, `array.go` | none | rewriting of SQL text and of parameters |
| ClickHouse HTTP server | `internal/proxy/clickhouse/http_server.go` | the listener, its connections | ping, query, INSERT, direct writes, Close |
| ClickHouse native server | the same file | one goroutine per connection | Hello, Ping, Query, Data, Close |
| Write buffer | `internal/proxy/clickhouse/buffer.go` | `buffer`, `mu`, the ticker | Enqueue, flushLoop, Flush, flushLocked |
| CH translation, system tables | `translator.go`, `system.go` | none | rewriting of SQL text; fixed answers |
| MySQL pool | `internal/mysql/pool.go` on `database/sql` | open and idle connections | Exec, Query, Begin, Close |
| Schema | `internal/mysql/schema.go`, `*_ddl.go` | the tables of MySQL | EnsureSchema |
| Codecs | `pkg/pgwire`, `pkg/chproto` | read buffers | encoding and decoding of messages |
| Configuration, rules | `internal/config`, `internal/translation` | read once | Load |
| Process | `cmd/agentx-proxy/main.go` | – | start, wait for a signal, close, exit |

How they interact. Every connection has a goroutine. All of them, and the
flushes of the two write buffers, share one `database/sql` pool: each statement
runs on whatever connection the pool hands out. A write buffer is shared by the
handlers of its server, by its ticker goroutine and by `main`, which flushes it
in `Close`. MySQL keeps the transaction of each pool connection.

What is hard in it, and hard to test:

* goroutines interleave in the write buffer, and flushes fail half-way, time
  out, or race with the shutdown;
* a transaction belongs to a pool connection, the client's idea of it to a
  client connection, and nothing ties the two together;
* handlers of catalog queries hold one pool connection while they wait, without
  a timeout, for another;
* who sends `RowDescription` in the extended protocol depends on a map that
  outlives the statements it is about;
* acknowledged INSERTs live in memory only;
* read errors within a packet or a message are ignored or end the connection,
  and a field read too much or too little shifts the rest of the stream;
* a value is text or binary, NULL or empty, and the two sides of an Execute
  compute separately which it is;
* several processes create one schema and compete for the ports of a host.

The list with the line of each hazard is in `PROJECT.json` under `hazards`.

What makes each component correct, as far as this project states it:

* write buffer: INSERTs reach MySQL in the order they were appended and at most
  once; none vanishes; the buffer is bounded; everybody who waits is answered;
* transactions: what a client was told is committed is in MySQL, what it was
  told is rolled back is not; the status byte tells the truth;
* pool: connections are conserved, and nobody who queues waits for ever;
* extended protocol: rows are announced by exactly one `RowDescription`;
* catalog: nested queries do not block the pool; an OID names the table for which
  it was given out;
* connections of both protocols: the server reads exactly what was sent, executes
  no text that did not arrive whole, and answers in whole messages that the
  client can count;
* parameters and rows: MySQL gets the value that was bound, the client the value
  that was stored;
* start-up: nobody is served before the schema is there, and after the faults
  are over every host is served.

## 2. The modules

| Module | What it is |
|---|---|
| `DeliveryQueue` | abstract: what a write buffer promises |
| `WriteBuffer` | the buffer, its handlers, ticker, flush and shutdown; refines `DeliveryQueue` |
| `WriteBufferProofs` | its inductive invariant, five safety theorems, and that it implements `DeliveryQueue` |
| `PgTransactions` | transaction statements of several clients on the pool |
| `PgTransactionsProofs` | conservation of connections; transactions of a client that is alone on the pool |
| `PgSession` | the extended protocol of one connection |
| `PgSessionProofs` | type correctness and the two RowDescription theorems |
| `Catalog` | catalog queries that nest MySQL queries, and their OIDs |
| `CatalogProofs` | type correctness, the absence of a standstill, stable OIDs |
| `PgWire` | the encoding of PostgreSQL's messages (`pkg/pgwire`) |
| `PgConnection` | one connection of the PostgreSQL server in bytes: start-up, message loop, errors |
| `StreamLemmas` | bounded induction, joining sequences, what is left of a stream that is read from the front |
| `PgConnectionProofs` | lemmas about `PgWire`'s encoders and readers; that the server reads what was sent, starts the session it was asked for, and that the client can read and count the answers |
| `PgValues` | the parameters and rows of one Execute, in text and in binary |
| `ChProto` | the encoding of the native protocol (`pkg/chproto`) |
| `NativeProtocol` | one connection of the ClickHouse native server in bytes |
| `NativeProofs` | lemmas about `ChProto`'s encoders and readers; that the server stays in step, executes what was sent, and answers each query once |
| `StartUp` | processes from their first connection to MySQL to their exit |
| `StartUpProofs` | that no process serves without the schema |
| `MC...` | instances and symmetry sets for TLC |

`PgConnection` and `PgValues` extend `PgWire`, `NativeProtocol` extends `ChProto`.
What `PgConnection` leaves open (which answer, which error) is decided in
`PgSession`, `PgTransactions` and `PgValues`; each of these takes for granted
what `PgConnection` shows, that a handler gets the message that was sent.

Operators named `X_Y` are the definition `X` with a plausible fault `Y`. No
specification uses them; they show that the properties would notice the fault
(`PROJECT.json`, `mutants`).

### WriteBuffer

Actors are the request handlers, the ticker goroutine and the main goroutine at
shutdown (`Closer`). `lock` is `wb.mu`; `buffer` is `wb.buffer`; `phase`,
`queries`, `pos` and `expired` are the local state of `flushLocked`: its place
in the function, its copy of the batch, its loop index and its 30 second
context. A statement is the number of its `Enqueue`. A step is one call to
MySQL or one critical section without such a call:

| Action | Code |
|---|---|
| `Request`, `Enqueue`, `Ack` | `http_server.go:74-119`, `594-598`; `buffer.go:39-48` |
| `Tick`, `Flush` | `buffer.go:50-73` |
| `Begin`, `ExecTx`, `ExecTxFails`, `Commit`, `CommitFails` | `buffer.go:84-109`, the transactional path |
| `ExecSingle`, `SingleDone` | `buffer.go:85-94`, after a failed `Begin` |
| `Timeout` | the context of `buffer.go:80` ends |
| `Signal`, `ServerClose`, `PoolClose`, `Exit` | `main.go:105-124`, `http_server.go:64-67`, `390-398` |

`Faults` selects what may fail: `begin`, `exec`, `commit`, `timeout`, `crash`.
`ClosesConns` distinguishes `HTTPServer`, whose `Close` ends the client
connections, from `NativeServer`, whose `Close` ends only the listener.
`Commit` stands for a commit that took effect, whether or not its answer
arrived: the code only logs the error and both cases leave the same state.

### PgTransactions

`connState` is `inTransaction` and `transactionFailed`. The pool is `free`
(LIFO, as `database/sql` keeps its idle list), `opened` and `MaxIdle`; a
connection carries its MySQL transaction in `txn`. Handlers that find no
connection queue; a connection that is released while somebody queues stays in
`free` until it is taken, which is why `PoolConserved` allows `free` to be
longer than `MaxIdle` by the number of the waiting. `asked`, `promised` and
`rolledBack` are history: what each client was told, under PostgreSQL's rules, by
`CommandComplete` or by a `ReadyForQuery` without an error, which is all it gets
for a command that is swallowed. Commands are split into those `executeQuery`
recognises literally and those it passes on (`"commit;"` with its semicolon);
`mixed` are the clients that ended a transaction in another of these two
spellings than they began it in, or nested them.

| Action | Code |
|---|---|
| `Swallow` | BEGIN inside, COMMIT and ROLLBACK outside a transaction: `server.go:840-868`, no call of MySQL |
| `Start` | the handler up to `pool.Exec` |
| `Acquire` | the pool hands out a connection |
| `Exec`, `ExecRefused`, `ExecLost` | the statement, all the handler does after it, `ReadyForQuery` |
| `Expire` | an idle connection ends |
| `FlushBegin`, `FlushEnd` | a write buffer's transaction on the same pool |

### PgSession

One connection serves one message after the other, so a step is one message
with all its answers, the set `out`. Query texts are sorted into classes by
how Describe and Execute treat them (SELECT, fixed answers, other listings,
RETURNING, other writes), with those catalog queries as a sixth that
`HandleCatalogQuery` leaves to MySQL (`PassedOn`). `told` and `knows` are the
client's side: the statements and portals of which it has got a `RowDescription`;
`refused` are the portals of which it only got NoData. `Client` says which habits
the client has: to parse a name again, to bind without a Describe, to describe a
statement that is already bound.

### Catalog

`pc[s]` follows a handler through its first query ("open", "scan") and its
nested ones ("nested", "read"); `InUse` counts the connections this needs.
Tables are numbers in the order of their names; `TableAt(list, oid)` is the
position that `handlePGAttribute` counts down to. The clients of the pool are
split into sessions that send catalog queries (`Nesting`) and others (`Plain`).

### PgWire and PgConnection

A stream is a sequence of bytes. `PgWire` has the readers of `wire.go` and the
messages of `writer.go`; a reader returns its value and the position behind it.
`PgConnection` keeps the unread bytes (`wire`), what the client has sent (`sent`),
what the server has made of it (`got`), which messages ended with an error
(`failed`) and the bytes that went back (`out`). A handler runs to its end before
the next message is read, so one step is one message.

| Action | Code |
|---|---|
| `DenySSL`, `Accept`, `Reject` | `server.go:145-215` |
| `HandleSimpleQuery` ... `HandleSync`, `Ignore` | `server.go:239-297` and the handlers |
| `Refused` within them | `server.go:225-235`: the error and ReadyForQuery |
| `HangUp` | `server.go:218-223` |
| `SendStartup`, `Send`, `Break` | the client, which may pipeline, and whose connection may end at any byte |

The client's encoding is written apart from the server's readers (`Encode`,
`Body`), so that a mistake in one shows against the other.

### PgValues

A portal is bound and executed (`portal`), MySQL or the catalog answers with a
`result`, the rows are sent one by one, the query may fail in between, and the
client may execute the portal again. `portal.path` says which of
`executeParameterizedMySQLQuery`, `executeMySQLQuery`, `executeWriteReturning`,
`executeCatalogQueryExtended` runs it; "unknown" is a query that looks like one of
the catalog and that `HandleCatalogQuery` does not know, which goes on to
`executeMySQLQuery` without its portal, and "fixed" one of those that are answered
with a row of texts (`server.go:966-1006`). `query` and `args` are what reaches
MySQL: the translation has a question mark for each `$N`, MySQL takes the
arguments by their places and refuses more or fewer (`Translated`, `Places`,
`EnoughFor`). Parameters and results have every mixture of formats in the instance.
`Decoded` is a strict client's reading: a number that was announced in binary and
has another length than its type is unreadable.

### ChProto and NativeProtocol

`ReadFields` reads several fields and ignores the errors, as `handleConn`,
`handleReHandshake` and `handleCHQuery` do: of a stream that ends early the
missing fields are empty. A step is one packet. MySQL and the translator are
`Kind`: what becomes of a text. The values of a block are named by their column
and row, so that the order in which they are written can be judged.

### StartUp

`pc[p]` is where `main` of process `p` is, `at[p]` the statement that
`EnsureSchema` executes, `http[p]` the goroutine of the HTTP server, which listens
on its own. `objects` are the tables and views in MySQL, `holder` says which
process listens on which port of which host.

| Action | Code |
|---|---|
| `Connect` | `pool.go:18-44`, `main.go:42-46` |
| `Exists`, `Missing`, `CheckFails`, `Exec`, `ExecRefused`, `Ensured` | `schema.go:13-96` |
| `Listen`, `PortTaken`, `Skip`, `StartHTTP` | `main.go:55-101` |
| `ListenHTTP`, `HTTPTaken`, `ShutdownHTTP` | `http_server.go:50-66` |
| `HTTPFails` | the listener fails for any other cause, at its start or later; the error is logged: `main.go:95-99` |
| `Signal`, `Close`, `CloseHTTP` | `main.go:105-124` |
| `Crash`, `Drop` | the process dies; another client of MySQL drops a table |

## 3. The runs

Passing runs:

| Run | Question | Instance and why it is enough |
|---|---|---|
| `wb_safety` | Are INSERTs delivered in order, once, without a loss inside the buffer? Does the buffer implement `DeliveryQueue`? Does Close drain it? Is every INSERT settled and every client answered? | `FairSpec`; two handlers, ticker, shutdown; batches of two; three INSERTs: one batch filled by a handler, and one left to the ticker or the shutdown, by either of the two paths; every fault |
| `pgtxn_pool` | Are connections conserved, and is everybody in the queue served? | `FairSpec`; two sessions and a write buffer on two connections with one idle slot: the queue and the idle list both overflow |
| `pgtxn_single` | Does a client that has the pool to itself and keeps to one spelling get its transactions? | every command, mixed or not, in the forms that are recognised and those that are not; two connections of which the pool reuses the last one; four INSERTs: before, inside, after a savepoint, after the transaction |
| `pgsess_described` | One RowDescription before rows? | three names, two portals, every class of text, the two that are exceptions among them; a MySQL that refuses descriptions of every kind and executions |
| `cat_pool` | No standstill, everybody answered, OIDs stable? | `FairSpec`; two nesting sessions and another one on three connections; two tables; one DDL statement, after which no OID is expected to be right |
| `native` | Does the server stay in step with the client's packets, execute only what arrived whole, and answer each query once, with packets that fit it? | `FairSpec`; two packets out of 14 that cover every type, every kind of text, a secondary text that replaces the first one or is empty, compression, blocks with and without columns; the connection cut at every byte; a result of two columns and two rows, whose transpose differs |
| `pg_wire` | Does the server read what was sent and send what a client can read, from the first byte on? | `FairSpec`; four ways to start (plain, SSL, a request to cancel, a length that is too small), two messages of 12 kinds, each of which may fail where the code may; NULL, empty and other values; the connection cut at every byte |
| `pg_values` | Does MySQL get the parameters that were bound, does the client get the rows that were stored? | two parameters in their order, exchanged, and one used twice; ten (so that `$1` is the beginning of `$10`); negative numbers, quotes, `$1` in a text, texts as long as a number, arrays, NULL and empty texts; no format, one for all, one for each, on both ways; integers of all widths and texts in two rows; each path, described before or not; up to a failure at each row. The four operators that name the exceptions (`InOrder`, `Lost`, `Misread`, `OtherFormat`) are as narrow as this instance allows: without any one of their cases TLC finds the property violated |
| `startup` | Is the schema there before anybody is served? Is every host served in the end? | `FairSpec`; two processes that compete on one host and a third on another, without PostgreSQL; a table, a view behind it and another table; three faults out of crash, signal, DROP, refused statement, failed check, HTTP listener, which is one for each process, or all for one |

Two packets or messages are enough for the byte streams because a connection
keeps no state between messages that the codecs read, except the position in the
stream: what the first one leaves is what the second one meets. Widths are
scaled down where TLC's numbers are too small: VarInts have three bytes
(`MaxVarInt`), of which the last holds two bits (`TopGroup` = 4), where the code
has ten and one: 16 bits instead of 64, the rest of the last byte being shifted
out. `NativeProofs` is about all values of the two.

Runs that TLC is expected to refute, each showing a disagreement of the code
with its documentation:

| Run | What TLC finds |
|---|---|
| `wb_shutdown_loss` | `NativeServer.Close` flushes, then closes the listener, and leaves connections alive: an INSERT appended afterwards is acknowledged and lost. No fault is needed. |
| `pgtxn_two_sessions` | With two clients, the second one's INSERT runs on the connection on which the first one's BEGIN has left a transaction open: it is acknowledged and not committed. In the same way COMMIT can run on another connection than its BEGIN. |
| `cat_deadlock` | As many `pg_class` queries as `max_open_conns`: each holds a connection and waits for a second one, for ever. |

Deadlock checking is off in the write buffer's runs, where the process may exit,
in `native` and `pg_wire`, where the connection ends, and in the three runs above.

Seen while modelling, and documented here because no run is needed to show it.

Write buffer and ClickHouse servers:

* a batch in which MySQL refuses one statement is rolled back as a whole: the
  acknowledged INSERTs of other clients in it are lost (`buffer.go:96-102`), and so
  are those behind the 30 second timeout (`buffer.go:80`): nothing is tried again.
  `NothingForgotten` and `EventuallySettled` count them as settled;
* a DELETE or a SELECT does not see the INSERTs that the same client sent before
  it and that are still in the buffer (`http_server.go:122`, `:601`);
* `WriteBuffer.Close` is never called: the ticker goroutine ends with the
  process;
* `skipBlock` reads two numbers of a Data packet and leaves the columns in the
  stream (`http_server.go:619-622`): `InStep` is stated for blocks without columns;
* `sendNativeResponse` writes its values row by row under a comment that says
  column by column (`http_server.go:725-730`): a system query with several columns
  and rows does not decode, so `OneAnswerEach` asks that of SELECTs only;
* a blank query is answered with an empty block and no end of the stream
  (`http_server.go:573-575`, `694-699`);
* the loop over the rows ignores `rows.Err()` (`http_server.go:787-797`): a result
  cut short looks complete;
* `SHOW TABLES FROM default` is compared in capitals with a text that has small
  letters (`http_server.go:648`) and never matches;
* any text that contains `VERSION()` or `DATABASE()` is a system query, an
  INSERT too (`http_server.go:627-646`).

Transactions and the extended protocol:

* the `START TRANSACTION` of a flush commits the open transaction of a client
  whose connection it gets (`buffer.go:84`, `server.go:869`);
* COMMIT and ROLLBACK with a semicolon are passed on, and `inTransaction` stays set:
  of `BEGIN`, `COMMIT;`, `BEGIN`, `INSERT`, `ROLLBACK` the second BEGIN is swallowed,
  the row is committed at once, and the ROLLBACK is acknowledged. The other way
  round, the COMMIT behind `BEGIN;` is swallowed and nothing is committed; `BEGIN;`
  within a transaction commits it; SAVEPOINT outside one sets `inTransaction`
  (`server.go:838-902`). `AckedCommitDurable` and `AckedRollbackGone` are about
  clients that do none of this (`mixed`);
* a BEGIN whose connection breaks leaves `inTransaction` set in the same way
  (`server.go:841-849`);
* a failed statement does not mark the transaction as failed, so COMMIT commits
  what succeeded before it (`server.go:1202`, `853-863`);
* after a failed SAVEPOINT or RELEASE a successful COMMIT leaves the mark: the
  status byte stays `E` (`server.go:857-863`);
* the comparison of 22 characters with `rollback to savepoint`, which has 21,
  never succeeds (`server.go:896`): the statement is translated and passed on
  like any other, which is why `PgTransactions` has it in `Passed`;
* a name that is parsed again keeps its entry in `describedPortals`
  (`server.go:299-325`): the new statement's rows arrive without RowDescription;
* when the Describe of a RETURNING fails, the client gets NoData, and then the row
  without RowDescription (`server.go:417-421`, `1528-1617`): the exception in
  `AnnouncedBeforeRows`;
* a query of `information_schema` that HandleCatalogQuery does not know is executed
  without its portal (`server.go:1121-1123`): its rows are described a second time
  behind a Describe, which `docs/LOGS.md:115-117` says was fixed. It is the exception
  in `NotAnnouncedTwice`;
* Describe of a portal always answers NoData (`server.go:428-431`), and a
  statement described after it was bound gets two RowDescriptions;
* after an error in a pipeline the messages up to Sync are executed
  (`server.go:217-236`), and a client gets a ReadyForQuery for the error and
  another one for its Sync; `ReadyForEach` counts both; a Bind that fails leaves the
  portal that had the name before, which the Execute behind it runs again;
* requests to cancel and to encrypt with GSSAPI start a session
  (`server.go:153-175`), nobody's password is asked, and Terminate does not end
  the connection, which waits for the client to do so;
* a parameterised statement whose Query failed is run again with Exec
  (`server.go:1326-1339`): if only the answer was lost, it takes effect twice;
* `pg_advisory_lock` is answered with true, and nothing is locked
  (`server.go:826-836`).

Values, each of which the instance of `pg_values` has and the properties name:

* `translateDollarParams` makes a question mark of each `$N` (`translator.go:474-477`),
  and the arguments go by their places (`server.go:1294-1339`): a statement with `$2`
  before `$1` gets its values exchanged, one that uses `$1` twice is refused
  (`InOrder`);
* numbers in binary reach MySQL as their bytes (`server.go:1298-1310`, `1716-1732`;
  `Lost`);
* an array in binary becomes as many nulls as it has elements, or an empty array:
  `pgBinaryArrayToJSON` looks for a null bitmap where PostgreSQL sends the first
  element (`server.go:1668-1685`), although `docs/LOGS.md:170-173` says it was
  converted. The first format code counts for all parameters (`server.go:1302`), so
  an array in text beside a binary parameter is taken for a binary one, and the
  other way round (`Lost`);
* in a catalog query negative numbers in binary come out positive, every parameter
  of 2, 4 or 8 bytes is a number if the first format is binary, a number in another
  format than the first one is misread, and a value that holds `$1` is substituted
  again (`server.go:1081-1106`; `Misread`);
* with parameters, the format codes of the Bind reach `SendDataRow` as they are: one
  code 1 stands for the first column only (`server.go:1364-1371`, `writer.go:104`),
  and with several the first one decides what RowDescription announces; the client
  reads texts as numbers in binary or the reverse, though `docs/LOGS.md`, item 14,
  says that was done. A Describe of the statement cannot know the formats, and a
  RETURNING or a catalog query sends texts to a client that asked for binary
  (`server.go:1611`, `1172-1192`), which may be the crash that `docs/LOGS.md` lists
  as unresolved. These are `OtherFormat`;
* the rows of a RETURNING that end with an error, or that cannot be read back, end
  in `INSERT 0 1` like all others (`server.go:1569-1617`).

Catalog and start-up:

* a table created or dropped between two catalog queries shifts the OIDs
  (`catalog.go:309-336`), and `handlePGIndex` numbers tables in the order of a
  query without ORDER BY (`catalog.go:434-447`);
* `colTypeCache` is a map that all connections read and write without a lock, and
  nothing is ever removed from it (`catalog.go:678-697`);
* when the HTTP listener fails, because the port is taken or for any other cause,
  the error is logged and the process says that it is ready and stays so
  (`main.go:95-103`); also a process that takes over the other two ports from one
  that is shutting down can stay without HTTP. `EventuallyServes` therefore asks
  HTTP only of processes whose listener has not failed;
* a view whose table another client drops meanwhile ends the process; it starts
  anew and creates the table again;
* EnsureSchema looks at names only: an old table that lacks a column stays.

## 4. Fairness

* `WriteBuffer`: weak fairness of ticks, answers and the steps of a flush:
  goroutines that can run do, and each call of MySQL ends because of the 30
  second context. Strong fairness of the three actions that lock: `sync.Mutex`
  switches to hand-over after a waiter has starved for a millisecond. Requests,
  signals and faults need never happen.
* `PgTransactions` and `Catalog`: strong fairness of getting a connection:
  `database/sql` serves its queue first come first served. Weak fairness of
  the statement: MySQL answers or the connection breaks, and the client reads.
  The pool's Exec and Query have no timeout of their own, so a MySQL that never
  answers is outside the assumption. In `Catalog` one strong fairness
  condition per session covers its handler: the steps that take a connection
  need it, and for the others, which nothing disables, it says the same as
  weak fairness.
* `NativeProtocol` and `PgConnection`: weak fairness of the connection's goroutine,
  which is the only one that takes bytes from the stream. A client that was
  denied SSL goes on; it need not send anything else, and an incomplete message
  waits for ever unless the connection ends.
* `StartUp`: weak fairness of `main` and of the HTTP goroutine of each process.
  That a process is started again after it has ended is assumed of whoever
  operates it (a container that restarts); faults are bounded by `MaxFaults`, so
  they end.

## 5. The proofs

`WriteBufferProofs`, for every set of handlers, buffer size and set of faults.
The properties are not inductive by themselves: that MySQL gets statements in
order needs to know which ones are still to come. `IInv` adds

* `LockInv`: `wb.mu` is held exactly while a flush runs, by the actor that runs
  it, and the buffer is empty meanwhile (nothing can be appended);
* `QueueInv`: batch followed by buffer are the last statements appended,
  without a gap;
* `FateInv`: with `Base` the last statement before them, all up to `Base` are
  settled and nothing later is in MySQL;
* `CloseInv`: the mark of the shutdown flush is below `Base` once it returned.

`AppliedInOrder`, `BufferBounded`, `NothingForgotten` and `CloseDrains` follow.

Its second part (`Implements`) shows that every step of `WriteBuffer` is a step or a
stutter of `DeliveryQueue`. The queue is what the flush that runs has not settled yet,
followed by the buffer; the single steps after a failed `Begin` apply or drop the
head, a commit applies the whole batch, a rollback or a crash drops it, and the
steps between leave the queue alone. It rests on `IInv`: without `LockInv` a handler could append between two statements of a batch.

`PgTransactionsProofs`, for every set of clients and every pool. `PoolInv` adds to
the types

* `HoldInv`: a connection is open exactly if it is idle or a handler or a flush
  has it; nobody else has it, and it is in the idle list once;
* `QueueInv`: the idle list is longer than `MaxIdle` by at most the number of
  handlers that wait.

`PoolConserved` follows. `CommitsKept` and `RollbacksGone` prove
`AckedCommitDurable` and `AckedRollbackGone` under `AloneOnPool`: one client, no
write buffer, and of the faults only statements that MySQL refuses. Then there is
at most one connection, on which every statement runs (`OneConn`); while the client
keeps to one spelling, the transaction it believes it is in is the one of that
connection (`Agree`), and what it was told follows (`Kept`); once it does not,
`mixed` stays and the properties ask for nothing (`MixedStays`). Each part of the
assumption is needed: `pgtxn_two_sessions` shows what a second client does, a write
buffer's `START TRANSACTION` commits implicitly, and a connection that breaks or
expires takes the transaction with it while `connState` goes on.

`PgSessionProofs`, for every set of names, portals and texts. `AnnouncedOnce`
assumes only that no statement is described after it was bound: whoever was
told has the described flag (`ToldIsRemembered`), which `RowDescription` obeys except
for the queries in `PassedOn`. `ToldBeforeRows` is the other direction and needs
clients that give each statement a new name and describe it before they bind it
(`FreshAndDescribed`), whatever MySQL refuses: then an entry of `describedPortals`
is about the statement that has the name now (`RememberedIsTold`,
`PortalsAreKnown`). A name that is parsed again shows that the assumption is needed (section 3).

`CatalogProofs`, for every number of sessions and connections. `NoStandstill`
assumes more connections than nesting sessions (`EnoughConnections`): if nobody
reads, only nesting sessions hold connections, one each, so one is left. The run
`cat_deadlock` shows that one connection fewer is not enough. `SameNumbers` is
about OIDs: as long as no DDL statement ran, every handler that numbers tables and
every client that knows numbers has the order of the first tables
(`NumberInv`), whatever order the sorting gives. `TypeCorrect` needs that there is
an order (`Ordered`: every finite set of numbers has one, by induction over its size,
the least number first) and that who runs a nested query has one left (`Types`).

`StartUpProofs`, for every number of processes, hosts, statements and faults.
`IInv` adds

* `PlaceInv`: what main does behind `EnsureSchema` begins only when all statements
  are done;
* `SchemaInv`: what a process has passed was created, by itself or by another, and
  `objects \cup dropped` never shrinks, so a crash or a second process takes nothing
  back;
* `HoldInv`: a port belongs to a process of its host that is behind `EnsureSchema`,
  the HTTP port to one whose HTTP server listens;
* `HTTPInv`: the HTTP goroutine runs only from its start to the end of main.

`SchemaFirst` and `TablesFirst` follow. `TablesFirst` rests on the order
of the statements in `EnsureSchema` (`StatementsAssumption`, each view behind its
tables), which is what the code has to get right there.

`StreamLemmas` and `PgConnectionProofs`, for every PostgreSQL client that speaks the protocol: any start-up, any messages, any number of them, sent ahead
or not, cut off at any byte.

* `StreamLemmas` has what the rest is built on. The library's induction theorems
  take an operator, which the provers cannot instantiate; `Least` (a set of
  numbers has a least member, from the well-foundedness of pairs) and `UpTo` take
  sets instead, and an induction is a set `Good` that has 0 and with i also i + 1.
  With it follow that recursive functions exist and are the only ones that
  satisfy their equation, and what `FlattenSeq` does to the next element and to
  the first one. `Cat(s, t)` is `s \o t` under a name, which keeps the provers
  from taking every sequence apart.
* `PgConnectionProofs` begins with the codec: `At(b, p, s)` says that `b` has `s` at position `p`. For each
  part of a body (text, long, list of shorts, of longs, of values) there is a
  lemma: where the encoding of a value is, the reader returns that value and the
  position behind it. `Parts` and `Frames` follow by induction over the parts
  and the messages: `Frames(Bytes(ms)) = ms`. The last lemmas are about the
  start-up: `Split` cuts the joined names and values at their zeros into just
  these texts (`SplitEntries`, by induction over the pairs and within each text
  over its letters), so `StartupParameters` is the map of the pairs that were
  written (`StartupRead`).
* Its second half is the connection: `RequestRead` says that each message of the protocol is
  read as it was meant. The inductive invariant has three parts. `Progress`: what
  was handled is a beginning of what was sent. `Arrived`: the bytes that wait are
  the unread rest of what was sent, or a beginning of it once the connection
  broke. `Told`: `out` is the denial of SSL, if it was asked for, and then whole
  messages, the start-up's first, with one ReadyForQuery for the start-up and each
  message in `Answered`, and one behind each error.

`ReadsWhatWasSent` follows from the first two, `AnswersInFrames` and
`ReadyForEach` from the third by reading `out` back with `Frames`. `StartsAsAsked`
needs `Arrived` at one step: what `Accept` takes is the start-up message whole, also
when it is the second header of a connection, and to replace the values of a map is
to write pairs behind the pairs it was made from (`Replacing`). The two sides
meet only in the bytes, so the proof is one that encoder and reader agree, and
that an error in one message does not shift the next.

`NativeProofs`, for every client of the native server: any packets in any order,
any number of them, cut off at any byte; any texts, tables of any size, any
`MaxVarInt` and `TopGroup`.

* The readers of the native server ignore errors, so each lemma about one has two
  halves. `Meets(b, p, s)` says that at `p` the stream `b` has `s` or ends within
  it, `Whole(b, p, s)` that it has all of it. A VarInt (`VarIntAt`), a text
  (`StringAt`) and a fixed number (`FixedAt`) that are there as a whole are read
  back, with the position behind them; of one that is cut off nothing is, and the
  end of the stream is where reading goes on. `FieldsRead` has both for a list of
  fields, by induction over the list: up to some field j everything is read back,
  behind it everything is missing. `QueryReaches` is the same for a query, whose
  last fields depend on the ones before: the text that is executed is the one
  that was meant, or, when the packet is cut off, nothing or one of its texts.
* `Aligned` is the inductive invariant: the bytes that wait (`wire`) are those of
  the packets that were not handled, behind the handshake until that is read,
  or a beginning of them once the connection broke. The step is `Advance`: a
  handler takes its packet up to the last byte, or the stream ended within it, and
  then nothing is left. It needs that blocks have no columns (`WithoutColumns`,
  the hypothesis of the properties), because `skipBlock` leaves columns in the
  stream. `InStep` follows at once (`StaysInStep`).
* `Executed` adds what was executed, as the fold of `OnlyWhatWasSent` over the
  packets handled so far. Only the last query can be cut off, because nothing is
  left behind it (`ExecutesWhatWasSent`).
* `Answered` adds what a client has read, as the fold of `OneAnswerEach` over the
  packets that were sent to it: each kind of answer is taken packet by packet
  (`AnswerRead`), and `ColumnsDecode` finds each value of a block at its own row
  and column (`AnswersEachOnce`).

The recursive functions of `ChProto`, `Asked` and `AnswersRead` are unrolled like
those of `PgWire`: one exists for every length (`UpTo`), two agree as far as both
go, so one more packet is one more step.

The theorems assume what the modules' `ASSUME`s say and the hypotheses named above
(`EnoughConnections`, `FreshAndDescribed`, `AloneOnPool`, written in the theorems),
and nothing else. The `ASSUME`s: the actors differ, the classes of texts are
disjoint, sets of sessions are finite; `ClientAssumption`: clients send
messages of the protocol whose counts and lengths fit its fields, and texts
without a zero; `ServerAssumption`: so does the server, with its fixed status
parameters and the fields of an error; `NativeAssumption`: a client of the native
server sends packets whose numbers and lengths fit a VarInt, and every table has
a column; `VarIntAssumption`: a VarInt may have two bytes or more, and the last one
holds one to seven bits of the number.

Only model-checked: liveness and ENABLED (`EventuallySettled`,
`EventuallyAnswered`, `EventuallyHandled`, `EventuallyServes`), which the prover
does not support; and the three invariants of `PgValues`, whose exceptions are
stated for the values of its instance. What they say beyond the reading of
`DataRow`, whose codec is proved, is the rewriting of a text and the choice of
formats, for which the instance was chosen to have the cases that matter.

## 6. What is left out

* Formatting and logging: no property is about them. Values only appear in
  `PgValues` and, as marks, in `NativeProtocol`.
* Floating-point numbers, booleans, dates and times in `PgValues`; numbers beyond
  32 bits, which TLC does not have.
* The guessing of parameter types by Describe (`server.go:434-545`), and with it
  `colTypeCache`: a heuristic over the text of the statement.
* The flush's rows in `PgTransactions`, whose subject is the client's rows; the
  effect of statements in `PgSession`, whose subject is the answers.
* Direct writes, SELECTs and output formats of the ClickHouse HTTP server: each is
  one call to MySQL and one answer.
* The shape of tables in `StartUp`: whether a table that exists has the columns
  the program needs.
* SQL translation: chains of regular expressions over text, without state. Every
  statement about them would repeat the expressions.
* Configuration and translation rules: read once, before anything runs beside it.

## 7. Plan

Done: write buffer, transactions, extended protocol, nested catalog queries, both
wire protocols, values, start-up; proofs for all of them but the values. What may
follow:

1. `Substituted` for texts and values without `$`, by induction over both.
2. `colTypeCache` and `pg_index` as extensions of `Catalog`.
3. Placeholders (`translateDollarParams`, `countParams`) as operators over
   sequences of tokens.
