-------------------------------- MODULE Tls --------------------------------
(***************************************************************************)
(* A TLS connection: transport.mbt with openssl.mbt (and the BIOs it gives *)
(* OpenSSL) or schannel.mbt, made by client_from_pair or server_from_pair, *)
(* used by a reader and a writer, shut down and closed.                    *)
(*                                                                         *)
(* Coroutines are cooperative: one runs until it suspends or returns.  pc: *)
(*   "idle"     not in an operation                                        *)
(*   "call"     calls the TLS library   "shut"     calls Tls::shutdown     *)
(*   "flush"    calls flush_write       "fill"     calls read_more         *)
(*   "wlock"    waits for write_lock    "rlock"    waits for read_lock     *)
(*   "flushing" has write_lock          "filling"  has read_lock           *)
(*   "writing"  in writer.write         "reading"  in reader._direct_read  *)
(*   "notify"   calls the library to shut down         "raise"  raises     *)
(*   "next"     flush_write returned    "verify"   connect returned        *)
(*   "renew"    renegotiates                                               *)
(* and next is where flush_write or read_more returns to.                  *)
(*                                                                         *)
(* Bytes are counted in records: what the peer sends is a sequence of      *)
(* "good" or "bad" (its handshake, with a certificate that the trusted     *)
(* roots accept or not), "data", "key" (a record that must be answered),   *)
(* "close" and "eof", the end of the transport; what is sent is the kind   *)
(* of each record.                                                         *)
(***************************************************************************)
EXTENDS TlsContext, FiniteSets

CONSTANTS
    Configs,      \* subset of AllConfigs
    Capacity,     \* of write_buf
    MaxRecords,   \* bound: what the peer sends
    MaxWrites,    \* bound: calls of write
    MaxFaults,    \* bound: cancellations and failures of the transport
    None

AllConfigs ==
    [backend : {"openssl", "schannel"}, trust : {"none", "system", "custom"}, client : {TRUE}]
    \cup [backend : {"openssl", "schannel"}, trust : {"none"}, client : {FALSE}]

\* Without those that differ from another only in what their handshake accepts.
CheckedConfigs ==
    {k \in AllConfigs : k.client => <<k.backend, k.trust>> \notin {<<"openssl", "system">>, <<"schannel", "none">>}}

OpensslConfigs == {k \in AllConfigs : k.backend = "openssl"}

Coros == {"reader", "writer"}

ASSUME TlsAssumption ==
    /\ Configs \subseteq AllConfigs /\ Configs # {}
    /\ Capacity \in Nat \ {0} /\ {MaxRecords, MaxWrites, MaxFaults} \subseteq Nat
    /\ None \notin Coros

Inbound  == {"good", "bad", "data", "key", "close", "eof", "junk"}
Outbound == {"hello", "app", "reply", "notify", "junk"}

VARIABLES
    config,    \* never changes
    \* the connection
    conn,      \* "new", "handshake", "open", "failed", "unread" or "closed"
    res,       \* the ledger of TlsContext
    cstate,    \* state of struct Context
    shutdown,  \* the field
    state,     \* of the transport
    rbuf,      \* records in read_buf
    wbuf,      \* records in write_buf
    lock,      \* read_lock and write_lock: who has it and who waits for it
    \* the TLS library
    hs,        \* "start", "sent" or "done"
    owed,      \* a record that did not fit, and the coroutine to call again for it
    \* the coroutines
    op, pc, next, turn,
    broken,    \* an operation has raised
    \* the transport
    flight,    \* records writer.write was given and has sent
    incoming,  \* sent by the peer and not read
    \* bounds and history
    peer,      \* everything the peer has sent
    writes, faults,
    got,       \* data records returned by reads
    eof,       \* a read has returned 0
    notified,  \* close_notify has gone to the transport
    returned,  \* shutdown has returned
    dropped    \* Schannel has taken input that no read has seen

tls       == <<config, conn, res, cstate, shutdown>>
buffers   == <<state, rbuf, wbuf, lock>>
library   == <<hs, owed>>
coros     == <<op, pc, next, turn, broken>>
transport == <<flight, incoming, peer>>
history   == <<writes, faults, got, eof, notified, returned, dropped>>
vars == <<tls, buffers, library, coros, transport, history>>

Places == {"idle", "call", "shut", "flush", "fill", "wlock", "rlock", "flushing", "filling",
           "writing", "reading", "next", "verify", "renew", "notify", "raise"}
Parked == {"idle", "wlock", "rlock", "writing", "reading"}

TypeOK ==
    /\ config \in Configs
    /\ conn \in {"new", "handshake", "open", "failed", "unread", "closed"}
    /\ res \in [Resources -> {"none", "live", "bad"}]
    /\ cstate \in {"Uninitialized", "Handle", "Context"}
    /\ shutdown \in BOOLEAN /\ state \in {"Normal", "Closed", "Error"}
    /\ rbuf \in Seq(Inbound \ {"eof"}) /\ wbuf \in Seq(Outbound) /\ Len(wbuf) <= Capacity
    /\ lock \in [{"read", "write"} -> [by : Coros \cup {None}, queue : Seq(Coros)]]
    /\ hs \in {"start", "sent", "done"}
    /\ owed \in [kind : Outbound, by : Coros \cup {None}] \cup {None}
    /\ op \in [Coros -> {"idle", "connect", "read", "write", "shutdown"}]
    /\ pc \in [Coros -> Places]
    /\ next \in [Coros -> {"call", "fill", "refill", "renew", "notify", "return", "eof", "shut"}]
    /\ turn \in Coros \cup {None, "aborted"}
    /\ broken \in BOOLEAN
    /\ flight \in [upto : 0..Capacity, sent : 0..Capacity]
    /\ incoming \in Seq(Inbound) /\ peer \in Seq(Inbound) /\ Len(peer) <= MaxRecords
    /\ writes \in 0..MaxWrites /\ faults \in 0..MaxFaults
    /\ got \in Nat /\ {eof, notified, returned, dropped} \subseteq BOOLEAN

NoFlight == [upto |-> 0, sent |-> 0]

Init ==
    /\ config \in Configs
    /\ conn = "new" /\ res = NoResources /\ cstate = "Uninitialized" /\ shutdown = FALSE
    /\ state = "Normal" /\ rbuf = <<>> /\ wbuf = <<>>
    /\ lock = [l \in {"read", "write"} |-> [by |-> None, queue |-> <<>>]]
    /\ hs = "start" /\ owed = None
    /\ op = [c \in Coros |-> "idle"] /\ pc = [c \in Coros |-> "idle"]
    /\ next = [c \in Coros |-> "call"] /\ turn = None /\ broken = FALSE
    /\ flight = NoFlight /\ incoming = <<>> /\ peer = <<>>
    /\ writes = 0 /\ faults = 0 /\ got = 0
    /\ eof = FALSE /\ notified = FALSE /\ returned = FALSE /\ dropped = FALSE

openssl == config.backend = "openssl"

-----------------------------------------------------------------------------
(* Coroutines, the scheduler and the semaphores. *)

Runs(c, p) == turn \in {None, c} /\ pc[c] = p

Goes(c, p) ==
    /\ pc' = [pc EXCEPT ![c] = p]
    /\ turn' = IF p \in Parked THEN None ELSE c
    /\ UNCHANGED <<op, broken>>

\* acquire: at once, or in the order of arrival.
Acquire(c, l, has, waits) ==
    IF lock[l].by = None
    THEN lock' = [lock EXCEPT ![l].by = c] /\ Goes(c, has)
    ELSE lock' = [lock EXCEPT ![l].queue = Append(@, c)] /\ Goes(c, waits)

\* release hands the lock to the first waiter and c goes on at p.
Release(c, l, has, p) ==
    LET queue == lock[l].queue
        heir  == IF queue = <<>> THEN None ELSE Head(queue)
    IN /\ lock' = [lock EXCEPT ![l] = [by    |-> heir,
                                       queue |-> IF queue = <<>> THEN queue ELSE Tail(queue)]]
       /\ pc' = [d \in Coros |-> IF d = c THEN p ELSE IF d = heir THEN has ELSE pc[d]]
       /\ turn' = IF p \in Parked THEN None ELSE c
       /\ UNCHANGED <<op, broken>>

Ends(c) ==
    /\ op' = [op EXCEPT ![c] = "idle"]
    /\ pc' = [pc EXCEPT ![c] = "idle"] /\ turn' = None

\* The library still has to write a record and wants to be called again for it.
Owes(c)      == owed # None /\ owed.by = c
OtherOwes(c) == owed # None /\ owed.by # c

FreeAll(r) == Ledger(r, IF openssl THEN ssl_free(r) ELSE schannel_free(r, cstate))

\* An operation raises.  In a constructor that closes the connection.  The library
\* keeps a record it still has to send, but nobody will call it again for that.
Raises(c) ==
    /\ Runs(c, "raise")
    /\ Ends(c) /\ broken' = TRUE
    /\ IF op[c] = "connect"
       THEN conn' = "failed" /\ res' = FreeAll(res) /\ state' = (IF state = "Normal" THEN "Closed" ELSE state)
       ELSE UNCHANGED <<conn, res, state>>
    /\ owed' = IF Owes(c) THEN [owed EXCEPT !.by = None] ELSE owed
    /\ UNCHANGED <<config, cstate, shutdown, rbuf, wbuf, lock, hs, next, transport, history>>

-----------------------------------------------------------------------------
(* transport.mbt *)

\* flush_write, in three steps: acquire, hand the buffer to the writer, empty it.
FlushAcquire(c) ==
    /\ Runs(c, "flush")
    /\ Acquire(c, "write", "flushing", "wlock")
    /\ UNCHANGED <<tls, state, rbuf, wbuf, library, next, transport, history>>

FlushStart(c) ==
    /\ Runs(c, "flushing")
    /\ IF wbuf = <<>> THEN Release(c, "write", "flushing", "next") /\ UNCHANGED flight
       ELSE IF state # "Normal" THEN Release(c, "write", "flushing", "raise") /\ UNCHANGED flight
       ELSE /\ flight' = [upto |-> Len(wbuf), sent |-> 0]
            /\ Goes(c, "writing") /\ UNCHANGED lock
    /\ UNCHANGED <<tls, state, rbuf, wbuf, library, next, incoming, peer, history>>

\* The transport takes a record out of write_buf.
Transmit(c) ==
    /\ pc[c] = "writing" /\ flight.sent < flight.upto
    /\ flight' = [flight EXCEPT !.sent = @ + 1]
    /\ notified' = (notified \/ wbuf[flight.sent + 1] = "notify")
    /\ UNCHANGED <<tls, buffers, library, coros, incoming, peer, writes, faults, got, eof, returned, dropped>>

\* What was appended to write_buf since FlushStart is dropped with the rest.
FlushDone(c) ==
    /\ Runs(c, "writing") /\ flight.sent = flight.upto
    /\ wbuf' = <<>> /\ flight' = NoFlight
    /\ Release(c, "write", "flushing", "next")
    /\ UNCHANGED <<tls, state, rbuf, library, next, incoming, peer, history>>

\* writer.write raises; write_buf keeps everything.
FlushFails(c) ==
    /\ flight' = NoFlight
    /\ Release(c, "write", "flushing", "raise")
    /\ UNCHANGED <<tls, state, rbuf, wbuf, library, next, incoming, peer>>

\* read_more, in three steps as well, and back to the place that called it.
ReadAcquire(c) ==
    /\ Runs(c, "fill")
    /\ Acquire(c, "read", "filling", "rlock")
    /\ UNCHANGED <<tls, state, rbuf, wbuf, library, next, transport, history>>

ReadStart(c) ==
    /\ Runs(c, "filling")
    /\ IF state # "Normal" THEN Release(c, "read", "filling", "raise")
       ELSE Goes(c, "reading") /\ UNCHANGED lock
    /\ UNCHANGED <<tls, state, rbuf, wbuf, library, next, transport, history>>

ReadDone(c) ==
    /\ Runs(c, "reading") /\ incoming # <<>>
    /\ IF Head(incoming) = "eof"
       THEN state' = "Closed" /\ UNCHANGED <<rbuf, incoming>>
       ELSE \E n \in 1..Len(incoming) :
              /\ incoming[n] # "eof"
              /\ rbuf' = rbuf \o SubSeq(incoming, 1, n)
              /\ incoming' = SubSeq(incoming, n + 1, Len(incoming))
              /\ UNCHANGED state
    /\ Release(c, "read", "filling", next[c])
    /\ UNCHANGED <<tls, wbuf, library, next, flight, peer, history>>

\* reader._direct_read raises: so will everything from now on.
ReadFails(c) ==
    /\ state' = "Error"
    /\ Release(c, "read", "filling", "raise")
    /\ UNCHANGED <<tls, rbuf, wbuf, library, next, transport>>

TransportFails(c) ==
    /\ faults < MaxFaults /\ faults' = faults + 1
    /\ \/ Runs(c, "writing") /\ FlushFails(c)
       \/ Runs(c, "reading") /\ ReadFails(c)
    /\ UNCHANGED <<writes, got, eof, notified, returned, dropped>>

\* Mutant of CancelWaiter: the waiter stays in the queue.
CancelWaiterQueued(c, l) ==
    /\ Goes(c, "raise") /\ UNCHANGED lock
    /\ UNCHANGED <<tls, state, rbuf, wbuf, library, next, transport>>

\* A waiter that is cancelled is passed over by release.
CancelWaiter(c, l) ==
    /\ \E i \in 1..Len(lock[l].queue) :
         /\ lock[l].queue[i] = c
         /\ lock' = [lock EXCEPT ![l].queue = SubSeq(@, 1, i - 1) \o SubSeq(@, i + 1, Len(@))]
    /\ Goes(c, "raise")
    /\ UNCHANGED <<tls, state, rbuf, wbuf, library, next, transport>>

\* A timeout cancels a suspended operation.  acquire swallows the cancellation of a
\* waiter that has been given the lock.
Cancel(c) ==
    /\ faults < MaxFaults /\ faults' = faults + 1
    /\ \/ Runs(c, "wlock") /\ CancelWaiter(c, "write")
       \/ Runs(c, "rlock") /\ CancelWaiter(c, "read")
       \/ Runs(c, "writing") /\ FlushFails(c)
       \/ Runs(c, "reading") /\ ReadFails(c)
    /\ UNCHANGED <<writes, got, eof, notified, returned, dropped>>

-----------------------------------------------------------------------------
(* The constructors, up to the handshake. *)

Refuse(r) ==
    /\ conn' = "failed" /\ res' = r
    /\ UNCHANGED <<cstate, coros>>

Handshake(r) ==
    /\ conn' = "handshake" /\ res' = r
    /\ op' = [op EXCEPT !["writer"] = "connect"]
    /\ pc' = [pc EXCEPT !["writer"] = "call"] /\ turn' = "writer"
    /\ UNCHANGED <<next, broken>>

Constructs ==
    /\ conn = "new" /\ turn = None
    /\ UNCHANGED <<config, shutdown, buffers, library, transport, history>>

Nothing == Succeeds({}, {})
custom  == config.trust = "custom"

\* A context of its own only for a custom root; then set_host and set_sni, or the
\* files of a server, may be refused.
openssl_from_pair ==
    /\ Constructs /\ openssl
    /\ \E ctx \in IF custom THEN client_ctx ELSE {Nothing},
          root \in IF custom THEN ssl_ctx_add_root_certificate ELSE {Nothing},
          accepted \in BOOLEAN :
         LET r1 == Ledger(res, ctx)
             r2 == Ledger(r1, root)
             r3 == Ledger(r2, ssl_new)
         IN IF ~ctx.ok THEN Refuse(r1)
            ELSE IF ~root.ok THEN Refuse(Ledger(r2, Succeeds({}, {"ctx"})))
            ELSE IF ~accepted THEN Refuse(FreeAll(r3))
            ELSE Handshake(r3) /\ UNCHANGED cstate

schannel_client_from_pair ==
    /\ Constructs /\ ~openssl /\ config.client
    /\ LET r0 == Ledger(res, schannel_new)
       IN \E init \in init_client :
            LET r1 == Ledger(r0, init)
            IN IF ~init.ok THEN Refuse(Ledger(r1, schannel_free(r1, "Uninitialized")))
               ELSE \E root \in IF custom THEN schannel_add_root_certificate(r1) ELSE {Nothing} :
                      LET r2 == Ledger(r1, root)
                      IN IF root.ok THEN Handshake(r2) /\ cstate' = "Handle"
                         ELSE Refuse(Ledger(r2, schannel_free(r2, "Handle")))

\* The context is lost if the file cannot be read.
schannel_server_from_pair ==
    /\ Constructs /\ ~openssl /\ ~config.client
    /\ LET r0 == Ledger(res, schannel_new)
       IN \/ conn' = "unread" /\ res' = r0 /\ UNCHANGED <<cstate, coros>>
          \/ \E init \in init_server :
               LET r1 == Ledger(r0, init)
               IN IF init.ok THEN Handshake(r1) /\ cstate' = "Handle"
                  ELSE Refuse(Ledger(r1, schannel_free(r1, "Uninitialized")))

-----------------------------------------------------------------------------
(* The operations of the two users of an open connection. *)

Begins(c, o, p) ==
    /\ conn = "open" /\ turn = None /\ op[c] = "idle"
    /\ op' = [op EXCEPT ![c] = o] /\ pc' = [pc EXCEPT ![c] = p] /\ turn' = c
    /\ UNCHANGED <<tls, buffers, library, next, broken, transport, faults, got, eof, notified, returned, dropped>>

Read == ~eof /\ Begins("reader", "read", "call") /\ UNCHANGED writes

Write == writes < MaxWrites /\ writes' = writes + 1 /\ Begins("writer", "write", "call")

\* "MUST NOT be called if the TLS connection fail with other error".
Shutdown == ~broken /\ ~shutdown /\ Begins("writer", "shutdown", "shut") /\ UNCHANGED writes

\* When nobody uses it any more: close frees what the operations work with.
close ==
    /\ conn = "open" /\ op = [c \in Coros |-> "idle"]
    /\ conn' = "closed" /\ res' = FreeAll(res)
    /\ state' = IF state = "Normal" THEN "Closed" ELSE state
    /\ UNCHANGED <<config, cstate, shutdown, rbuf, wbuf, lock, library, coros, transport, history>>

FlushThen(c, p) == Goes(c, "flush") /\ next' = [next EXCEPT ![c] = p]
FillThen(c, p)  == Goes(c, "fill") /\ next' = [next EXCEPT ![c] = p]
GoesOn(c, p)    == Goes(c, p) /\ UNCHANGED next

\* flush_write has returned to the operation that called it.
Continue(c) ==
    /\ Runs(c, "next")
    /\ \/ /\ next[c] \in {"call", "renew", "notify"}
          /\ GoesOn(c, next[c]) /\ UNCHANGED <<conn, got, eof, returned>>
       \/ /\ next[c] \in {"fill", "refill"}
          /\ FillThen(c, IF next[c] = "fill" THEN "call" ELSE "notify")
          /\ UNCHANGED <<conn, got, eof, returned>>
       \/ /\ next[c] = "return" /\ op[c] = "connect" /\ ~openssl /\ custom
          /\ GoesOn(c, "verify") /\ UNCHANGED <<conn, got, eof, returned>>
       \/ /\ next[c] = "return" /\ ~(op[c] = "connect" /\ ~openssl /\ custom)
          /\ Ends(c)
          /\ conn' = IF op[c] = "connect" THEN "open" ELSE conn
          /\ got' = IF op[c] = "read" THEN got + 1 ELSE got
          /\ UNCHANGED <<next, broken, eof, returned>>
       \/ /\ next[c] = "eof" /\ Ends(c) /\ eof' = TRUE
          /\ UNCHANGED <<conn, next, broken, got, returned>>
       \/ /\ next[c] = "shut" /\ returned' = TRUE
          /\ IF op[c] = "read"
             THEN IF openssl THEN FlushThen(c, "eof") /\ UNCHANGED eof
                  ELSE Ends(c) /\ eof' = TRUE /\ UNCHANGED <<next, broken>>
             ELSE Ends(c) /\ UNCHANGED <<next, broken, eof>>
          /\ UNCHANGED <<conn, got>>
    /\ UNCHANGED <<config, res, cstate, shutdown, buffers, library, transport, writes, faults, notified, dropped>>

\* Tls::shutdown, called by the writer or by a read that met the peer's closure.
ShutdownStart(c) ==
    /\ Runs(c, "shut")
    /\ shutdown' = TRUE
    /\ IF ~shutdown /\ state = "Normal" THEN GoesOn(c, "notify") /\ UNCHANGED eof
       ELSE IF ~shutdown /\ (state = "Error" \/ openssl) THEN GoesOn(c, "raise") /\ UNCHANGED eof
       ELSE IF op[c] = "read" /\ openssl THEN FlushThen(c, "eof") /\ UNCHANGED eof
       ELSE Ends(c) /\ eof' = (eof \/ op[c] = "read") /\ UNCHANGED <<next, broken>>
    /\ UNCHANGED <<config, conn, res, cstate, buffers, library, transport, writes, faults, got, notified, returned, dropped>>

-----------------------------------------------------------------------------
(* OpenSSL and its BIOs. *)

\* Mutant of BioWrite: there is always room.
BioWriteUnbounded(c, kind, done) ==
    IF state # "Normal" \/ OtherOwes(c)
    THEN GoesOn(c, "raise") /\ UNCHANGED <<wbuf, owed>>
    ELSE wbuf' = Append(wbuf, kind) /\ owed' = None /\ done

\* The library writes a record through BIO::write and handle_error looks at the
\* outcome: done, SSL_ERROR_WANT_WRITE (call again for the same record), or an error,
\* also if another call's record is still to be written.
BioWrite(c, kind, done) ==
    IF state # "Normal" \/ OtherOwes(c)
    THEN GoesOn(c, "raise") /\ UNCHANGED <<wbuf, owed>>
    ELSE IF Len(wbuf) < Capacity
    THEN wbuf' = Append(wbuf, kind) /\ owed' = None /\ done
    ELSE /\ owed' = [kind |-> kind, by |-> c] /\ UNCHANGED wbuf
         /\ FlushThen(c, pc[c])

\* Mutant of WantRead: it flushes, but does not read.
WantReadFlushes(c, p) == state = "Normal" /\ rbuf = <<>> /\ FlushThen(c, pc[c])

\* SSL_ERROR_WANT_READ from an empty BIO::read: flush, then read more ("fill"), or
\* the same in the loop of Tls::shutdown ("refill").
WantRead(c, p) == state = "Normal" /\ rbuf = <<>> /\ FlushThen(c, p)

BioRead(kinds) == state = "Normal" /\ rbuf # <<>> /\ Head(rbuf) \in kinds

Accepted == {"good"} \cup (IF config.trust = "none" THEN {"bad"} ELSE {})

ssl_connect(c) ==
    /\ Runs(c, "call") /\ openssl /\ op[c] = "connect"
    /\ \/ /\ config.client /\ hs = "start" /\ hs' = "sent"
          /\ BioWrite(c, "hello", GoesOn(c, "call")) /\ UNCHANGED rbuf
       \/ /\ (hs = "sent" \/ ~config.client)
          /\ \/ /\ BioRead(Accepted) /\ rbuf' = Tail(rbuf) /\ hs' = "done"
                /\ BioWrite(c, "hello", FlushThen(c, "return"))
             \/ /\ WantRead(c, "fill") /\ UNCHANGED <<rbuf, wbuf, hs, owed>>
             \/ /\ ~BioRead(Accepted) /\ ~(state = "Normal" /\ rbuf = <<>>)
                /\ GoesOn(c, "raise") /\ UNCHANGED <<rbuf, wbuf, hs, owed>>
    /\ UNCHANGED <<tls, state, lock, transport, history>>

ssl_read(c) ==
    /\ Runs(c, "call") /\ openssl /\ op[c] = "read"
    /\ \/ /\ Owes(c)
          /\ BioWrite(c, owed.kind, GoesOn(c, "call")) /\ UNCHANGED rbuf
       \/ /\ ~Owes(c)
          /\ \/ /\ WantRead(c, "fill") /\ UNCHANGED <<rbuf, wbuf, owed>>
             \/ /\ BioRead({"data"}) /\ rbuf' = Tail(rbuf)
                /\ FlushThen(c, "return") /\ UNCHANGED <<wbuf, owed>>
             \/ /\ BioRead({"key"}) /\ rbuf' = Tail(rbuf)
                /\ BioWrite(c, "reply", GoesOn(c, "call"))
             \/ /\ BioRead({"close"}) /\ rbuf' = Tail(rbuf)
                /\ GoesOn(c, "shut") /\ UNCHANGED <<wbuf, owed>>
             \/ /\ state = "Closed" /\ rbuf = <<>>
                /\ FlushThen(c, "eof") /\ UNCHANGED <<rbuf, wbuf, owed>>
             \/ /\ state = "Error" \/ (state = "Closed" /\ rbuf # <<>>)
                /\ GoesOn(c, "raise") /\ UNCHANGED <<rbuf, wbuf, owed>>
    /\ UNCHANGED <<tls, state, lock, hs, transport, history>>

\* SSL_write fails once close_notify has been queued, and may want to read first, as
\* SSL_shutdown may: the handshake messages of the peer are met by either.
ssl_write(c) ==
    /\ Runs(c, "call") /\ openssl /\ op[c] = "write"
    /\ \/ WantRead(c, "fill") /\ UNCHANGED <<wbuf, owed>>
       \/ shutdown /\ GoesOn(c, "raise") /\ UNCHANGED <<wbuf, owed>>
       \/ ~shutdown /\ BioWrite(c, "app", FlushThen(c, "return"))
    /\ UNCHANGED <<tls, state, rbuf, lock, hs, transport, history>>

ssl_shutdown(c) ==
    /\ Runs(c, "notify") /\ openssl
    /\ \/ WantRead(c, "refill") /\ UNCHANGED <<wbuf, owed>>
       \/ BioWrite(c, "notify", FlushThen(c, "shut"))
    /\ UNCHANGED <<tls, state, rbuf, lock, hs, transport, history>>

-----------------------------------------------------------------------------
(* Schannel. *)

\* The output of a handshake call.  connect passes write_buf.start as its offset, so
\* it overwrites what is there; accept passes start + len.
Token(c, kind, done) ==
    IF Len(wbuf) = Capacity THEN GoesOn(c, "raise") /\ UNCHANGED wbuf
    ELSE /\ wbuf' = IF config.client /\ wbuf # <<>>
                    THEN <<kind>> \o Append(Tail(wbuf), "junk")
                    ELSE Append(wbuf, kind)
         /\ done

\* The first call makes the security context.  It reads the uninitialised input[1],
\* and what it finds there may count as unread input.
ConnectFirst(c) ==
    /\ config.client /\ hs = "start"
    /\ \/ /\ GoesOn(c, "raise") /\ UNCHANGED <<res, cstate, rbuf, wbuf, hs>>
       \/ /\ rbuf' \in {rbuf, Append(rbuf, "junk")}
          /\ res' = Ledger(res, Succeeds({"sec"}, {})) /\ cstate' = "Context" /\ hs' = "sent"
          /\ Token(c, "hello", FlushThen(c, "call"))

\* Mutant of AcceptIncomplete: the context is taken to be there.
AcceptIncompleteCounted(c) ==
    /\ ~config.client /\ rbuf = <<>> /\ FillThen(c, "call")
    /\ cstate' = "Context" /\ UNCHANGED <<res, rbuf, wbuf, hs>>

\* Without a whole ClientHello there is no context yet.
AcceptIncomplete(c) ==
    /\ ~config.client /\ rbuf = <<>> /\ FillThen(c, "call")
    /\ UNCHANGED <<res, cstate, rbuf, wbuf, hs>>

\* The rounds of the handshake of a server are one record of the peer.
AcceptFirst(c) ==
    /\ ~config.client /\ rbuf # <<>>
    /\ IF Head(rbuf) = "good"
       THEN /\ res' = Ledger(res, Succeeds({"sec"}, {})) /\ cstate' = "Context"
            /\ rbuf' = Tail(rbuf) /\ hs' = "done"
            /\ Token(c, "hello", FlushThen(c, "return"))
       ELSE GoesOn(c, "raise") /\ UNCHANGED <<res, cstate, rbuf, wbuf, hs>>

\* Schannel verifies the certificate itself only for the system's roots.  A closure
\* (Eof) ends the loop as if the handshake had completed.
ConnectMore(c) ==
    /\ config.client /\ hs = "sent" /\ UNCHANGED <<res, cstate>>
    /\ \/ rbuf = <<>> /\ FillThen(c, "call") /\ UNCHANGED <<rbuf, wbuf, hs>>
       \/ /\ rbuf # <<>>
          /\ Head(rbuf) \in {"good"} \cup (IF config.trust = "system" THEN {} ELSE {"bad"})
          /\ rbuf' = Tail(rbuf) /\ hs' = "done"
          /\ Token(c, "hello", FlushThen(c, "return"))
       \/ /\ rbuf # <<>> /\ Head(rbuf) = "close"
          /\ rbuf' = Tail(rbuf) /\ FlushThen(c, "return") /\ UNCHANGED <<wbuf, hs>>
       \/ /\ rbuf # <<>>
          /\ Head(rbuf) \in {"junk"} \cup (IF config.trust = "system" THEN {"bad"} ELSE {})
          /\ GoesOn(c, "raise") /\ UNCHANGED <<rbuf, wbuf, hs>>

schannel_connect(c) ==
    /\ Runs(c, "call") /\ ~openssl /\ op[c] = "connect"
    /\ ConnectFirst(c) \/ ConnectMore(c) \/ AcceptIncomplete(c) \/ AcceptFirst(c)
    /\ UNCHANGED <<config, conn, shutdown, state, lock, owed, transport, history>>

\* connect has returned to client_from_pair with a custom root.
schannel_verify(c) ==
    /\ Runs(c, "verify")
    /\ \E call \in verify_peer_certificate(res, hs = "done" /\ peer[1] = "good") :
         LET r == Ledger(res, call)
         IN IF call.ok THEN conn' = "open" /\ res' = r /\ UNCHANGED <<state, broken>>
            ELSE /\ conn' = "failed" /\ res' = FreeAll(r) /\ broken' = TRUE
                 /\ state' = IF state = "Normal" THEN "Closed" ELSE state
    /\ Ends(c)
    /\ UNCHANGED <<config, cstate, shutdown, rbuf, wbuf, lock, library, next, transport, history>>

\* Mutant of AtEnd: an empty buffer alone is taken for the end.
AtEndUnchecked == rbuf = <<>>

AtEnd == rbuf = <<>> /\ state = "Closed"

\* A record is returned by one read.
schannel_read(c) ==
    /\ Runs(c, "call") /\ ~openssl /\ op[c] = "read"
    /\ \/ AtEnd /\ Ends(c) /\ eof' = TRUE /\ UNCHANGED <<rbuf, next, broken, got>>
       \/ rbuf = <<>> /\ ~AtEnd /\ FillThen(c, "call") /\ UNCHANGED <<rbuf, got, eof>>
       \/ (rbuf # <<>> \/ hs # "done") /\ GoesOn(c, "raise") /\ UNCHANGED <<rbuf, got, eof>>
       \/ /\ rbuf # <<>> /\ Head(rbuf) = "data" /\ rbuf' = Tail(rbuf)
          /\ Ends(c) /\ got' = got + 1 /\ UNCHANGED <<next, broken, eof>>
       \/ /\ rbuf # <<>> /\ Head(rbuf) = "key"
          /\ GoesOn(c, "renew") /\ UNCHANGED <<rbuf, got, eof>>
       \/ /\ rbuf # <<>> /\ Head(rbuf) = "close"
          /\ GoesOn(c, "shut") /\ UNCHANGED <<rbuf, got, eof>>
    /\ UNCHANGED <<tls, state, wbuf, lock, library, transport, writes, faults, notified, returned, dropped>>

\* connect and accept take all of read_buf but what Schannel reports as
\* SECBUFFER_EXTRA, which it need not do with input that it has not looked at.
Drops == rbuf' \in {rbuf, <<>>} /\ dropped' = (dropped \/ rbuf' # rbuf)

\* Schannel has asked for a renegotiation: the read calls connect or accept until they
\* have answered the record.
schannel_renew(c) ==
    /\ Runs(c, "renew")
    /\ \/ rbuf = <<>> /\ FillThen(c, "renew") /\ UNCHANGED <<rbuf, wbuf, dropped>>
       \/ /\ rbuf # <<>> /\ Head(rbuf) = "key" /\ rbuf' = Tail(rbuf)
          /\ \E p \in {"call", "renew"} : Token(c, "reply", FlushThen(c, p))
          /\ UNCHANGED dropped
       \/ /\ rbuf # <<>> /\ Head(rbuf) = "close" /\ rbuf' = Tail(rbuf)
          /\ IF config.client THEN Token(c, "reply", FlushThen(c, "call"))
             ELSE FlushThen(c, "call") /\ UNCHANGED wbuf
          /\ UNCHANGED dropped
       \/ rbuf # <<>> /\ Drops /\ GoesOn(c, "raise") /\ UNCHANGED wbuf
    /\ UNCHANGED <<tls, state, lock, library, transport, writes, faults, got, eof, notified, returned>>

\* The guard on write_buf has no else: the program stops.
schannel_write(c) ==
    /\ Runs(c, "call") /\ ~openssl /\ op[c] = "write"
    /\ \/ wbuf # <<>> /\ turn' = "aborted" /\ UNCHANGED <<wbuf, op, pc, next, broken>>
       \/ wbuf = <<>> /\ wbuf' = <<"app">> /\ FlushThen(c, "return")
       \/ wbuf = <<>> /\ (shutdown \/ hs # "done") /\ GoesOn(c, "raise") /\ UNCHANGED wbuf
    /\ UNCHANGED <<tls, state, rbuf, lock, library, transport, history>>

\* ApplyControlToken, which may fail, then connect or accept until they complete or
\* report Eof, which for a server comes without a token.  A further round (WantWrite)
\* follows a record of the peer.
schannel_shutdown(c) ==
    /\ Runs(c, "notify") /\ ~openssl
    /\ \/ rbuf = <<>> /\ FillThen(c, "notify") /\ UNCHANGED <<rbuf, wbuf, dropped>>
       \/ /\ Drops
          /\ \/ Token(c, "notify", FlushThen(c, "shut"))
             \/ ~config.client /\ FlushThen(c, "shut") /\ UNCHANGED wbuf
             \/ GoesOn(c, "raise") /\ UNCHANGED wbuf
       \/ /\ rbuf # <<>> /\ rbuf' = <<>> /\ dropped' = TRUE
          /\ Token(c, "notify", FlushThen(c, "notify"))
    /\ UNCHANGED <<tls, state, lock, library, transport, writes, faults, got, eof, notified, returned>>

-----------------------------------------------------------------------------
(* The peer. *)

MaySend ==
    IF peer = <<>> THEN {"good", "close", "eof"} \cup (IF config.client THEN {"bad"} ELSE {})
    ELSE CASE peer[Len(peer)] = "eof"   -> {}
           [] peer[Len(peer)] = "close" -> {"eof"}
           [] OTHER                     -> {"data", "key", "close", "eof"}

PeerSends ==
    /\ Len(peer) < MaxRecords
    /\ \E r \in MaySend : peer' = Append(peer, r) /\ incoming' = Append(incoming, r)
    /\ UNCHANGED <<tls, buffers, library, coros, flight, history>>

\* A coroutine that has been resumed or was never suspended.
Step(c) ==
    \/ Raises(c) \/ FlushAcquire(c) \/ FlushStart(c) \/ FlushDone(c)
    \/ ReadAcquire(c) \/ ReadStart(c) \/ ReadDone(c)
    \/ Continue(c) \/ ShutdownStart(c)
    \/ ssl_connect(c) \/ ssl_read(c) \/ ssl_write(c) \/ ssl_shutdown(c)
    \/ schannel_connect(c) \/ schannel_verify(c) \/ schannel_read(c) \/ schannel_renew(c)
    \/ schannel_write(c) \/ schannel_shutdown(c)

Next ==
    \/ \E c \in Coros : Step(c) \/ Transmit(c) \/ TransportFails(c) \/ Cancel(c)
    \/ openssl_from_pair \/ schannel_client_from_pair \/ schannel_server_from_pair
    \/ Read \/ Write \/ Shutdown \/ close
    \/ PeerSends

Spec == Init /\ [][Next]_vars

\* The scheduler's queue is first come, first served, so a coroutine that can run
\* does, and the transport takes what it is given.
FairSpec ==
    /\ Spec
    /\ \A c \in Coros : SF_vars(Step(c)) /\ WF_vars(Transmit(c))

-----------------------------------------------------------------------------
(* Properties. *)

\* The data records among the first k of the peer.
DataSent(k) == Cardinality({j \in 1..k : peer[j] = "data"})

\* The peer has ended what it sends, announced or not, and everything before that has
\* been returned, unless an operation raised or Schannel took input unseen.
EndReached ==
    \E i \in 1..Len(peer) :
        peer[i] \in {"close", "eof"} /\ (broken \/ dropped \/ got = DataSent(i))

\* A read returns 0 only at the end of what the peer sent, and everything before that
\* has been returned, unless an operation raised or a call of connect or accept, for a
\* shutdown or a renegotiation, was not told by Schannel what it left of read_buf
\* (schannel.c:344-346) and dropped all of it (schannel.mbt:159).
EofIsReal == eof => EndReached

\* Nothing is released that is not held, and a connection that failed or was closed
\* holds nothing, however far its constructor got, but for the context of a server
\* whose file could not be read (schannel.mbt:296, conn = "unread").
NoLeak ==
    /\ \A r \in Resources : res[r] # "bad"
    /\ conn \in {"failed", "closed"} => Live(res) = {}

\* A client that was told whom to trust and whose handshake completed is handed out
\* only if the trusted roots accept the certificate of its peer.
VerifiedPeer ==
    conn = "open" /\ config.client /\ config.trust # "none" /\ hs = "done" => peer[1] = "good"

\* c is in read_more and the peer has sent nothing, or waits for the one who is.
WaitsForPeer(c) ==
    /\ incoming = <<>>
    /\ \/ pc[c] = "reading"
       \/ pc[c] = "rlock" /\ \E d \in Coros : lock["read"].by = d /\ pc[d] = "reading"

\* An operation, a handshake included, ends or is found waiting for a record that the
\* peer has not sent, whoever else uses the connection or is cancelled while it waits for
\* a lock.  With Schannel it may also stop the program: write_once requires an empty
\* write_buf (schannel.mbt:411), which it does not have while a flush of the reader is
\* suspended; that takes no fault.
OperationsEnd ==
    \A c \in Coros :
        op[c] # "idle" ~> op[c] = "idle" \/ WaitsForPeer(c) \/ (turn = "aborted" /\ ~openssl)

\* "Shutdown a TLS connection gracefully": when shutdown has returned, close_notify
\* was handed to the transport.
ShutdownIsSent == returned => notified

=============================================================================
