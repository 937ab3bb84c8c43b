----------------------------- MODULE TlsProofs -----------------------------
(***************************************************************************)
(* Proofs about Tls, for any capacity of write_buf and any number of       *)
(* records, writes and faults.                                             *)
(***************************************************************************)
EXTENDS Tls, TLAPS, FiniteSetTheorems

\* The steps of flush_write and of read_more.
Flushes == {"flush", "wlock", "flushing", "writing", "next"}
Fills   == {"fill", "rlock", "filling", "reading"}

-----------------------------------------------------------------------------
(* The inductive invariant. *)

\* Where a coroutine may be in its operation, and where flush_write and read_more return to.
CoroOK(c) ==
    /\ op[c] = "idle" <=> pc[c] = "idle"
    /\ op[c] = "connect" => c = "writer" /\ conn = "handshake"
    /\ op[c] = "read" => c = "reader"
    /\ op[c] \in {"write", "shutdown"} => c = "writer"
    /\ op[c] \in {"read", "write", "shutdown"} => conn = "open"
    /\ pc[c] = "call" => op[c] # "shutdown"
    /\ pc[c] \in Fills => next[c] \in {"call", "renew", "notify"}
    /\ pc[c] \in Fills /\ op[c] \in {"connect", "write"} => next[c] = "call"
    /\ pc[c] \in Fills /\ op[c] = "shutdown" => next[c] = "notify"
    /\ pc[c] = "renew" => op[c] = "read"
    /\ pc[c] \in {"shut", "notify"} => op[c] \in {"read", "shutdown"}
    /\ pc[c] = "verify" => op[c] = "connect" /\ ~openssl /\ custom
    /\ pc[c] \in Flushes /\ op[c] = "connect" => next[c] \in {"call", "fill", "return"}
    /\ pc[c] \in Flushes /\ op[c] = "write" => next[c] \in {"call", "fill", "return"}
    /\ pc[c] \in Flushes /\ op[c] = "shutdown" => next[c] \in {"notify", "refill", "shut"}

\* The holder of a lock works under it; the one waiter is suspended.
LockOK(l, works, waits) ==
    /\ lock[l].by # None => pc[lock[l].by] \in works
    /\ lock[l].by = None => lock[l].queue = <<>>
    /\ Len(lock[l].queue) <= 1
    /\ lock[l].queue # <<>> => pc[lock[l].queue[1]] = waits

\* Everyone is where they may be.
ControlOK ==
    /\ \A c \in Coros : CoroOK(c)
    /\ LockOK("write", {"flushing", "writing"}, "wlock")
    /\ LockOK("read", {"filling", "reading"}, "rlock")

\* What the peer sends, in which order.
PeerOK ==
    \A i \in 1..Len(peer) :
        /\ peer[i] # "junk"
        /\ peer[i] = "eof" => i = Len(peer)
        /\ peer[i] \in {"good", "bad"} => i = 1

\* The records taken out of read_buf so far.
Taken == Len(peer) - Len(incoming) - Len(rbuf)

\* What was not taken yet is in read_buf or in the transport, in order.
IncomingOK ==
    /\ Len(incoming) <= Len(peer)
    /\ \A j \in 1..Len(incoming) : incoming[j] = peer[Len(peer) - Len(incoming) + j]

\* read_buf continues where the transport starts.
ReadBufOK ==
    /\ Taken >= 0
    /\ \A j \in 1..Len(rbuf) : rbuf[j] = peer[Taken + j]

\* The junk of the first handshake call: nothing was read before it, and the next call
\* raises.
Junk ==
    /\ rbuf = <<"junk">> /\ Len(incoming) = Len(peer)
    /\ ~openssl /\ hs = "sent" /\ conn \in {"handshake", "failed"}
    /\ \/ pc["writer"] \in {"idle", "call", "raise"}
       \/ pc["writer"] \in Flushes /\ next["writer"] = "call"

\* Before its first record, and until it has a ClientHello, a connection has no context.
StartOK ==
    /\ config.client /\ hs = "start" =>
         /\ rbuf = <<>> /\ Len(incoming) = Len(peer) /\ conn # "open"
         /\ \A c \in Coros : pc[c] \in {"idle", "call", "raise"}
    /\ conn = "handshake" /\ ~openssl /\ ~config.client /\ pc["writer"] # "raise" =>
         \/ hs = "start" /\ pc["writer"] \in {"call"} \cup Fills
         \/ hs = "done" /\ pc["writer"] \in Flushes /\ next["writer"] = "return"

\* Before close, the transport is Closed only at its end.
ClosedOK ==
    state = "Closed" /\ conn \in {"new", "handshake", "open"} => incoming # <<>> /\ incoming[1] = "eof"

\* What was received, as a whole.
StreamOK == PeerOK /\ IncomingOK /\ (Junk \/ ReadBufOK) /\ StartOK /\ ClosedOK

\* What a connection holds between its constructor and its end (st: struct Context).
Holds(r, st) ==
    /\ \A x \in {"cert", "chain", "pfx"} : r[x] = "none"
    /\ openssl =>
         /\ r["ssl"] = "live" /\ r["bio"] = "live" /\ r["ctx"] \in {"none", "live"}
         /\ \A x \in {"cred", "sec", "store", "engine"} : r[x] = "none"
    /\ ~openssl =>
         /\ st \in {"Handle", "Context"} /\ r["ctx"] = "live" /\ r["cred"] = "live"
         /\ r["sec"] = (IF st = "Context" THEN "live" ELSE "none")
         /\ \A x \in {"store", "engine"} : r[x] \in {"none", "live"}
         /\ \A x \in {"ssl", "bio"} : r[x] = "none"

\* Nothing is held.
HoldsNothing(r) == \A x \in Resources : r[x] = "none"

\* What is held in each phase of a connection.
HeldOK ==
    /\ conn \in {"new", "failed", "closed"} => HoldsNothing(res)
    /\ conn = "new" => hs = "start"
    /\ conn = "unread" => \A x \in Resources : res[x] \in {"none", "live"}
    /\ conn \in {"handshake", "open"} =>
         Holds(res, cstate) /\ (~openssl => (hs = "start" <=> cstate = "Handle"))

\* Whose certificate was accepted, by the handshake or after it.
VerifiedOK ==
    /\ hs = "done" => peer # <<>>
    /\ hs = "done" /\ config.client /\ config.trust # "none"
       /\ (openssl \/ ~custom \/ conn = "open") => peer[1] = "good"

\* A read took a data record and has not returned it.
Returning == op["reader"] = "read" /\ pc["reader"] \in Flushes /\ next["reader"] = "return"

\* Every data record taken was returned, if Schannel took none unseen.
CountOK ==
    ~broken /\ ~dropped /\ pc["reader"] # "raise" => got + (IF Returning THEN 1 ELSE 0) = DataSent(Taken)

\* A read is about to return 0.
Ending ==
    op["reader"] = "read" /\ (\/ pc["reader"] \in {"shut", "notify"}
                              \/ pc["reader"] \in Fills /\ next["reader"] = "notify"
                              \/ /\ pc["reader"] \in Flushes
                                 /\ next["reader"] \in {"notify", "refill", "shut", "eof"})

\* 0 is returned, or about to be, only at the end.
EndOK == (eof => op["reader"] = "idle") /\ (Ending \/ eof => EndReached)

\* All of it.
IndInv == TypeOK /\ ControlOK /\ StreamOK /\ HeldOK /\ VerifiedOK /\ CountOK /\ EndOK

-----------------------------------------------------------------------------
(* Types. *)

\* The parameters, as the provers use them.
LEMMA Parameters ==
    /\ Capacity \in Nat /\ Capacity > 0 /\ MaxRecords \in Nat /\ MaxWrites \in Nat
    /\ MaxFaults \in Nat /\ None \notin Coros
    /\ \A k \in Configs : k \in AllConfigs
BY TlsAssumption

\* TypeOK in parts: the connection, the buffers, the locks, the library, the coroutines,
\* the transport and the history.
TlsTypes ==
    /\ config \in Configs /\ conn \in {"new", "handshake", "open", "failed", "unread", "closed"}
    /\ res \in [Resources -> {"none", "live", "bad"}]
    /\ cstate \in {"Uninitialized", "Handle", "Context"} /\ shutdown \in BOOLEAN
BufTypes ==
    /\ state \in {"Normal", "Closed", "Error"}
    /\ rbuf \in Seq(Inbound \ {"eof"}) /\ wbuf \in Seq(Outbound) /\ Len(wbuf) <= Capacity
LockTypes == lock \in [{"read", "write"} -> [by : Coros \cup {None}, queue : Seq(Coros)]]
LibTypes ==
    /\ hs \in {"start", "sent", "done"}
    /\ owed \in [kind : Outbound, by : Coros \cup {None}] \cup {None}
CoroTypes ==
    /\ op \in [Coros -> {"idle", "connect", "read", "write", "shutdown"}]
    /\ pc \in [Coros -> Places]
    /\ next \in [Coros -> {"call", "fill", "refill", "renew", "notify", "return", "eof", "shut"}]
    /\ turn \in Coros \cup {None, "aborted"} /\ broken \in BOOLEAN
WireTypes ==
    /\ flight \in [upto : 0..Capacity, sent : 0..Capacity]
    /\ incoming \in Seq(Inbound) /\ peer \in Seq(Inbound) /\ Len(peer) <= MaxRecords
HistTypes ==
    /\ writes \in 0..MaxWrites /\ faults \in 0..MaxFaults /\ got \in Nat
    /\ eof \in BOOLEAN /\ notified \in BOOLEAN /\ returned \in BOOLEAN /\ dropped \in BOOLEAN

\* The parts make up TypeOK, and a part whose variables do not change is kept.
LEMMA TypeParts ==
    /\ TypeOK <=> TlsTypes /\ BufTypes /\ LockTypes /\ LibTypes /\ CoroTypes /\ WireTypes /\ HistTypes
    /\ (TypeOK <=> TlsTypes /\ BufTypes /\ LockTypes /\ LibTypes /\ CoroTypes /\ WireTypes /\ HistTypes)'
BY DEF TypeOK, TlsTypes, BufTypes, LockTypes, LibTypes, CoroTypes, WireTypes, HistTypes

\* A part of TypeOK is kept by the steps that leave its variables alone.
LEMMA TypeFrame ==
    ASSUME TypeOK
    PROVE  /\ UNCHANGED tls => TlsTypes'
           /\ UNCHANGED <<state, rbuf, wbuf>> => BufTypes'
           /\ UNCHANGED lock => LockTypes'
           /\ UNCHANGED library => LibTypes'
           /\ UNCHANGED coros => CoroTypes'
           /\ UNCHANGED transport => WireTypes'
           /\ UNCHANGED history => HistTypes'
BY DEF TypeOK, TlsTypes, BufTypes, LockTypes, LibTypes, CoroTypes, WireTypes, HistTypes,
       tls, library, coros, transport, history

\* What one record more or less makes of the buffers.
LEMMA RecordTypes ==
    ASSUME TypeOK, NEW k \in Outbound
    PROVE  /\ Append(wbuf, k) \in Seq(Outbound) /\ Len(Append(wbuf, k)) = Len(wbuf) + 1
           /\ wbuf # <<>> => /\ <<k>> \o Append(Tail(wbuf), "junk") \in Seq(Outbound)
                             /\ Len(<<k>> \o Append(Tail(wbuf), "junk")) = Len(wbuf) + 1
           /\ <<k>> \in Seq(Outbound) /\ Len(<<k>>) = 1
           /\ rbuf # <<>> => Tail(rbuf) \in Seq(Inbound \ {"eof"})
           /\ Append(rbuf, "junk") \in Seq(Inbound \ {"eof"})
BY DEF TypeOK, Inbound, Outbound

\* What a call of the library may do to write_buf.
Written ==
    \/ wbuf' = wbuf
    \/ \E k \in Outbound :
         \/ wbuf = <<>> /\ wbuf' = <<k>>
         \/ Len(wbuf) < Capacity /\ wbuf' = Append(wbuf, k)
         \/ /\ wbuf # <<>> /\ Len(wbuf) < Capacity
            /\ wbuf' = <<k>> \o Append(Tail(wbuf), "junk")

\* What BioWrite, WantRead and Token write is of the right type.
LEMMA WrittenTypes ==
    ASSUME TypeOK, Written
    PROVE  wbuf' \in Seq(Outbound) /\ Len(wbuf') <= Capacity
<1>1. wbuf \in Seq(Outbound) /\ Len(wbuf) \in Nat /\ Len(wbuf) <= Capacity
  BY DEF TypeOK
<1>2. CASE wbuf' = wbuf
  BY <1>1, <1>2
<1>3. ASSUME NEW k \in Outbound, wbuf' = <<k>>
      PROVE  wbuf' \in Seq(Outbound) /\ Len(wbuf') <= Capacity
  BY <1>3, Parameters
<1>4. ASSUME NEW k \in Outbound, Len(wbuf) < Capacity,
             wbuf' = Append(wbuf, k) \/ (wbuf # <<>> /\ wbuf' = <<k>> \o Append(Tail(wbuf), "junk"))
      PROVE  wbuf' \in Seq(Outbound) /\ Len(wbuf') <= Capacity
  <2>1. wbuf' \in Seq(Outbound) /\ Len(wbuf') = Len(wbuf) + 1
    BY <1>4, RecordTypes
  <2> QED BY <1>1, <1>4, <2>1, Parameters
<1> QED BY <1>2, <1>3, <1>4 DEF Written

\* The coroutine that moves, and the lock it takes or gives back.
LEMMA TypesOfCoroutines ==
    ASSUME TypeOK, NEW c \in Coros, NEW l \in {"read", "write"}, NEW has \in Places, NEW p \in Places
    PROVE  /\ Goes(c, p) => pc' \in [Coros -> Places] /\ turn' \in Coros \cup {None, "aborted"}
           /\ Ends(c) => /\ pc' \in [Coros -> Places] /\ turn' \in Coros \cup {None, "aborted"}
                         /\ op' \in [Coros -> {"idle", "connect", "read", "write", "shutdown"}]
           /\ Release(c, l, has, p) =>
                /\ pc' \in [Coros -> Places] /\ turn' \in Coros \cup {None, "aborted"}
                /\ lock' \in [{"read", "write"} -> [by : Coros \cup {None}, queue : Seq(Coros)]]
           /\ Acquire(c, l, has, p) =>
                /\ pc' \in [Coros -> Places] /\ turn' \in Coros \cup {None, "aborted"}
                /\ lock' \in [{"read", "write"} -> [by : Coros \cup {None}, queue : Seq(Coros)]]
<1>1. Goes(c, p) => pc' \in [Coros -> Places] /\ turn' \in Coros \cup {None, "aborted"}
  BY DEF Goes, TypeOK
<1>2. Ends(c) => /\ pc' \in [Coros -> Places] /\ turn' \in Coros \cup {None, "aborted"}
                 /\ op' \in [Coros -> {"idle", "connect", "read", "write", "shutdown"}]
  BY DEF Ends, TypeOK, Places
<1>3. ASSUME Release(c, l, has, p)
      PROVE  /\ pc' \in [Coros -> Places] /\ turn' \in Coros \cup {None, "aborted"}
             /\ lock' \in [{"read", "write"} -> [by : Coros \cup {None}, queue : Seq(Coros)]]
  BY <1>3 DEF Release, TypeOK
<1>4. ASSUME Acquire(c, l, has, p)
      PROVE  /\ pc' \in [Coros -> Places] /\ turn' \in Coros \cup {None, "aborted"}
             /\ lock' \in [{"read", "write"} -> [by : Coros \cup {None}, queue : Seq(Coros)]]
  <2>1. lock[l].by \in Coros \cup {None} /\ lock[l].queue \in Seq(Coros)
    BY DEF TypeOK
  <2>2. /\ [by |-> c, queue |-> lock[l].queue] \in [by : Coros \cup {None}, queue : Seq(Coros)]
        /\ [by |-> lock[l].by, queue |-> Append(lock[l].queue, c)]
              \in [by : Coros \cup {None}, queue : Seq(Coros)]
    BY <2>1
  <2>3. \/ lock' = [lock EXCEPT ![l] = [by |-> c, queue |-> lock[l].queue]] /\ Goes(c, has)
        \/ lock' = [lock EXCEPT ![l] = [by |-> lock[l].by, queue |-> Append(lock[l].queue, c)]]
           /\ Goes(c, p)
    BY <1>4 DEF Acquire, TypeOK
  <2>4. lock' \in [{"read", "write"} -> [by : Coros \cup {None}, queue : Seq(Coros)]]
    <3>1. PICK new \in [by : Coros \cup {None}, queue : Seq(Coros)] :
              lock' = [lock EXCEPT ![l] = new]
      BY <2>2, <2>3
    <3> QED BY <3>1 DEF TypeOK
  <2>5. PICK q \in Places : Goes(c, q)
    BY <2>3
  <2>6. pc' \in [Coros -> Places] /\ turn' \in Coros \cup {None, "aborted"}
    BY <2>5 DEF Goes, TypeOK
  <2> QED BY <2>4, <2>6
<1> QED BY <1>1, <1>2, <1>3, <1>4

\* What is read from the transport before its end is no end.
LEMMA ReadTypes ==
    ASSUME TypeOK, PeerOK, IncomingOK, NEW n \in 1..Len(incoming), incoming[n] # "eof"
    PROVE  /\ SubSeq(incoming, 1, n) \in Seq(Inbound \ {"eof"})
           /\ SubSeq(incoming, n + 1, Len(incoming)) \in Seq(Inbound)
<1>1. incoming \in Seq(Inbound) /\ Len(peer) \in Nat /\ Len(incoming) \in Nat
  BY DEF TypeOK
<1>2. \A j \in 1..n : incoming[j] # "eof"
  <2> TAKE j \in 1..n
  <2>1. incoming[j] = peer[Len(peer) - Len(incoming) + j]
        /\ incoming[n] = peer[Len(peer) - Len(incoming) + n]
    BY <1>1 DEF IncomingOK
  <2>2. Len(peer) - Len(incoming) + j \in 1..Len(peer)
    BY <1>1 DEF IncomingOK
  <2>3. incoming[j] = "eof" => j = n
    BY <1>1, <2>1, <2>2 DEF PeerOK, IncomingOK
  <2> QED BY <2>3
<1> QED BY <1>1, <1>2

\* One step of a coroutine keeps the types.
LEMMA TypeOfStep ==
    ASSUME TypeOK, ControlOK, PeerOK, IncomingOK, NEW c \in Coros, Step(c)
    PROVE  TypeOK'
<1> USE Parameters, TypeParts
<1>1. CASE Raises(c)
  <2>1. TlsTypes'
    BY <1>1 DEF Raises, FreeAll, Ledger, TlsTypes
  <2>2. BufTypes'
    BY <1>1 DEF Raises, BufTypes
  <2>3. LibTypes'
    BY <1>1 DEF Raises, Owes, LibTypes
  <2>4. CoroTypes'
    BY <1>1 DEF Raises, Ends, Places, CoroTypes
  <2> QED BY <1>1, <2>1, <2>2, <2>3, <2>4, TypeFrame DEF Raises
<1>2. CASE FlushAcquire(c)
  <2>1. LockTypes'
    BY <1>2, TypesOfCoroutines DEF FlushAcquire, Places, LockTypes
  <2>2. CoroTypes'
    BY <1>2 DEF FlushAcquire, Acquire, Goes, Places, CoroTypes
  <2> QED BY <1>2, <2>1, <2>2, TypeFrame DEF FlushAcquire
<1>3. CASE FlushStart(c)
  <2>1. LockTypes'
    BY <1>3, TypesOfCoroutines DEF FlushStart, Places, LockTypes
  <2>2. CoroTypes'
    BY <1>3 DEF FlushStart, Release, Goes, Places, CoroTypes
  <2>3. WireTypes'
    BY <1>3 DEF FlushStart, BufTypes, WireTypes
  <2> QED BY <1>3, <2>1, <2>2, <2>3, TypeFrame DEF FlushStart
<1>4. CASE FlushDone(c)
  <2>1. BufTypes'
    BY <1>4 DEF FlushDone, BufTypes
  <2>2. LockTypes'
    BY <1>4 DEF FlushDone, Release, LockTypes
  <2>3. CoroTypes'
    BY <1>4 DEF FlushDone, Release, Places, CoroTypes
  <2>4. WireTypes'
    BY <1>4 DEF FlushDone, NoFlight, WireTypes
  <2> QED BY <1>4, <2>1, <2>2, <2>3, <2>4, TypeFrame DEF FlushDone
<1>5. CASE ReadAcquire(c)
  <2>1. LockTypes'
    BY <1>5, TypesOfCoroutines DEF ReadAcquire, Places, LockTypes
  <2>2. CoroTypes'
    BY <1>5 DEF ReadAcquire, Acquire, Goes, Places, CoroTypes
  <2> QED BY <1>5, <2>1, <2>2, TypeFrame DEF ReadAcquire
<1>6. CASE ReadStart(c)
  <2>1. LockTypes'
    BY <1>6, TypesOfCoroutines DEF ReadStart, Places, LockTypes
  <2>2. CoroTypes'
    BY <1>6 DEF ReadStart, Release, Goes, Places, CoroTypes
  <2> QED BY <1>6, <2>1, <2>2, TypeFrame DEF ReadStart
<1>7. CASE ReadDone(c)
  <2>1. BufTypes'
    <3>1. state' \in {"Normal", "Closed", "Error"} /\ wbuf' = wbuf
      BY <1>7 DEF ReadDone, BufTypes
    <3>2. rbuf' \in Seq(Inbound \ {"eof"})
      <4>1. CASE UNCHANGED rbuf
        BY <4>1 DEF BufTypes
      <4>2. CASE \E k \in 1..Len(incoming) : incoming[k] # "eof" /\ rbuf' = rbuf \o SubSeq(incoming, 1, k)
        BY <4>2, ReadTypes DEF BufTypes
      <4> QED BY <1>7, <4>1, <4>2 DEF ReadDone
    <3> QED BY <3>1, <3>2 DEF BufTypes
  <2>2. LockTypes'
    BY <1>7 DEF ReadDone, Release, LockTypes
  <2>3. CoroTypes'
    <3>1. next[c] \in {"call", "renew", "notify"}
      BY <1>7 DEF ReadDone, Runs, ControlOK, CoroOK, Fills
    <3> QED BY <1>7, <3>1 DEF ReadDone, Release, Places, CoroTypes
  <2>4. WireTypes'
    BY <1>7, ReadTypes DEF ReadDone, WireTypes
  <2> QED BY <1>7, <2>1, <2>2, <2>3, <2>4, TypeFrame DEF ReadDone
<1>8. CASE Continue(c)
  <2>1. TlsTypes'
    BY <1>8 DEF Continue, TlsTypes
  <2>2. CoroTypes'
    BY <1>8 DEF Continue, GoesOn, FlushThen, FillThen, Goes, Ends, Places, CoroTypes
  <2>3. HistTypes'
    <3>1. /\ writes' = writes /\ faults' = faults /\ notified' = notified /\ dropped' = dropped
          /\ got' = got \/ got' = got + 1
      BY <1>8 DEF Continue
    <3>2. eof' \in {eof, TRUE} /\ returned' \in {returned, TRUE}
      BY <1>8 DEF Continue
    <3>3. got' \in Nat /\ writes' \in 0..MaxWrites /\ faults' \in 0..MaxFaults
      BY <3>1 DEF HistTypes
    <3>4. eof' \in BOOLEAN /\ notified' \in BOOLEAN /\ returned' \in BOOLEAN /\ dropped' \in BOOLEAN
      BY <3>1, <3>2, Zenon DEF HistTypes
    <3> QED BY <3>3, <3>4 DEF HistTypes
  <2> QED BY <1>8, <2>1, <2>2, <2>3, TypeFrame DEF Continue, buffers
<1>9. CASE ShutdownStart(c)
  <2>1. TlsTypes'
    BY <1>9 DEF ShutdownStart, TlsTypes
  <2>2. CoroTypes'
    BY <1>9 DEF ShutdownStart, GoesOn, FlushThen, FillThen, Goes, Ends, Places, CoroTypes
  <2>3. HistTypes'
    BY <1>9 DEF ShutdownStart, HistTypes
  <2> QED BY <1>9, <2>1, <2>2, <2>3, TypeFrame DEF ShutdownStart, buffers
<1>10. CASE ssl_connect(c)
  <2>1. BufTypes'
    <3>1. state' = state /\ (rbuf' = rbuf \/ (rbuf # <<>> /\ rbuf' = Tail(rbuf)))
      BY <1>10 DEF ssl_connect, BioWrite, BioRead, WantRead
    <3>2. Written
      BY <1>10 DEF ssl_connect, BioWrite, BioRead, WantRead, Written, Outbound
    <3> QED BY <3>1, <3>2, RecordTypes, WrittenTypes DEF BufTypes, Outbound
  <2>2. LibTypes'
    BY <1>10 DEF ssl_connect, BioWrite, Outbound, LibTypes
  <2>3. CoroTypes'
    BY <1>10 DEF ssl_connect, BioWrite, WantRead, Runs, GoesOn, FlushThen, FillThen, Goes, Places, CoroTypes
  <2> QED BY <1>10, <2>1, <2>2, <2>3, TypeFrame DEF ssl_connect
<1>11. CASE ssl_read(c)
  <2>1. BufTypes'
    <3>1. state' = state /\ (rbuf' = rbuf \/ (rbuf # <<>> /\ rbuf' = Tail(rbuf)))
      BY <1>11 DEF ssl_read, BioWrite, BioRead, WantRead, Owes
    <3>2. Written
      BY <1>11 DEF ssl_read, BioWrite, BioRead, WantRead, Owes, Written, LibTypes, Outbound
    <3> QED BY <3>1, <3>2, RecordTypes, WrittenTypes DEF BufTypes, Outbound
  <2>2. LibTypes'
    BY <1>11 DEF ssl_read, BioWrite, Owes, Outbound, LibTypes
  <2>3. CoroTypes'
    BY <1>11 DEF ssl_read, BioWrite, WantRead, Runs, GoesOn, FlushThen, FillThen, Goes, Places, CoroTypes
  <2> QED BY <1>11, <2>1, <2>2, <2>3, TypeFrame DEF ssl_read
<1>12. CASE ssl_write(c)
  <2>1. BufTypes'
    <3>1. UNCHANGED <<state, rbuf>> /\ Written
      BY <1>12 DEF ssl_write, BioWrite, WantRead, Written, Outbound
    <3> QED BY <3>1, WrittenTypes DEF BufTypes
  <2>2. LibTypes'
    BY <1>12 DEF ssl_write, BioWrite, WantRead, Outbound, LibTypes
  <2>3. CoroTypes'
    BY <1>12 DEF ssl_write, BioWrite, WantRead, Runs, GoesOn, FlushThen, FillThen, Goes, Places, CoroTypes
  <2> QED BY <1>12, <2>1, <2>2, <2>3, TypeFrame DEF ssl_write
<1>13. CASE ssl_shutdown(c)
  <2>1. BufTypes'
    <3>1. UNCHANGED <<state, rbuf>> /\ Written
      BY <1>13 DEF ssl_shutdown, BioWrite, WantRead, Written, Outbound
    <3> QED BY <3>1, WrittenTypes DEF BufTypes
  <2>2. LibTypes'
    BY <1>13 DEF ssl_shutdown, BioWrite, WantRead, Outbound, LibTypes
  <2>3. CoroTypes'
    BY <1>13 DEF ssl_shutdown, BioWrite, WantRead, Runs, GoesOn, FlushThen, FillThen, Goes, Places, CoroTypes
  <2> QED BY <1>13, <2>1, <2>2, <2>3, TypeFrame DEF ssl_shutdown
<1>14. CASE schannel_connect(c)
  <2>1. TlsTypes'
    BY <1>14 DEF schannel_connect, ConnectFirst, ConnectMore, AcceptIncomplete, AcceptFirst, Ledger, TlsTypes
  <2>2. BufTypes'
    <3>1. state' = state /\ (rbuf' = rbuf \/ (rbuf # <<>> /\ rbuf' = Tail(rbuf)) \/ rbuf' = Append(rbuf, "junk"))
      BY <1>14 DEF schannel_connect, ConnectFirst, ConnectMore, AcceptIncomplete, AcceptFirst, Token
    <3>2. Written
      BY <1>14 DEF schannel_connect, ConnectFirst, ConnectMore, AcceptIncomplete, AcceptFirst, Token, Written, Outbound, BufTypes
    <3> QED BY <3>1, <3>2, RecordTypes, WrittenTypes DEF BufTypes, Outbound
  <2>3. LibTypes'
    BY <1>14 DEF schannel_connect, ConnectFirst, ConnectMore, AcceptIncomplete, AcceptFirst, LibTypes
  <2>4. CoroTypes'
    BY <1>14 DEF schannel_connect, ConnectFirst, ConnectMore, AcceptIncomplete, AcceptFirst, Token, GoesOn, FlushThen, FillThen, Goes, Places, CoroTypes
  <2> QED BY <1>14, <2>1, <2>2, <2>3, <2>4, TypeFrame DEF schannel_connect
<1>15. CASE schannel_verify(c)
  <2>1. TlsTypes'
    BY <1>15 DEF schannel_verify, FreeAll, Ledger, TlsTypes
  <2>2. BufTypes'
    BY <1>15 DEF schannel_verify, BufTypes
  <2>3. CoroTypes'
    BY <1>15 DEF schannel_verify, Ends, Places, CoroTypes
  <2> QED BY <1>15, <2>1, <2>2, <2>3, TypeFrame DEF schannel_verify
<1>16. CASE schannel_read(c)
  <2>1. BufTypes'
    <3>1. state' = state /\ (rbuf' = rbuf \/ (rbuf # <<>> /\ rbuf' = Tail(rbuf)))
      BY <1>16 DEF schannel_read
    <3>2. Written
      BY <1>16 DEF schannel_read, Written
    <3> QED BY <3>1, <3>2, RecordTypes, WrittenTypes DEF BufTypes, Outbound
  <2>2. CoroTypes'
    BY <1>16 DEF schannel_read, Token, GoesOn, FlushThen, FillThen, Goes, Ends, Places, CoroTypes
  <2>3. HistTypes'
    <3>1. /\ writes' = writes /\ faults' = faults /\ notified' = notified /\ returned' = returned
          /\ dropped' = dropped /\ (got' = got \/ got' = got + 1)
      BY <1>16 DEF schannel_read
    <3>2. eof' \in {eof, TRUE}
      BY <1>16 DEF schannel_read
    <3>3. got' \in Nat /\ writes' \in 0..MaxWrites /\ faults' \in 0..MaxFaults
      BY <3>1 DEF HistTypes
    <3>4. eof' \in BOOLEAN /\ notified' \in BOOLEAN /\ returned' \in BOOLEAN /\ dropped' \in BOOLEAN
      BY <3>1, <3>2, Zenon DEF HistTypes
    <3> QED BY <3>3, <3>4 DEF HistTypes
  <2> QED BY <1>16, <2>1, <2>2, <2>3, TypeFrame DEF schannel_read
<1>17. CASE schannel_write(c)
  <2>1. BufTypes'
    <3>1. state' = state /\ (rbuf' = rbuf)
      BY <1>17 DEF schannel_write
    <3>2. Written
      BY <1>17 DEF schannel_write, Written, Outbound, BufTypes
    <3> QED BY <3>1, <3>2, RecordTypes, WrittenTypes DEF BufTypes, Outbound
  <2>2. CoroTypes'
    BY <1>17 DEF schannel_write, GoesOn, FlushThen, FillThen, Goes, Places, CoroTypes
  <2> QED BY <1>17, <2>1, <2>2, TypeFrame DEF schannel_write
<1>18. CASE schannel_shutdown(c)
  <2>1. BufTypes'
    <3>1. state' = state /\ (rbuf' = rbuf \/ rbuf' = <<>>)
      BY <1>18 DEF schannel_shutdown, Drops
    <3>2. Written
      BY <1>18 DEF schannel_shutdown, Token, Written, Outbound, BufTypes
    <3>3. <<>> \in Seq(Inbound \ {"eof"})
      OBVIOUS
    <3> QED BY <3>1, <3>2, <3>3, WrittenTypes DEF BufTypes
  <2>2. CoroTypes'
    BY <1>18 DEF schannel_shutdown, Token, GoesOn, FlushThen, FillThen, Goes, Places, CoroTypes
  <2>3. HistTypes'
    BY <1>18 DEF schannel_shutdown, Drops, HistTypes
  <2> QED BY <1>18, <2>1, <2>2, <2>3, TypeFrame DEF schannel_shutdown
<1>19. CASE schannel_renew(c)
  <2>1. BufTypes'
    <3>1. state' = state /\ (rbuf' = rbuf \/ rbuf' = <<>> \/ (rbuf # <<>> /\ rbuf' = Tail(rbuf)))
      BY <1>19 DEF schannel_renew, Drops
    <3>2. ASSUME NEW p, Token(c, "reply", FlushThen(c, p)) PROVE Written
      BY <3>2 DEF Token, Written, Outbound, BufTypes
    <3>3. Written
      BY <1>19, <3>2 DEF schannel_renew, Written
    <3>4. <<>> \in Seq(Inbound \ {"eof"})
      OBVIOUS
    <3> QED BY <3>1, <3>3, <3>4, RecordTypes, WrittenTypes DEF BufTypes, Outbound
  <2>2. CoroTypes'
    BY <1>19 DEF schannel_renew, Token, GoesOn, FlushThen, FillThen, Goes, Places, CoroTypes
  <2>3. HistTypes'
    BY <1>19 DEF schannel_renew, Drops, HistTypes
  <2> QED BY <1>19, <2>1, <2>2, <2>3, TypeFrame DEF schannel_renew
<1> QED BY <1>1, <1>2, <1>3, <1>4, <1>5, <1>6, <1>7, <1>8, <1>9, <1>10, <1>11, <1>12, <1>13, <1>14, <1>15, <1>16, <1>17, <1>18, <1>19 DEF Step

\* A constructor hands out a connection, refuses it or loses it.
Constructed(r) ==
    \/ Handshake(r) /\ cstate' \in {cstate, "Handle"}
    \/ Refuse(r)
    \/ conn' = "unread" /\ res' = r /\ UNCHANGED <<cstate, coros>>

\* A constructor keeps the types.
LEMMA TypeOfConstructor ==
    ASSUME TypeOK, openssl_from_pair \/ schannel_client_from_pair \/ schannel_server_from_pair
    PROVE  TypeOK'
<1> USE TypeParts
<1> DEFINE Ledgers == [Resources -> {"none", "live", "bad"}]
<1>1. res \in Ledgers /\ \A r \in Ledgers : \A call : Ledger(r, call) \in Ledgers
  BY DEF Ledger, TypeOK
<1>2. \A r \in Ledgers : FreeAll(r) \in Ledgers
  BY <1>1 DEF FreeAll
<1> HIDE DEF Ledgers
<1>3. \E r \in Ledgers : Constructed(r)
  <2>1. CASE openssl_from_pair
    BY <1>1, <1>2, <2>1 DEF openssl_from_pair, Constructed
  <2>2. CASE schannel_client_from_pair
    BY <1>1, <1>2, <2>2 DEF schannel_client_from_pair, Constructed
  <2>3. CASE schannel_server_from_pair
    BY <1>1, <1>2, <2>3 DEF schannel_server_from_pair, Constructed
  <2> QED BY <2>1, <2>2, <2>3
<1>4. PICK r \in Ledgers : Constructed(r)
  BY <1>3
<1>5. Constructs
  BY DEF openssl_from_pair, schannel_client_from_pair, schannel_server_from_pair
<1>6. TlsTypes'
  BY <1>4, <1>5 DEF Constructed, Constructs, Handshake, Refuse, TlsTypes, Ledgers
<1>7. CoroTypes'
  BY <1>4 DEF Constructed, Handshake, Refuse, CoroTypes, coros, Coros, Places
<1> QED BY <1>5, <1>6, <1>7, TypeFrame DEF Constructs, buffers

\* Every step keeps the types.
LEMMA TypeStep ==
    ASSUME TypeOK, ControlOK, PeerOK, IncomingOK, [Next]_vars
    PROVE  TypeOK'
<1> USE Parameters, TypeParts
<1>1. CASE UNCHANGED vars
  BY <1>1, TypeFrame DEF vars, buffers
<1>2. ASSUME NEW c \in Coros, Step(c) PROVE TypeOK'
  BY <1>2, TypeOfStep
<1>3. ASSUME NEW c \in Coros, Transmit(c) PROVE TypeOK'
  <2>1. WireTypes'
    BY <1>3 DEF Transmit, WireTypes
  <2>2. HistTypes'
    BY <1>3 DEF Transmit, HistTypes
  <2> QED BY <1>3, <2>1, <2>2, TypeFrame DEF Transmit, buffers
<1>4. ASSUME NEW c \in Coros, TransportFails(c) \/ Cancel(c) PROVE TypeOK'
  <2>1. HistTypes' /\ UNCHANGED <<tls, rbuf, wbuf, library, next, incoming, peer>>
    BY <1>4 DEF TransportFails, Cancel, FlushFails, ReadFails, CancelWaiter, transport, HistTypes
  <2>2. BufTypes'
    BY <1>4, <2>1 DEF TransportFails, Cancel, FlushFails, ReadFails, CancelWaiter, BufTypes
  <2>3. WireTypes'
    BY <1>4, <2>1 DEF TransportFails, Cancel, FlushFails, ReadFails, CancelWaiter, transport, NoFlight, WireTypes
  <2>4. ASSUME NEW l \in {"read", "write"}, Goes(c, "raise"), CancelWaiter(c, l) PROVE TypeOK'
    <3>1. LockTypes'
      <4>1. PICK i \in 1..Len(lock[l].queue) :
                lock' = [lock EXCEPT ![l].queue = SubSeq(@, 1, i - 1) \o SubSeq(@, i + 1, Len(@))]
        BY <2>4 DEF CancelWaiter
      <4>2. lock[l] \in [by : Coros \cup {None}, queue : Seq(Coros)]
        BY DEF LockTypes
      <4>3. \A s \in Seq(Coros) : \A k \in 1..Len(s) :
                SubSeq(s, 1, k - 1) \o SubSeq(s, k + 1, Len(s)) \in Seq(Coros)
        OBVIOUS
      <4>4. PICK q \in Seq(Coros) : lock' = [lock EXCEPT ![l].queue = q]
        BY <4>1, <4>2, <4>3
      <4>5. [lock[l] EXCEPT !.queue = q] \in [by : Coros \cup {None}, queue : Seq(Coros)]
        BY <4>2
      <4>6. lock' = [lock EXCEPT ![l] = [lock[l] EXCEPT !.queue = q]]
        BY <4>4
      <4> QED BY <4>5, <4>6 DEF LockTypes
    <3>2. CoroTypes'
      BY <2>1, <2>4 DEF CoroTypes, Goes, Places
    <3> QED BY <2>1, <2>2, <2>3, <3>1, <3>2, TypeFrame
  <2>5. CASE \E l \in {"read", "write"}, has \in Places : Release(c, l, has, "raise")
    <3>1. LockTypes'
      BY <2>5 DEF Release, LockTypes
    <3>2. CoroTypes'
      BY <2>1, <2>5 DEF Release, CoroTypes, Places
    <3> QED BY <2>1, <2>2, <2>3, <3>1, <3>2, TypeFrame
  <2> QED BY <1>4, <2>4, <2>5 DEF TransportFails, Cancel, FlushFails, ReadFails, CancelWaiter, Places
<1>5. CASE openssl_from_pair \/ schannel_client_from_pair \/ schannel_server_from_pair
  BY <1>5, TypeOfConstructor
<1>6. CASE Read \/ Write \/ Shutdown
  <2>1. CoroTypes'
    BY <1>6 DEF Read, Write, Shutdown, Begins, CoroTypes, Places, Coros
  <2>2. HistTypes'
    BY <1>6 DEF Read, Write, Shutdown, Begins, HistTypes
  <2> QED BY <1>6, <2>1, <2>2, TypeFrame DEF Read, Write, Shutdown, Begins, buffers
<1>7. CASE close
  <2>1. TlsTypes' /\ BufTypes'
    BY <1>7 DEF close, FreeAll, Ledger, TlsTypes, BufTypes
  <2> QED BY <1>7, <2>1, TypeFrame DEF close
<1>8. CASE PeerSends
  <2>1. WireTypes'
    BY <1>8 DEF PeerSends, MaySend, WireTypes, Inbound
  <2> QED BY <1>8, <2>1, TypeFrame DEF PeerSends, buffers
<1> QED BY <1>1, <1>2, <1>3, <1>4, <1>5, <1>6, <1>7, <1>8 DEF Next

-----------------------------------------------------------------------------
(* Control. *)

\* The two locks.
Locks ==
    /\ LockOK("write", {"flushing", "writing"}, "wlock")
    /\ LockOK("read", {"filling", "reading"}, "rlock")

\* Where a coroutine has, or waits for, a lock.
Locked == {"wlock", "flushing", "writing", "rlock", "filling", "reading"}

\* A coroutine that has no lock and waits for none, or that keeps the one it has.
LEMMA LocksKept ==
    ASSUME TypeOK, Locks, NEW c \in Coros, lock' = lock, NEW p \in Places,
           \A d \in Coros : pc'[d] = (IF d = c THEN p ELSE pc[d]),
           \/ pc[c] \notin Locked
           \/ pc[c] = "flushing" /\ p = "writing"
           \/ pc[c] = "filling" /\ p = "reading"
    PROVE  Locks'
<1>1. ASSUME NEW l \in {"read", "write"}
      PROVE  /\ lock[l].by \in Coros \cup {None}
             /\ lock[l].queue # <<>> => lock[l].queue[1] \in Coros
  BY DEF TypeOK
<1> QED BY <1>1, Parameters DEF Locks, LockOK, Locked

\* A lock that is free is taken; else the coroutine is the only one to wait.
LEMMA LocksAcquired ==
    ASSUME TypeOK, Locks, NEW c \in Coros, pc[c] \notin Locked,
           \/ Acquire(c, "write", "flushing", "wlock")
           \/ Acquire(c, "read", "filling", "rlock")
    PROVE  Locks'
<1>1. ASSUME NEW l \in {"read", "write"}
      PROVE  /\ lock[l].by \in Coros \cup {None} /\ lock[l].queue \in Seq(Coros)
             /\ lock[l].queue # <<>> => lock[l].queue[1] \in Coros
  BY DEF TypeOK
<1>2. CASE Acquire(c, "write", "flushing", "wlock")
  <2>1. CASE lock["write"].by = None
    <3>1. lock'["read"] = lock["read"] /\ lock'["write"].by = c /\ lock'["write"].queue = lock["write"].queue
          /\ \A d \in Coros : pc'[d] = (IF d = c THEN "flushing" ELSE pc[d])
      BY <1>2, <2>1 DEF Acquire, Goes, TypeOK
    <3> QED BY <1>1, <2>1, <3>1, Parameters DEF Locks, LockOK, Locked
  <2>2. CASE lock["write"].by # None
    <3>1. lock["write"].queue = <<>>
      BY <1>1, <2>2, Parameters DEF Locks, LockOK, Locked, Coros
    <3>2. lock'["read"] = lock["read"] /\ lock'["write"].by = lock["write"].by
          /\ lock'["write"].queue = Append(lock["write"].queue, c)
          /\ \A d \in Coros : pc'[d] = (IF d = c THEN "wlock" ELSE pc[d])
      BY <1>2, <2>2 DEF Acquire, Goes, TypeOK
    <3>3. Len(lock'["write"].queue) = 1 /\ lock'["write"].queue[1] = c
      BY <1>1, <3>1, <3>2
    <3> QED BY <1>1, <2>2, <3>2, <3>3, Parameters DEF Locks, LockOK, Locked
  <2> QED BY <2>1, <2>2
<1>3. CASE Acquire(c, "read", "filling", "rlock")
  <2>1. CASE lock["read"].by = None
    <3>1. lock'["write"] = lock["write"] /\ lock'["read"].by = c /\ lock'["read"].queue = lock["read"].queue
          /\ \A d \in Coros : pc'[d] = (IF d = c THEN "filling" ELSE pc[d])
      BY <1>3, <2>1 DEF Acquire, Goes, TypeOK
    <3> QED BY <1>1, <2>1, <3>1, Parameters DEF Locks, LockOK, Locked
  <2>2. CASE lock["read"].by # None
    <3>1. lock["read"].queue = <<>>
      BY <1>1, <2>2, Parameters DEF Locks, LockOK, Locked, Coros
    <3>2. lock'["write"] = lock["write"] /\ lock'["read"].by = lock["read"].by
          /\ lock'["read"].queue = Append(lock["read"].queue, c)
          /\ \A d \in Coros : pc'[d] = (IF d = c THEN "rlock" ELSE pc[d])
      BY <1>3, <2>2 DEF Acquire, Goes, TypeOK
    <3>3. Len(lock'["read"].queue) = 1 /\ lock'["read"].queue[1] = c
      BY <1>1, <3>1, <3>2
    <3> QED BY <1>1, <2>2, <3>2, <3>3, Parameters DEF Locks, LockOK, Locked
  <2> QED BY <2>1, <2>2
<1> QED BY <1>2, <1>3

\* What release does: the waiter, if there is one, has the lock.
HandedOver(c, l, has, p) ==
    /\ \A k \in {"read", "write"} : k # l => lock'[k] = lock[k]
    /\ lock'[l].queue = <<>>
    /\ IF lock[l].queue = <<>> THEN lock'[l].by = None ELSE lock'[l].by = lock[l].queue[1]
    /\ \A d \in Coros : pc'[d] = (IF d = c THEN p
                                  ELSE IF lock[l].queue # <<>> /\ d = lock[l].queue[1] THEN has
                                  ELSE pc[d])
    /\ op' = op

\* release hands the lock over.
LEMMA Handover ==
    ASSUME TypeOK, NEW c \in Coros, NEW l \in {"read", "write"}, NEW has \in Places, NEW p \in Places,
           Len(lock[l].queue) <= 1, Release(c, l, has, p)
    PROVE  HandedOver(c, l, has, p)
<1>1. lock[l].by \in Coros \cup {None} /\ lock[l].queue \in Seq(Coros)
  BY DEF TypeOK
<1>2. CASE lock[l].queue = <<>>
  <2>1. lock' = [lock EXCEPT ![l] = [by |-> None, queue |-> <<>>]]
    BY <1>2 DEF Release
  <2> QED BY <1>1, <1>2, <2>1, Parameters DEF Release, TypeOK, HandedOver
<1>3. CASE lock[l].queue # <<>>
  <2>1. Tail(lock[l].queue) = <<>> /\ Head(lock[l].queue) = lock[l].queue[1]
    BY <1>1, <1>3
  <2>2. lock' = [lock EXCEPT ![l] = [by |-> lock[l].queue[1], queue |-> <<>>]]
    BY <1>3, <2>1 DEF Release
  <2> QED BY <1>1, <1>3, <2>1, <2>2, Parameters DEF Release, TypeOK, HandedOver
<1> QED BY <1>2, <1>3

\* A release keeps the locks consistent.
LEMMA LocksReleased ==
    ASSUME TypeOK, Locks, NEW c \in Coros, NEW p \in Places, p \notin Locked,
           \/ Release(c, "write", "flushing", p) /\ pc[c] \in {"flushing", "writing"}
           \/ Release(c, "read", "filling", p) /\ pc[c] \in {"filling", "reading"}
    PROVE  Locks'
<1>1. ASSUME NEW l \in {"read", "write"}
      PROVE  /\ lock[l].by \in Coros \cup {None} /\ lock[l].queue \in Seq(Coros)
             /\ lock[l].queue # <<>> => lock[l].queue[1] \in Coros
  BY DEF TypeOK
<1>2. CASE Release(c, "write", "flushing", p) /\ pc[c] \in {"flushing", "writing"}
  <2>1. Len(lock["write"].queue) <= 1
    BY DEF Locks, LockOK
  <2>2. HandedOver(c, "write", "flushing", p)
    BY <1>2, <2>1, Handover DEF Places
  <2> QED BY <1>1, <1>2, <2>2, Parameters DEF Locks, LockOK, Locked, HandedOver
<1>3. CASE Release(c, "read", "filling", p) /\ pc[c] \in {"filling", "reading"}
  <2>1. Len(lock["read"].queue) <= 1
    BY DEF Locks, LockOK
  <2>2. HandedOver(c, "read", "filling", p)
    BY <1>3, <2>1, Handover DEF Places
  <2> QED BY <1>1, <1>3, <2>2, Parameters DEF Locks, LockOK, Locked, HandedOver
<1> QED BY <1>2, <1>3

\* The waiter that is cancelled was the only one.
LEMMA LocksCancelled ==
    ASSUME TypeOK, Locks, NEW c \in Coros, NEW l \in {"read", "write"},
           pc[c] = (IF l = "read" THEN "rlock" ELSE "wlock"), CancelWaiter(c, l)
    PROVE  Locks'
<1>1. PICK q \in Seq(Coros) : q = lock[l].queue
  BY DEF TypeOK
<1>2. \A k \in {"read", "write"} :
        /\ lock[k].by \in Coros \cup {None} /\ lock[k].queue \in Seq(Coros)
        /\ lock[k].queue # <<>> => lock[k].queue[1] \in Coros
  BY DEF TypeOK
<1>3. Len(q) <= 1
  BY <1>1 DEF Locks, LockOK
<1>4. lock' = [lock EXCEPT ![l].queue = <<>>]
  <2>1. \E i \in 1..Len(q) : lock' = [lock EXCEPT ![l].queue = SubSeq(q, 1, i - 1) \o SubSeq(q, i + 1, Len(q))]
    BY <1>1 DEF CancelWaiter
  <2>2. \A i \in 1..Len(q) : SubSeq(q, 1, i - 1) \o SubSeq(q, i + 1, Len(q)) = <<>>
    BY <1>3
  <2> QED BY <2>1, <2>2
<1>5. /\ \A k \in {"read", "write"} : k # l => lock'[k] = lock[k]
      /\ lock'[l].by = lock[l].by /\ lock'[l].queue = <<>>
  BY <1>4 DEF TypeOK
<1>6. \A d \in Coros : pc'[d] = (IF d = c THEN "raise" ELSE pc[d])
  BY DEF CancelWaiter, Goes, TypeOK
<1>7. CASE l = "write"
  BY <1>2, <1>5, <1>6, <1>7, Parameters DEF Locks, LockOK, Locked
<1>8. CASE l = "read"
  BY <1>2, <1>5, <1>6, <1>8, Parameters DEF Locks, LockOK, Locked
<1> QED BY <1>7, <1>8

\* A waiter that is handed the lock goes on in the same operation.
LEMMA ControlReleased ==
    ASSUME TypeOK, ControlOK, NEW c \in Coros, NEW p, UNCHANGED <<config, conn, next>>,
           \/ /\ Release(c, "write", "flushing", p) /\ pc[c] \in {"flushing", "writing"}
              /\ p \in {"next", "raise"}
           \/ /\ Release(c, "read", "filling", p) /\ pc[c] \in {"filling", "reading"}
              /\ p \in {next[c], "raise"}
    PROVE  ControlOK'
<1>0. pc[c] \in Fills => next[c] \in {"call", "renew", "notify"}
  BY DEF ControlOK, CoroOK
<1>1. CoroTypes /\ Locks /\ p \in Places /\ p \notin Locked
  BY <1>0, TypeParts DEF ControlOK, Locks, Places, Locked, Fills
<1>2. Locks'
  BY <1>1, LocksReleased
<1>3. ASSUME NEW l \in {"write", "read"}, NEW has, NEW waits, HandedOver(c, l, has, p),
             \/ has = "flushing" /\ waits = "wlock" /\ pc[c] \in {"flushing", "writing"} /\ p \in {"next", "raise"}
             \/ has = "filling" /\ waits = "rlock" /\ pc[c] \in {"filling", "reading"} /\ p \in {next[c], "raise"},
             lock[l].queue # <<>> => pc[lock[l].queue[1]] = waits
      PROVE  \A d \in Coros : CoroOK(d)'
  <2> TAKE d \in Coros
  <2>1. /\ op'[d] = op[d] /\ next'[d] = next[d] /\ CoroOK(d)
        /\ \/ d = c /\ pc'[d] = p
           \/ d # c /\ pc[d] = waits /\ pc'[d] = has
           \/ d # c /\ pc'[d] = pc[d]
    BY <1>3 DEF HandedOver, ControlOK
  <2>2. CASE d = c /\ pc'[d] = p
    <3>1. CASE pc[c] \in {"flushing", "writing"} /\ p \in {"next", "raise"}
      BY <2>1, <2>2, <3>1 DEF CoroOK, Flushes, Fills, openssl, custom
    <3>2. CASE pc[c] \in {"filling", "reading"} /\ p = "raise"
      BY <2>1, <2>2, <3>2 DEF CoroOK, Flushes, Fills, openssl, custom
    <3>3. CASE pc[c] \in {"filling", "reading"} /\ p = next[c]
      BY <1>0, <1>1, <2>1, <2>2, <3>3 DEF CoroOK, CoroTypes, Flushes, Fills, openssl, custom
    <3> QED BY <1>3, <3>1, <3>2, <3>3
  <2>3. CASE d # c /\ pc[d] = waits /\ pc'[d] = has
    BY <1>3, <2>1, <2>3 DEF CoroOK, Flushes, Fills, openssl, custom
  <2>4. CASE d # c /\ pc'[d] = pc[d]
    BY <2>1, <2>4 DEF CoroOK, Flushes, Fills, openssl, custom
  <2> QED BY <2>1, <2>2, <2>3, <2>4
<1>4. \A d \in Coros : CoroOK(d)'
  <2>1. CASE Release(c, "write", "flushing", p) /\ pc[c] \in {"flushing", "writing"} /\ p \in {"next", "raise"}
    <3>1. HandedOver(c, "write", "flushing", p)
      BY <1>1, <2>1, Handover DEF Places, Locks, LockOK
    <3> QED BY <1>1, <1>3, <2>1, <3>1 DEF Locks, LockOK
  <2>2. CASE Release(c, "read", "filling", p) /\ pc[c] \in {"filling", "reading"} /\ p \in {next[c], "raise"}
    <3>1. HandedOver(c, "read", "filling", p)
      BY <1>1, <2>2, Handover DEF Places, Locks, LockOK
    <3> QED BY <1>1, <1>3, <2>2, <3>1 DEF Locks, LockOK
  <2> QED BY <2>1, <2>2
<1> QED BY <1>2, <1>4 DEF ControlOK, Locks

\* One step of a coroutine leaves everyone where they may be.
LEMMA ControlOfStep ==
    ASSUME TypeOK, ControlOK, NEW c \in Coros, Step(c)
    PROVE  ControlOK'
<1> USE DEF Flushes, Fills
<1>0. CoroTypes /\ Locks /\ (ControlOK' <=> Locks' /\ \A d \in Coros : CoroOK(d)')
  BY TypeParts DEF ControlOK, Locks
<1>1. CASE Raises(c)
  <2>1. Locks'
    BY <1>0, <1>1, LocksKept DEF Raises, Runs, Ends, CoroTypes, Places, Locked, buffers
  <2>2. \A d \in Coros : CoroOK(d)'
    BY <1>0, <1>1 DEF Raises, Runs, Ends, CoroOK, ControlOK, CoroTypes, openssl, custom, tls
  <2> QED BY <1>0, <2>1, <2>2
<1>2. CASE FlushAcquire(c)
  <2>1. Locks'
    BY <1>0, <1>2, LocksAcquired DEF FlushAcquire, Runs, Locked
  <2>2. \A d \in Coros : CoroOK(d)'
    BY <1>0, <1>2 DEF FlushAcquire, Runs, Acquire, Goes, CoroOK, ControlOK, CoroTypes, openssl, custom, tls
  <2> QED BY <1>0, <2>1, <2>2
<1>3. CASE FlushStart(c)
  <2>1. CASE \E p \in {"next", "raise"} : Release(c, "write", "flushing", p)
    BY <1>3, <2>1, ControlReleased DEF FlushStart, Runs, tls
  <2>2. CASE Goes(c, "writing") /\ UNCHANGED lock
    <3>1. Locks'
      BY <1>0, <1>3, <2>2, LocksKept DEF FlushStart, Runs, Goes, Places, CoroTypes
    <3>2. \A d \in Coros : CoroOK(d)'
      BY <1>0, <1>3, <2>2 DEF FlushStart, Runs, Goes, CoroOK, ControlOK, CoroTypes, openssl, custom, tls
    <3> QED BY <1>0, <3>1, <3>2
  <2> QED BY <1>3, <2>1, <2>2 DEF FlushStart
<1>4. CASE FlushDone(c)
  <2>1. CASE \E p \in {"next", "raise"} : Release(c, "write", "flushing", p)
    BY <1>4, <2>1, ControlReleased DEF FlushDone, Runs, tls
  <2> QED BY <1>4, <2>1 DEF FlushDone
<1>5. CASE ReadAcquire(c)
  <2>1. Locks'
    BY <1>0, <1>5, LocksAcquired DEF ReadAcquire, Runs, Locked
  <2>2. \A d \in Coros : CoroOK(d)'
    BY <1>0, <1>5 DEF ReadAcquire, Runs, Acquire, Goes, CoroOK, ControlOK, CoroTypes, openssl, custom, tls
  <2> QED BY <1>0, <2>1, <2>2
<1>6. CASE ReadStart(c)
  <2>1. CASE \E p \in {next[c], "raise"} : Release(c, "read", "filling", p)
    BY <1>6, <2>1, ControlReleased DEF ReadStart, Runs, tls
  <2>2. CASE Goes(c, "reading") /\ UNCHANGED lock
    <3>1. Locks'
      BY <1>0, <1>6, <2>2, LocksKept DEF ReadStart, Runs, Goes, Places, CoroTypes
    <3>2. \A d \in Coros : CoroOK(d)'
      BY <1>0, <1>6, <2>2 DEF ReadStart, Runs, Goes, CoroOK, ControlOK, CoroTypes, openssl, custom, tls
    <3> QED BY <1>0, <3>1, <3>2
  <2> QED BY <1>6, <2>1, <2>2 DEF ReadStart
<1>7. CASE ReadDone(c)
  <2>1. CASE \E p \in {next[c], "raise"} : Release(c, "read", "filling", p)
    BY <1>7, <2>1, ControlReleased DEF ReadDone, Runs, tls
  <2> QED BY <1>7, <2>1 DEF ReadDone
<1>8. CASE Continue(c)
  <2>1. Locks'
    BY <1>0, <1>8, LocksKept DEF Continue, Runs, GoesOn, FlushThen, FillThen, Goes, Ends, CoroTypes, Places, Locked, buffers
  <2>2. \A d \in Coros : CoroOK(d)'
    BY <1>0, <1>8 DEF Continue, Runs, GoesOn, FlushThen, FillThen, Goes, Ends, CoroOK, ControlOK, CoroTypes, openssl, custom, tls
  <2> QED BY <1>0, <2>1, <2>2
<1>9. CASE ShutdownStart(c)
  <2>1. Locks'
    BY <1>0, <1>9, LocksKept DEF ShutdownStart, Runs, GoesOn, FlushThen, FillThen, Goes, Ends, CoroTypes, Places, Locked, buffers
  <2>2. \A d \in Coros : CoroOK(d)'
    BY <1>0, <1>9 DEF ShutdownStart, Runs, GoesOn, FlushThen, FillThen, Goes, Ends, CoroOK, ControlOK, CoroTypes, openssl, custom, tls
  <2> QED BY <1>0, <2>1, <2>2
<1>10. CASE ssl_connect(c)
  <2>1. Locks'
    BY <1>0, <1>10, LocksKept DEF ssl_connect, Runs, BioWrite, WantRead, GoesOn, FlushThen, FillThen, Goes, CoroTypes, Places, Locked, buffers
  <2>2. \A d \in Coros : CoroOK(d)'
    BY <1>0, <1>10 DEF ssl_connect, Runs, BioWrite, WantRead, GoesOn, FlushThen, FillThen, Goes, CoroOK, ControlOK, CoroTypes, openssl, custom, tls
  <2> QED BY <1>0, <2>1, <2>2
<1>11. CASE ssl_read(c)
  <2>1. Locks'
    BY <1>0, <1>11, LocksKept DEF ssl_read, Runs, BioWrite, WantRead, GoesOn, FlushThen, FillThen, Goes, CoroTypes, Places, Locked, buffers
  <2>2. \A d \in Coros : CoroOK(d)'
    BY <1>0, <1>11 DEF ssl_read, Runs, BioWrite, WantRead, GoesOn, FlushThen, FillThen, Goes, CoroOK, ControlOK, CoroTypes, openssl, custom, tls
  <2> QED BY <1>0, <2>1, <2>2
<1>12. CASE ssl_write(c)
  <2>1. Locks'
    BY <1>0, <1>12, LocksKept DEF ssl_write, Runs, BioWrite, WantRead, GoesOn, FlushThen, FillThen, Goes, CoroTypes, Places, Locked, buffers
  <2>2. \A d \in Coros : CoroOK(d)'
    BY <1>0, <1>12 DEF ssl_write, Runs, BioWrite, WantRead, GoesOn, FlushThen, FillThen, Goes, CoroOK, ControlOK, CoroTypes, openssl, custom, tls
  <2> QED BY <1>0, <2>1, <2>2
<1>13. CASE ssl_shutdown(c)
  <2>1. Locks'
    BY <1>0, <1>13, LocksKept DEF ssl_shutdown, Runs, BioWrite, WantRead, GoesOn, FlushThen, FillThen, Goes, CoroTypes, Places, Locked, buffers
  <2>2. \A d \in Coros : CoroOK(d)'
    BY <1>0, <1>13 DEF ssl_shutdown, Runs, BioWrite, WantRead, GoesOn, FlushThen, FillThen, Goes, CoroOK, ControlOK, CoroTypes, openssl, custom, tls
  <2> QED BY <1>0, <2>1, <2>2
<1>14. CASE schannel_connect(c)
  <2>1. Locks'
    BY <1>0, <1>14, LocksKept DEF schannel_connect, Runs, ConnectFirst, ConnectMore, AcceptIncomplete, AcceptFirst, Token, GoesOn, FlushThen, FillThen, Goes, CoroTypes, Places, Locked, buffers
  <2>2. \A d \in Coros : CoroOK(d)'
    BY <1>0, <1>14 DEF schannel_connect, Runs, ConnectFirst, ConnectMore, AcceptIncomplete, AcceptFirst, Token, GoesOn, FlushThen, FillThen, Goes, CoroOK, ControlOK, CoroTypes, openssl, custom, tls
  <2> QED BY <1>0, <2>1, <2>2
<1>15. CASE schannel_verify(c)
  <2>1. Locks'
    BY <1>0, <1>15, LocksKept DEF schannel_verify, Runs, Ends, CoroTypes, Places, Locked, buffers
  <2>2. \A d \in Coros : CoroOK(d)'
    BY <1>0, <1>15 DEF schannel_verify, Runs, Ends, CoroOK, ControlOK, CoroTypes, openssl, custom, tls
  <2> QED BY <1>0, <2>1, <2>2
<1>16. CASE schannel_read(c)
  <2>1. Locks'
    BY <1>0, <1>16, LocksKept DEF schannel_read, Runs, GoesOn, FlushThen, FillThen, Goes, Ends, CoroTypes, Places, Locked, buffers
  <2>2. \A d \in Coros : CoroOK(d)'
    BY <1>0, <1>16 DEF schannel_read, Runs, GoesOn, FlushThen, FillThen, Goes, Ends, CoroOK, ControlOK, CoroTypes, openssl, custom, tls
  <2> QED BY <1>0, <2>1, <2>2
<1>17. CASE schannel_write(c)
  <2>1. Locks'
    BY <1>0, <1>17, LocksKept DEF schannel_write, Runs, GoesOn, FlushThen, FillThen, Goes, CoroTypes, Places, Locked, buffers
  <2>2. \A d \in Coros : CoroOK(d)'
    BY <1>0, <1>17 DEF schannel_write, Runs, GoesOn, FlushThen, FillThen, Goes, CoroOK, ControlOK, CoroTypes, openssl, custom, tls
  <2> QED BY <1>0, <2>1, <2>2
<1>18. CASE schannel_shutdown(c)
  <2>1. Locks'
    BY <1>0, <1>18, LocksKept DEF schannel_shutdown, Runs, Token, GoesOn, FlushThen, FillThen, Goes, CoroTypes, Places, Locked, buffers
  <2>2. \A d \in Coros : CoroOK(d)'
    BY <1>0, <1>18 DEF schannel_shutdown, Runs, Token, GoesOn, FlushThen, FillThen, Goes, CoroOK, ControlOK, CoroTypes, openssl, custom, tls
  <2> QED BY <1>0, <2>1, <2>2
<1>19. CASE schannel_renew(c)
  <2>1. Locks'
    BY <1>0, <1>19, LocksKept DEF schannel_renew, Runs, Token, GoesOn, FlushThen, FillThen, Goes, CoroTypes, Places, Locked, buffers
  <2>2. \A d \in Coros : CoroOK(d)'
    BY <1>0, <1>19 DEF schannel_renew, Runs, Token, GoesOn, FlushThen, FillThen, Goes, CoroOK, ControlOK, CoroTypes, openssl, custom, tls
  <2> QED BY <1>0, <2>1, <2>2
<1> QED BY <1>1, <1>2, <1>3, <1>4, <1>5, <1>6, <1>7, <1>8, <1>9, <1>10, <1>11, <1>12, <1>13, <1>14, <1>15, <1>16, <1>17, <1>18, <1>19 DEF Step

\* A constructor ends in one of three ways.
LEMMA ConstructorOutcome ==
    ASSUME openssl_from_pair \/ schannel_client_from_pair \/ schannel_server_from_pair
    PROVE  Constructs /\ \E r : Constructed(r)
<1>1. CASE openssl_from_pair
  BY <1>1 DEF openssl_from_pair, Constructed
<1>2. CASE schannel_client_from_pair
  BY <1>2 DEF schannel_client_from_pair, Constructed
<1>3. CASE schannel_server_from_pair
  BY <1>3 DEF schannel_server_from_pair, Constructed
<1> QED BY <1>1, <1>2, <1>3

\* Every step leaves everyone where they may be.
LEMMA ControlStep ==
    ASSUME TypeOK, ControlOK, [Next]_vars
    PROVE  ControlOK'
<1>0. CoroTypes /\ Locks /\ (ControlOK' <=> Locks' /\ \A d \in Coros : CoroOK(d)')
  BY TypeParts DEF ControlOK, Locks
<1>1. CASE UNCHANGED <<config, conn, lock, op, pc, next>>
  BY <1>1 DEF ControlOK, LockOK, CoroOK, openssl, custom
<1>2. ASSUME NEW c \in Coros, Step(c) PROVE ControlOK'
  BY <1>2, ControlOfStep
<1>3. ASSUME NEW c \in Coros, TransportFails(c) \/ Cancel(c) PROVE ControlOK'
  <2>1. CASE \/ Runs(c, "wlock") /\ CancelWaiter(c, "write")
             \/ Runs(c, "rlock") /\ CancelWaiter(c, "read")
    <3>1. Locks'
      BY <1>0, <2>1, LocksCancelled DEF Runs
    <3>2. \A d \in Coros : CoroOK(d)'
      <4>1. \A d \in Coros : pc'[d] = (IF d = c THEN "raise" ELSE pc[d])
        BY <1>0, <2>1 DEF CancelWaiter, Goes, CoroTypes
      <4>2. UNCHANGED <<config, conn, op, next>> /\ pc[c] \in {"wlock", "rlock"}
        BY <2>1 DEF CancelWaiter, Goes, Runs, tls
      <4>3. \A d \in Coros : CoroOK(d)
        BY DEF ControlOK
      <4> QED BY <4>1, <4>2, <4>3 DEF CoroOK, Flushes, Fills, openssl, custom
    <3> QED BY <1>0, <3>1, <3>2
  <2>2. CASE Runs(c, "writing") /\ FlushFails(c)
    BY <2>2, ControlReleased DEF Runs, FlushFails, tls
  <2>3. CASE Runs(c, "reading") /\ ReadFails(c)
    BY <2>3, ControlReleased DEF Runs, ReadFails, tls
  <2> QED BY <1>3, <2>1, <2>2, <2>3 DEF TransportFails, Cancel
<1>4. CASE openssl_from_pair \/ schannel_client_from_pair \/ schannel_server_from_pair
  <2>1. Constructs /\ \E r : Constructed(r)
    BY <1>4, ConstructorOutcome
  <2>2. conn = "new" /\ conn' # "open" /\ config' = config /\ lock' = lock /\ next' = next
        /\ \/ UNCHANGED <<op, pc>>
           \/ /\ conn' = "handshake" /\ op' = [op EXCEPT !["writer"] = "connect"]
              /\ pc' = [pc EXCEPT !["writer"] = "call"]
    BY <2>1 DEF Constructs, Constructed, Handshake, Refuse, coros, buffers
  <2>3. \A d \in Coros : op[d] = "idle" /\ pc[d] = "idle"
    BY <1>0, <2>2 DEF ControlOK, CoroOK, CoroTypes
  <2>4. Locks'
    <3>1. CASE UNCHANGED pc
      BY <1>0, <2>2, <3>1 DEF Locks, LockOK
    <3>2. CASE pc' = [pc EXCEPT !["writer"] = "call"]
      BY <1>0, <2>2, <2>3, <3>2, LocksKept DEF Coros, Places, Locked, CoroTypes
    <3> QED BY <2>2, <3>1, <3>2
  <2>5. \A d \in Coros : CoroOK(d)'
    BY <1>0, <2>2, <2>3 DEF CoroOK, CoroTypes, Coros, Flushes, Fills
  <2> QED BY <1>0, <2>4, <2>5
<1>5. CASE Read \/ Write \/ Shutdown
  <2>1. PICK c \in Coros, o \in {"read", "write", "shutdown"}, p \in {"call", "shut"} :
            /\ Begins(c, o, p) /\ (c = "reader" <=> o = "read") /\ (p = "shut" <=> o = "shutdown")
    BY <1>5 DEF Read, Write, Shutdown, Coros
  <2>2. pc[c] = "idle"
    BY <2>1 DEF Begins, ControlOK, CoroOK
  <2>3. Locks'
    BY <1>0, <2>1, <2>2, LocksKept DEF Begins, Locked, Places, CoroTypes, buffers
  <2>4. \A d \in Coros : CoroOK(d)'
    BY <1>0, <2>1 DEF Begins, CoroOK, ControlOK, CoroTypes, Flushes, Fills, openssl, custom, tls, Coros
  <2> QED BY <1>0, <2>3, <2>4
<1>6. CASE close
  <2>1. Locks'
    BY <1>0, <1>6 DEF close, Locks, LockOK, coros
  <2>2. \A d \in Coros : op[d] = "idle" /\ pc[d] = "idle"
    BY <1>6 DEF close, ControlOK, CoroOK
  <2>3. \A d \in Coros : CoroOK(d)'
    BY <1>6, <2>2 DEF close, CoroOK, Flushes, Fills, coros
  <2> QED BY <1>0, <2>1, <2>3
<1>7. CASE UNCHANGED vars \/ PeerSends \/ \E c \in Coros : Transmit(c)
  BY <1>1, <1>7 DEF vars, PeerSends, Transmit, tls, buffers, coros
<1> QED BY <1>2, <1>3, <1>4, <1>5, <1>6, <1>7 DEF Next

-----------------------------------------------------------------------------
(* What a connection holds. *)

\* The ledger after a call, resource by resource.
Entries(r, took, gave, new) ==
    \A x \in Resources :
        /\ x \notin took /\ x \notin gave => new[x] = r[x]
        /\ x \in took /\ x \notin gave /\ r[x] = "none" => new[x] = "live"
        /\ x \notin took /\ x \in gave /\ r[x] = "live" => new[x] = "none"
        /\ x \in took /\ x \in gave /\ r[x] = "none" => new[x] = "none"

\* Ledger, entry by entry.
LEMMA LedgerEntries ==
    ASSUME NEW r, NEW call
    PROVE  Entries(r, call.took, call.gave, Ledger(r, call))
<1> SUFFICES ASSUME NEW x \in Resources
             PROVE  /\ x \notin call.took /\ x \notin call.gave => Ledger(r, call)[x] = r[x]
                    /\ x \in call.took /\ x \notin call.gave /\ r[x] = "none" => Ledger(r, call)[x] = "live"
                    /\ x \notin call.took /\ x \in call.gave /\ r[x] = "live" => Ledger(r, call)[x] = "none"
                    /\ x \in call.took /\ x \in call.gave /\ r[x] = "none" => Ledger(r, call)[x] = "none"
  BY DEF Entries
<1> QED BY DEF Ledger

\* close and a constructor that raises leave nothing.
LEMMA FreesAll ==
    ASSUME NEW r, Holds(r, cstate)
    PROVE  HoldsNothing(FreeAll(r))
<1>1. CASE openssl
  <2>1. Live(r) \cap {"ctx"} = (IF r["ctx"] = "live" THEN {"ctx"} ELSE {})
    BY DEF Live, Resources
  <2> QED BY <1>1, <2>1 DEF Holds, HoldsNothing, FreeAll, ssl_free, Succeeds, Ledger, Resources, Live
<1>2. CASE ~openssl
  BY <1>2 DEF Holds, HoldsNothing, FreeAll, schannel_free, Succeeds, Ledger, Resources, Live
<1> QED BY <1>1, <1>2

\* The second half of verify_peer_certificate: whatever it finds, it gives back all but the engine.
LEMMA VerifyHolds ==
    ASSUME NEW r, Holds(r, cstate), ~openssl, NEW trusted \in BOOLEAN, NEW call \in verify_peer_certificate(r, trusted)
    PROVE  Holds(Ledger(r, call), cstate)
<1>1. /\ call.took \subseteq {"cert", "chain", "engine"}
      /\ call.gave = call.took \ {"engine"}
      /\ "engine" \in call.took => r["engine"] # "live"
  BY DEF verify_peer_certificate, get_or_create, Live, Resources, Succeeds, Fails
<1>2. Entries(r, call.took, call.gave, Ledger(r, call))
  BY LedgerEntries
<1> QED BY <1>1, <1>2 DEF Holds, Entries, Resources

\* openssl.mbt: a connection, or nothing.
LEMMA OpensslConstructor ==
    ASSUME TypeOK, HeldOK, openssl_from_pair
    PROVE  HeldOK'
<1>1. conn = "new" /\ openssl /\ HoldsNothing(res) /\ hs = "start" /\ hs' = hs /\ openssl'
  BY DEF openssl_from_pair, Constructs, HeldOK, openssl, library
<1>2. PICK ctx \in IF custom THEN client_ctx ELSE {Nothing},
           root \in IF custom THEN ssl_ctx_add_root_certificate ELSE {Nothing}, accepted \in BOOLEAN :
        LET r1 == Ledger(res, ctx)
            r2 == Ledger(r1, root)
            r3 == Ledger(r2, ssl_new)
        IN IF ~ctx.ok THEN Refuse(r1)
           ELSE IF ~root.ok THEN Refuse(Ledger(r2, Succeeds({}, {"ctx"})))
           ELSE IF ~accepted THEN Refuse(FreeAll(r3))
           ELSE Handshake(r3) /\ UNCHANGED cstate
  BY DEF openssl_from_pair
<1> DEFINE r1 == Ledger(res, ctx)
           r2 == Ledger(r1, root)
           r3 == Ledger(r2, ssl_new)
<1>3. CASE ~ctx.ok
  <2>1. HoldsNothing(r1)
    <3>1. ctx.took = {} /\ ctx.gave = {}
      BY <1>2, <1>3 DEF client_ctx, Nothing, Succeeds, Fails
    <3> QED BY <1>1, <3>1, LedgerEntries DEF HoldsNothing, Entries
  <2> QED BY <1>2, <1>3, <2>1 DEF Refuse, HeldOK, HoldsNothing
<1>4. CASE ctx.ok
  <2>1. /\ r1["ctx"] = (IF custom THEN "live" ELSE "none")
        /\ \A x \in Resources \ {"ctx"} : r1[x] = "none"
    <3>1. ctx.took = (IF custom THEN {"ctx"} ELSE {}) /\ ctx.gave = {}
      BY <1>2, <1>4 DEF client_ctx, Nothing, Succeeds, Fails
    <3> QED BY <1>1, <3>1, LedgerEntries DEF HoldsNothing, Entries, Resources
  <2> HIDE DEF r1
  <2>2. \A x \in Resources : r2[x] = r1[x]
    <3>1. root.took \subseteq {"cert"} /\ root.gave = root.took
      BY <1>2 DEF ssl_ctx_add_root_certificate, Nothing, Succeeds, Fails
    <3> QED BY <2>1, <3>1, LedgerEntries DEF Entries, Resources
  <2> HIDE DEF r2
  <2>3. CASE ~root.ok
    <3>1. custom
      BY <1>2, <2>3 DEF Nothing, Succeeds
    <3>2. HoldsNothing(Ledger(r2, Succeeds({}, {"ctx"})))
      BY <2>1, <2>2, <3>1 DEF HoldsNothing, Succeeds, Ledger, Resources
    <3> QED BY <1>2, <1>4, <2>3, <3>2 DEF Refuse, HeldOK, HoldsNothing, r1, r2
  <2>4. CASE root.ok
    <3>1. Holds(r3, cstate)
      <4>1. Entries(r2, {"ssl", "bio"}, {}, r3)
        BY LedgerEntries DEF ssl_new, Succeeds, Fails
      <4> QED BY <1>1, <2>1, <2>2, <4>1 DEF Holds, Entries, Resources
    <3>2. CASE ~accepted
      BY <1>2, <1>4, <2>4, <3>1, <3>2, FreesAll DEF Refuse, HeldOK, HoldsNothing, r1, r2
    <3>3. CASE accepted
      BY <1>1, <1>2, <1>4, <2>4, <3>1, <3>3 DEF Handshake, HeldOK, Holds, r1, r2
    <3> QED BY <3>2, <3>3
  <2> QED BY <2>3, <2>4
<1> QED BY <1>3, <1>4

\* schannel.mbt, a client.
LEMMA SchannelClient ==
    ASSUME TypeOK, HeldOK, schannel_client_from_pair
    PROVE  HeldOK'
<1>1. conn = "new" /\ ~openssl /\ HoldsNothing(res) /\ hs = "start" /\ hs' = hs /\ ~openssl'
  BY DEF schannel_client_from_pair, Constructs, HeldOK, openssl, library
<1> DEFINE r0 == Ledger(res, schannel_new)
<1>2. PICK init \in init_client :
        LET r1 == Ledger(r0, init)
        IN IF ~init.ok THEN Refuse(Ledger(r1, schannel_free(r1, "Uninitialized")))
           ELSE \E root \in IF custom THEN schannel_add_root_certificate(r1) ELSE {Nothing} :
                  LET r2 == Ledger(r1, root)
                  IN IF root.ok THEN Handshake(r2) /\ cstate' = "Handle"
                     ELSE Refuse(Ledger(r2, schannel_free(r2, "Handle")))
  BY DEF schannel_client_from_pair
<1>3. r0["ctx"] = "live" /\ \A x \in Resources \ {"ctx"} : r0[x] = "none"
  <2>1. Entries(res, {"ctx"}, {}, r0)
    BY LedgerEntries DEF schannel_new, Succeeds, Fails
  <2> QED BY <1>1, <2>1 DEF HoldsNothing, Entries, Resources
<1> HIDE DEF r0
<1> DEFINE r1 == Ledger(r0, init)
<1>4. CASE ~init.ok
  <2>1. \A x \in Resources : r1[x] = r0[x]
    <3>1. init.took = {} /\ init.gave = {}
      BY <1>2, <1>4 DEF init_client, Succeeds, Fails
    <3> QED BY <3>1, LedgerEntries DEF Entries
  <2> HIDE DEF r1
  <2>2. HoldsNothing(Ledger(r1, schannel_free(r1, "Uninitialized")))
    BY <1>3, <2>1 DEF HoldsNothing, schannel_free, Succeeds, Ledger, Resources, Live
  <2> QED BY <1>2, <1>4, <2>2 DEF Refuse, HeldOK, HoldsNothing, r1
<1>5. CASE init.ok
  <2>1. Holds(r1, "Handle")
    <3>1. init.took = {"cred"} /\ init.gave = {}
      BY <1>2, <1>5 DEF init_client, Succeeds, Fails
    <3>2. Entries(r0, {"cred"}, {}, r1)
      BY <3>1, LedgerEntries
    <3> QED BY <1>1, <1>3, <3>2 DEF Holds, Entries, Resources
  <2> HIDE DEF r1
  <2>2. PICK root \in IF custom THEN schannel_add_root_certificate(r1) ELSE {Nothing} :
          LET r2 == Ledger(r1, root)
          IN IF root.ok THEN Handshake(r2) /\ cstate' = "Handle"
             ELSE Refuse(Ledger(r2, schannel_free(r2, "Handle")))
    BY <1>2, <1>5 DEF r1
  <2> DEFINE r2 == Ledger(r1, root)
  <2>3. Holds(r2, "Handle")
    <3>1. /\ root.took \subseteq {"cert", "store"} /\ root.gave \subseteq {"cert", "engine"}
          /\ "cert" \in root.took <=> "cert" \in root.gave
          /\ "store" \in root.took => r1["store"] # "live"
          /\ "engine" \in root.gave => r1["engine"] = "live"
      BY <2>2 DEF schannel_add_root_certificate, get_or_create, Nothing, Live, Resources, Succeeds, Fails
    <3>2. Entries(r1, root.took, root.gave, r2)
      BY LedgerEntries
    <3> QED BY <1>1, <2>1, <3>1, <3>2 DEF Holds, Entries, Resources
  <2> HIDE DEF r2
  <2>4. HoldsNothing(Ledger(r2, schannel_free(r2, "Handle")))
    BY <1>1, <2>3 DEF Holds, HoldsNothing, schannel_free, Succeeds, Ledger, Resources, Live
  <2> QED BY <1>1, <2>2, <2>3, <2>4 DEF Refuse, Handshake, HeldOK, HoldsNothing, Holds, r2
<1> QED BY <1>4, <1>5

\* schannel.mbt, a server.
LEMMA SchannelServer ==
    ASSUME TypeOK, HeldOK, schannel_server_from_pair
    PROVE  HeldOK'
<1>1. conn = "new" /\ ~openssl /\ HoldsNothing(res) /\ hs = "start" /\ hs' = hs /\ ~openssl'
  BY DEF schannel_server_from_pair, Constructs, HeldOK, openssl, library
<1> DEFINE r0 == Ledger(res, schannel_new)
<1>2. r0["ctx"] = "live" /\ \A x \in Resources \ {"ctx"} : r0[x] = "none"
  <2>1. Entries(res, {"ctx"}, {}, r0)
    BY LedgerEntries DEF schannel_new, Succeeds, Fails
  <2> QED BY <1>1, <2>1 DEF HoldsNothing, Entries, Resources
<1>3. \/ conn' = "unread" /\ res' = r0
      \/ \E init \in init_server :
           LET r1 == Ledger(r0, init)
           IN IF init.ok THEN Handshake(r1) /\ cstate' = "Handle"
              ELSE Refuse(Ledger(r1, schannel_free(r1, "Uninitialized")))
  BY DEF schannel_server_from_pair
<1> HIDE DEF r0
<1>4. CASE conn' = "unread" /\ res' = r0
  BY <1>2, <1>4 DEF HeldOK
<1>5. ASSUME NEW init \in init_server, ~init.ok,
             Refuse(Ledger(Ledger(r0, init), schannel_free(Ledger(r0, init), "Uninitialized")))
      PROVE  HeldOK'
  <2> DEFINE r1 == Ledger(r0, init)
  <2>1. init.took \subseteq {"pfx", "cert"} /\ init.gave = init.took
    BY <1>5 DEF init_server, Succeeds, Fails
  <2>2. \A x \in Resources : r1[x] = r0[x]
    BY <1>2, <2>1, LedgerEntries DEF Entries, Resources
  <2> HIDE DEF r1
  <2>3. HoldsNothing(Ledger(r1, schannel_free(r1, "Uninitialized")))
    BY <1>2, <2>2 DEF HoldsNothing, schannel_free, Succeeds, Ledger, Resources, Live
  <2> QED BY <1>5, <2>3 DEF Refuse, HeldOK, HoldsNothing, r1
<1>6. ASSUME NEW init \in init_server, init.ok, Handshake(Ledger(r0, init)), cstate' = "Handle"
      PROVE  HeldOK'
  <2> DEFINE r1 == Ledger(r0, init)
  <2>1. init.took = {"pfx", "cert", "cred"} /\ init.gave = {"pfx", "cert"}
    BY <1>6 DEF init_server, Succeeds, Fails
  <2>2. Entries(r0, {"pfx", "cert", "cred"}, {"pfx", "cert"}, r1)
    BY <2>1, LedgerEntries
  <2>3. Holds(r1, "Handle")
    BY <1>1, <1>2, <2>2 DEF Holds, Entries, Resources
  <2> QED BY <1>1, <1>6, <2>3 DEF Handshake, HeldOK, Holds
<1> QED BY <1>3, <1>4, <1>5, <1>6

\* The steps that neither create, end nor advance a connection.
Uses(c) ==
    \/ FlushAcquire(c) \/ FlushStart(c) \/ FlushDone(c) \/ ReadAcquire(c) \/ ReadStart(c) \/ ReadDone(c)
    \/ ShutdownStart(c) \/ ssl_read(c) \/ ssl_write(c) \/ ssl_shutdown(c)
    \/ schannel_read(c) \/ schannel_renew(c) \/ schannel_write(c) \/ schannel_shutdown(c)
    \/ Transmit(c) \/ TransportFails(c) \/ Cancel(c)

\* They leave the connection and its handshake alone.
LEMMA UsesKeep ==
    ASSUME NEW c, Uses(c)
    PROVE  UNCHANGED <<config, conn, res, cstate, hs>>
<1>1. CASE \/ FlushAcquire(c) \/ FlushStart(c) \/ FlushDone(c) \/ ReadAcquire(c) \/ ReadStart(c) \/ ReadDone(c)
  BY <1>1 DEF FlushAcquire, FlushStart, FlushDone, ReadAcquire, ReadStart, ReadDone, tls, library
<1>2. CASE ShutdownStart(c) \/ ssl_read(c) \/ ssl_write(c) \/ ssl_shutdown(c)
  BY <1>2 DEF ShutdownStart, ssl_read, ssl_write, ssl_shutdown, tls, library
<1>3. CASE schannel_read(c) \/ schannel_renew(c) \/ schannel_write(c) \/ schannel_shutdown(c)
  BY <1>3 DEF schannel_read, schannel_renew, schannel_write, schannel_shutdown, tls, library
<1>4. CASE Transmit(c) \/ TransportFails(c) \/ Cancel(c)
  BY <1>4 DEF Transmit, TransportFails, Cancel, FlushFails, ReadFails, CancelWaiter, tls, library
<1> QED BY <1>1, <1>2, <1>3, <1>4 DEF Uses

\* Only these steps do.
LEMMA NextSteps ==
    ASSUME [Next]_vars
    PROVE  \/ \E c \in Coros : Uses(c)
           \/ \E c \in Coros : Raises(c) \/ Continue(c) \/ ssl_connect(c) \/ schannel_connect(c) \/ schannel_verify(c)
           \/ openssl_from_pair \/ schannel_client_from_pair \/ schannel_server_from_pair
           \/ Read \/ Write \/ Shutdown \/ close \/ PeerSends \/ UNCHANGED vars
BY DEF Next, Step, Uses

\* Every step keeps the account of what is held.
LEMMA HeldStep ==
    ASSUME TypeOK, ControlOK, StartOK, HeldOK, [Next]_vars
    PROVE  HeldOK'
<1>0. TlsTypes /\ CoroTypes
  BY TypeParts
<1>1. CASE UNCHANGED <<config, conn, res, cstate, hs>>
  BY <1>1 DEF HeldOK, Holds, HoldsNothing, openssl
<1>2. ASSUME NEW c \in Coros, Raises(c) PROVE HeldOK'
  <2>1. CASE op[c] = "connect"
    <3>1. Holds(res, cstate)
      BY <2>1 DEF HeldOK, ControlOK, CoroOK
    <3>2. HoldsNothing(FreeAll(res))
      BY <3>1, FreesAll
    <3> QED BY <1>2, <2>1, <3>2 DEF Raises, HeldOK, HoldsNothing
  <2>2. CASE op[c] # "connect"
    BY <1>1, <1>2, <2>2 DEF Raises
  <2> QED BY <2>1, <2>2
<1>3. ASSUME NEW c \in Coros, Continue(c) PROVE HeldOK'
  <2>1. UNCHANGED <<config, res, cstate, hs>>
    BY <1>3 DEF Continue, library
  <2>2. conn' = conn \/ (conn = "handshake" /\ conn' = "open")
    BY <1>3 DEF Continue, ControlOK, CoroOK
  <2> QED BY <1>1, <2>1, <2>2 DEF HeldOK, Holds, openssl
<1>4. ASSUME NEW c \in Coros, ssl_connect(c) PROVE HeldOK'
  <2>1. openssl /\ conn = "handshake" /\ UNCHANGED <<config, conn, res, cstate>>
    BY <1>4 DEF ssl_connect, ControlOK, CoroOK, tls
  <2> QED BY <2>1 DEF HeldOK, Holds, openssl
<1>5. ASSUME NEW c \in Coros, schannel_connect(c) PROVE HeldOK'
  <2>1. ~openssl /\ conn = "handshake" /\ c = "writer" /\ UNCHANGED <<config, conn>> /\ pc[c] = "call"
    BY <1>5 DEF schannel_connect, ControlOK, CoroOK, Runs
  <2>2. Holds(res, cstate) /\ (hs = "start" <=> cstate = "Handle")
    BY <2>1 DEF HeldOK
  <2>3. CASE res' = Ledger(res, Succeeds({"sec"}, {})) /\ cstate' = "Context" /\ hs' # "start" /\ hs = "start"
    <3>1. Entries(res, {"sec"}, {}, res')
      BY <2>3, LedgerEntries DEF Succeeds
    <3>2. Holds(res', "Context")
      BY <2>1, <2>2, <2>3, <3>1 DEF Holds, Entries, Resources
    <3> QED BY <2>1, <2>3, <3>2 DEF HeldOK, Holds, openssl
  <2>4. CASE UNCHANGED <<res, cstate>> /\ (hs' = "start" <=> hs = "start")
    BY <2>1, <2>2, <2>4 DEF HeldOK, Holds, openssl
  <2>5. CASE ConnectFirst(c) \/ ConnectMore(c) \/ AcceptIncomplete(c)
    BY <2>3, <2>4, <2>5 DEF ConnectFirst, ConnectMore, AcceptIncomplete
  <2>6. CASE AcceptFirst(c)
    <3>1. hs = "start"
      BY <2>1, <2>6 DEF AcceptFirst, StartOK, Flushes
    <3> QED BY <2>3, <2>4, <2>6, <3>1 DEF AcceptFirst
  <2> QED BY <1>5, <2>5, <2>6 DEF schannel_connect
<1>6. ASSUME NEW c \in Coros, schannel_verify(c) PROVE HeldOK'
  <2>1. ~openssl /\ conn = "handshake" /\ UNCHANGED <<config, cstate, hs>>
    BY <1>6 DEF schannel_verify, ControlOK, CoroOK, Runs, library
  <2>2. Holds(res, cstate) /\ (hs = "start" <=> cstate = "Handle")
    BY <2>1 DEF HeldOK
  <2>3. PICK call \in verify_peer_certificate(res, hs = "done" /\ peer[1] = "good") :
            IF call.ok THEN conn' = "open" /\ res' = Ledger(res, call)
            ELSE conn' = "failed" /\ res' = FreeAll(Ledger(res, call))
    BY <1>6 DEF schannel_verify
  <2>4. Holds(Ledger(res, call), cstate)
    BY <2>1, <2>2, <2>3, VerifyHolds
  <2>5. HoldsNothing(FreeAll(Ledger(res, call)))
    BY <2>4, FreesAll
  <2> QED BY <2>1, <2>2, <2>3, <2>4, <2>5 DEF HeldOK, Holds, HoldsNothing, openssl
<1>7. CASE openssl_from_pair \/ schannel_client_from_pair \/ schannel_server_from_pair
  BY <1>7, OpensslConstructor, SchannelClient, SchannelServer
<1>8. CASE close
  <2>1. HoldsNothing(FreeAll(res))
    BY <1>8, FreesAll DEF close, HeldOK
  <2> QED BY <1>8, <2>1 DEF close, HeldOK, HoldsNothing
<1>9. CASE Read \/ Write \/ Shutdown \/ PeerSends \/ UNCHANGED vars
  BY <1>1, <1>9 DEF Read, Write, Shutdown, Begins, PeerSends, vars, tls, library
<1> QED BY <1>1, <1>2, <1>3, <1>4, <1>5, <1>6, <1>7, <1>8, <1>9, UsesKeep, NextSteps

\* Nothing leaks and nothing is released twice.
LEMMA HeldMeansNoLeak ==
    ASSUME TypeOK, HeldOK
    PROVE  NoLeak
<1>1. conn \in {"new", "handshake", "open", "failed", "unread", "closed"}
  BY DEF TypeOK
<1>2. CASE conn \in {"new", "failed", "closed"}
  BY <1>2 DEF HeldOK, HoldsNothing, NoLeak, Live
<1>3. CASE conn = "unread"
  BY <1>3 DEF HeldOK, NoLeak
<1>4. CASE conn \in {"handshake", "open"}
  <2>1. Holds(res, cstate)
    BY <1>4 DEF HeldOK
  <2>2. \A r \in Resources : res[r] # "bad"
    BY <2>1 DEF Holds, Resources
  <2> QED BY <1>4, <2>2 DEF NoLeak
<1> QED BY <1>1, <1>2, <1>3, <1>4

-----------------------------------------------------------------------------
(* The stream of records. *)

\* Taking one record more.
LEMMA DataNext ==
    ASSUME NEW k \in Nat
    PROVE  /\ DataSent(k) \in Nat
           /\ DataSent(k + 1) = DataSent(k) + (IF peer[k + 1] = "data" THEN 1 ELSE 0)
<1> DEFINE D(n) == {j \in 1..n : peer[j] = "data"}
<1>1. ASSUME NEW n \in Nat PROVE IsFiniteSet(D(n)) /\ Cardinality(D(n)) \in Nat
  <2>1. IsFiniteSet(1..n)
    BY FS_Interval
  <2>2. IsFiniteSet(D(n))
    BY <2>1, FS_Subset
  <2> QED BY <2>2, FS_CardinalityType
<1>2. CASE peer[k + 1] = "data"
  <2>1. D(k + 1) = D(k) \cup {k + 1} /\ k + 1 \notin D(k)
    BY <1>2
  <2>2. Cardinality(D(k) \cup {k + 1}) = Cardinality(D(k)) + 1
    BY <1>1, <2>1, FS_AddElement
  <2> QED BY <1>1, <1>2, <2>1, <2>2 DEF DataSent
<1>3. CASE peer[k + 1] # "data"
  <2>1. D(k + 1) = D(k)
    BY <1>3
  <2> QED BY <1>1, <1>3, <2>1 DEF DataSent
<1> QED BY <1>2, <1>3

\* Nothing was taken.
LEMMA DataNone ==
    ASSUME NEW k \in Int, k <= 0
    PROVE  DataSent(k) = 0
<1>1. {j \in 1..k : peer[j] = "data"} = {}
  OBVIOUS
<1> QED BY <1>1, FS_EmptySet DEF DataSent

\* What the peer sends later does not change what it sent.
LEMMA DataKept ==
    ASSUME TypeOK, PeerSends, NEW k \in Int, k <= Len(peer)
    PROVE  DataSent(k)' = DataSent(k)
<1>1. PICK r : peer' = Append(peer, r)
  BY DEF PeerSends
<1>2. \A j \in 1..k : peer'[j] = peer[j]
  BY <1>1 DEF TypeOK
<1>3. {j \in 1..k : peer'[j] = "data"} = {j \in 1..k : peer[j] = "data"}
  BY <1>2
<1> QED BY <1>3 DEF DataSent

\* The peer keeps the order of its records.
LEMMA PeerStep ==
    ASSUME TypeOK, PeerOK, PeerSends
    PROVE  PeerOK'
<1>1. PICK r \in MaySend : peer' = Append(peer, r)
  BY DEF PeerSends
<1>2. peer \in Seq(Inbound) /\ Len(peer) \in Nat /\ Len(peer') = Len(peer) + 1 /\ peer'[Len(peer) + 1] = r
      /\ \A i \in 1..Len(peer) : peer'[i] = peer[i]
  BY <1>1 DEF TypeOK
<1>3. r # "junk" /\ (r \in {"good", "bad"} => Len(peer) = 0)
  BY <1>1, <1>2 DEF MaySend
<1>4. \A i \in 1..Len(peer) : peer[i] # "eof"
  <2>1. Len(peer) > 0 => peer[Len(peer)] # "eof"
    BY <1>1, <1>2 DEF MaySend
  <2> QED BY <1>2, <2>1 DEF PeerOK
<1> QED BY <1>2, <1>3, <1>4 DEF PeerOK

\* The peer sends one record more.
LEMMA UnreadSent ==
    ASSUME TypeOK, PeerSends
    PROVE  /\ IncomingOK => IncomingOK'
           /\ IncomingOK /\ ReadBufOK => ReadBufOK'
           /\ Taken' = Taken
<1>1. PICK r : peer' = Append(peer, r) /\ incoming' = Append(incoming, r)
  BY DEF PeerSends
<1>2. /\ peer \in Seq(Inbound) /\ Len(peer) \in Nat /\ Len(incoming) \in Nat /\ Len(rbuf) \in Nat
      /\ Len(peer') = Len(peer) + 1 /\ peer'[Len(peer) + 1] = r
      /\ Len(incoming') = Len(incoming) + 1 /\ incoming'[Len(incoming) + 1] = r
      /\ \A i \in 1..Len(peer) : peer'[i] = peer[i]
      /\ \A i \in 1..Len(incoming) : incoming'[i] = incoming[i]
      /\ rbuf' = rbuf
  BY <1>1 DEF TypeOK, PeerSends, buffers
<1>3. Taken' = Taken
  BY <1>2 DEF Taken
<1>4. ASSUME IncomingOK PROVE IncomingOK'
  BY <1>2, <1>4 DEF IncomingOK
<1>5. ASSUME ReadBufOK PROVE ReadBufOK'
  <2>1. /\ Taken \in Int /\ Taken >= 0 /\ Taken + Len(rbuf) <= Len(peer)
        /\ \A j \in 1..Len(rbuf) : rbuf[j] = peer[Taken + j]
    BY <1>2, <1>5 DEF ReadBufOK, Taken
  <2>2. \A j \in 1..Len(rbuf) : rbuf[j] = peer'[Taken + j]
    BY <1>2, <2>1
  <2> QED BY <1>2, <1>3, <2>1, <2>2 DEF ReadBufOK
<1> QED BY <1>3, <1>4, <1>5

\* read_more moves the front of the stream to read_buf.
Moves(n) ==
    /\ n \in 1..Len(incoming) /\ peer' = peer
    /\ rbuf' = rbuf \o SubSeq(incoming, 1, n)
    /\ incoming' = SubSeq(incoming, n + 1, Len(incoming))

\* A read of the transport keeps the records in order.
LEMMA UnreadMoved ==
    ASSUME TypeOK, IncomingOK, ReadBufOK, NEW n, Moves(n)
    PROVE  IncomingOK' /\ ReadBufOK' /\ Taken' = Taken
<1>1. /\ peer \in Seq(Inbound) /\ Len(peer) \in Nat /\ Len(incoming) \in Nat /\ Len(rbuf) \in Nat
      /\ incoming \in Seq(Inbound) /\ rbuf \in Seq(Inbound)
  BY DEF TypeOK
<1>2. /\ n \in Nat /\ n >= 1 /\ n <= Len(incoming) /\ peer' = peer
      /\ Len(rbuf') = Len(rbuf) + n /\ Len(incoming') = Len(incoming) - n
      /\ \A j \in 1..Len(rbuf) : rbuf'[j] = rbuf[j]
      /\ \A j \in 1..n : rbuf'[Len(rbuf) + j] = incoming[j]
      /\ \A j \in 1..(Len(incoming) - n) : incoming'[j] = incoming[n + j]
  <2>1. n \in Nat /\ n >= 1 /\ n <= Len(incoming) /\ peer' = peer
    BY <1>1 DEF Moves
  <2>2. Len(incoming') = Len(incoming) - n
        /\ \A j \in 1..(Len(incoming) - n) : incoming'[j] = incoming[n + j]
    BY <1>1, <2>1 DEF Moves
  <2>3. PICK q \in Seq(Inbound) : q = SubSeq(incoming, 1, n) /\ Len(q) = n /\ \A j \in 1..n : q[j] = incoming[j]
    <3>1. SubSeq(incoming, 1, n) \in Seq(Inbound) /\ Len(SubSeq(incoming, 1, n)) = n
      BY <1>1, <2>1
    <3>2. \A j \in 1..n : SubSeq(incoming, 1, n)[j] = incoming[j]
      BY <1>1, <2>1
    <3> QED BY <3>1, <3>2
  <2>4. rbuf' = rbuf \o q
    BY <2>3 DEF Moves
  <2>5. /\ Len(rbuf') = Len(rbuf) + n
        /\ \A j \in 1..Len(rbuf) : rbuf'[j] = rbuf[j]
        /\ \A j \in 1..n : rbuf'[Len(rbuf) + j] = q[j]
    BY <1>1, <2>1, <2>3, <2>4
  <2> QED BY <2>1, <2>2, <2>3, <2>5
<1>3. Taken' = Taken
  BY <1>1, <1>2 DEF Taken
<1>4. IncomingOK'
  BY <1>1, <1>2 DEF IncomingOK
<1>5. ReadBufOK'
  <2>1. ASSUME NEW j \in 1..Len(rbuf') PROVE rbuf'[j] = peer[Taken + j]
    <3>1. CASE j <= Len(rbuf)
      BY <1>1, <1>2, <3>1 DEF ReadBufOK
    <3>2. CASE j > Len(rbuf)
      <4>1. PICK i \in 1..n : j = Len(rbuf) + i
        <5>1. j \in Nat /\ j <= Len(rbuf) + n
          BY <1>1, <1>2
        <5>2. j - Len(rbuf) \in 1..n /\ j = Len(rbuf) + (j - Len(rbuf))
          BY <1>1, <1>2, <3>2, <5>1
        <5> QED BY <5>2
      <4>2. rbuf'[j] = incoming[i] /\ i \in 1..Len(incoming)
        BY <1>1, <1>2, <4>1
      <4>3. incoming[i] = peer[Len(peer) - Len(incoming) + i]
        BY <1>1, <4>2 DEF IncomingOK
      <4>4. Len(peer) - Len(incoming) + i = Taken + j
        BY <1>1, <4>1 DEF Taken
      <4> QED BY <4>2, <4>3, <4>4
    <3> QED BY <1>1, <1>2, <3>1, <3>2
  <2> QED BY <1>2, <1>3, <2>1 DEF ReadBufOK
<1> QED BY <1>3, <1>4, <1>5

\* The library takes a record.
LEMMA UnreadTaken ==
    ASSUME TypeOK, IncomingOK, ReadBufOK, rbuf # <<>>
    PROVE  /\ Taken \in Nat /\ Taken + 1 \in 1..Len(peer) /\ Head(rbuf) = peer[Taken + 1]
           /\ UNCHANGED <<peer, incoming>> /\ rbuf' = Tail(rbuf) => ReadBufOK' /\ Taken' = Taken + 1
<1>1. /\ peer \in Seq(Inbound) /\ Len(peer) \in Nat /\ Len(incoming) \in Nat /\ Len(rbuf) \in Nat
      /\ rbuf \in Seq(Inbound) /\ Len(rbuf) > 0
  BY DEF TypeOK
<1>2. Taken \in Nat /\ Taken + 1 \in 1..Len(peer)
  BY <1>1 DEF ReadBufOK, Taken
<1>3. Head(rbuf) = peer[Taken + 1]
  BY <1>1 DEF ReadBufOK
<1>4. ASSUME UNCHANGED <<peer, incoming>>, rbuf' = Tail(rbuf) PROVE ReadBufOK' /\ Taken' = Taken + 1
  <2>1. Len(rbuf') = Len(rbuf) - 1 /\ \A j \in 1..(Len(rbuf) - 1) : rbuf'[j] = rbuf[j + 1]
    BY <1>1, <1>4
  <2>2. Taken' = Taken + 1
    BY <1>1, <1>4, <2>1 DEF Taken
  <2>3. Taken \in Nat /\ \A j \in 1..Len(rbuf) : rbuf[j] = peer[Taken + j]
    BY <1>2 DEF ReadBufOK
  <2>4. \A j \in 1..(Len(rbuf) - 1) : rbuf'[j] = peer[(Taken + 1) + j]
    BY <1>1, <2>1, <2>3
  <2> QED BY <1>4, <2>1, <2>2, <2>3, <2>4 DEF ReadBufOK
<1> QED BY <1>2, <1>3, <1>4

\* Where the steps move records.
Flow ==
    \/ UNCHANGED <<rbuf, incoming, peer>>
    \/ PeerSends
    \/ \E c \in Coros : ReadDone(c) /\ \E n : Moves(n) /\ incoming[n] # "eof"
    \/ \E c \in Coros : /\ \/ ssl_connect(c) \/ ssl_read(c)
                           \/ schannel_connect(c) \/ schannel_read(c) \/ schannel_renew(c)
                        /\ rbuf # <<>> /\ rbuf' = Tail(rbuf) /\ UNCHANGED <<incoming, peer>>
    \/ \E c \in Coros : /\ schannel_connect(c) /\ ConnectFirst(c) /\ rbuf' = Append(rbuf, "junk")
                        /\ UNCHANGED <<incoming, peer>>
    \/ \E c \in Coros : /\ schannel_renew(c) \/ schannel_shutdown(c)
                        /\ rbuf' = <<>> /\ dropped' /\ UNCHANGED <<incoming, peer>>

\* Every step moves records in one of these ways.
LEMMA StepsFlow ==
    ASSUME [Next]_vars
    PROVE  Flow
<1>1. ASSUME NEW c \in Coros, Uses(c) PROVE Flow
  <2>1. CASE \/ FlushAcquire(c) \/ FlushStart(c) \/ FlushDone(c) \/ ReadAcquire(c) \/ ReadStart(c)
    BY <2>1 DEF FlushAcquire, FlushStart, FlushDone, ReadAcquire, ReadStart, transport, Flow
  <2>2. CASE ReadDone(c)
    BY <2>2 DEF ReadDone, Moves, Flow
  <2>3. CASE ShutdownStart(c) \/ ssl_write(c) \/ ssl_shutdown(c) \/ schannel_write(c)
    BY <2>3 DEF ShutdownStart, ssl_write, ssl_shutdown, schannel_write, buffers, transport, Flow
  <2>4. CASE ssl_read(c)
    <3>1. UNCHANGED rbuf \/ (rbuf # <<>> /\ rbuf' = Tail(rbuf))
      BY <2>4 DEF ssl_read, BioRead
    <3> QED BY <2>4, <3>1 DEF ssl_read, transport, Flow
  <2>5. CASE schannel_read(c)
    <3>1. UNCHANGED rbuf \/ (rbuf # <<>> /\ rbuf' = Tail(rbuf))
      BY <2>5 DEF schannel_read
    <3> QED BY <2>5, <3>1 DEF schannel_read, transport, Flow
  <2>6. CASE Transmit(c) \/ TransportFails(c) \/ Cancel(c)
    BY <2>6 DEF Transmit, TransportFails, Cancel, FlushFails, ReadFails, CancelWaiter, buffers, transport, Flow
  <2>7. CASE schannel_shutdown(c)
    <3>1. UNCHANGED rbuf \/ (rbuf' = <<>> /\ dropped')
      BY <2>7 DEF schannel_shutdown, Drops
    <3> QED BY <2>7, <3>1 DEF schannel_shutdown, transport, Flow
  <2>8. CASE schannel_renew(c)
    <3>1. UNCHANGED rbuf \/ (rbuf # <<>> /\ rbuf' = Tail(rbuf)) \/ (rbuf' = <<>> /\ dropped')
      BY <2>8 DEF schannel_renew, Drops
    <3> QED BY <2>8, <3>1 DEF schannel_renew, transport, Flow
  <2> QED BY <1>1, <2>1, <2>2, <2>3, <2>4, <2>5, <2>6, <2>7, <2>8 DEF Uses
<1>2. ASSUME NEW c \in Coros, Raises(c) \/ Continue(c) \/ schannel_verify(c) PROVE Flow
  BY <1>2 DEF Raises, Continue, schannel_verify, buffers, transport, Flow
<1>3. ASSUME NEW c \in Coros, ssl_connect(c) PROVE Flow
  <2>1. UNCHANGED rbuf \/ (rbuf # <<>> /\ rbuf' = Tail(rbuf))
    BY <1>3 DEF ssl_connect, BioRead
  <2> QED BY <1>3, <2>1 DEF ssl_connect, transport, Flow
<1>4. ASSUME NEW c \in Coros, schannel_connect(c) PROVE Flow
  <2>1. \/ UNCHANGED rbuf \/ (rbuf # <<>> /\ rbuf' = Tail(rbuf))
        \/ ConnectFirst(c) /\ rbuf' = Append(rbuf, "junk")
    BY <1>4 DEF schannel_connect, ConnectFirst, ConnectMore, AcceptIncomplete, AcceptFirst
  <2> QED BY <1>4, <2>1 DEF schannel_connect, transport, Flow
<1>5. CASE openssl_from_pair \/ schannel_client_from_pair \/ schannel_server_from_pair
  BY <1>5, ConstructorOutcome DEF Constructs, buffers, transport, Flow
<1>6. CASE Read \/ Write \/ Shutdown \/ close \/ UNCHANGED vars
  BY <1>6 DEF Read, Write, Shutdown, Begins, close, vars, buffers, transport, Flow
<1> QED BY <1>1, <1>2, <1>3, <1>4, <1>5, <1>6, NextSteps DEF Flow

\* During the handshake only the writer is active, and after a failure nobody.
LEMMA WhoIsActive ==
    ASSUME TypeOK, ControlOK, conn # "open"
    PROVE  /\ op["reader"] = "idle" /\ pc["reader"] = "idle"
           /\ op["writer"] \in {"idle", "connect"}
           /\ conn # "handshake" => pc["writer"] = "idle"
BY TypeParts DEF ControlOK, CoroOK, CoroTypes, Coros

\* Before the connection is open these are steps of flush_write and read_more.
LEMMA UsesBeforeOpen ==
    ASSUME TypeOK, ControlOK, conn # "open", NEW c \in Coros, Uses(c)
    PROVE  /\ c = "writer" /\ conn = "handshake" /\ next' = next /\ pc'["reader"] = "idle"
           /\ \/ pc["writer"] \in Flushes /\ pc'["writer"] \in Flushes \cup {"raise"}
              \/ pc["writer"] \in Fills /\ pc'["writer"] \in Fills \cup {"call", "raise"}
           /\ ReadDone(c) => pc["writer"] \in Fills
<1>0. /\ op["reader"] = "idle" /\ pc["reader"] = "idle" /\ op["writer"] \in {"idle", "connect"}
      /\ conn # "handshake" => pc["writer"] = "idle"
      /\ pc["writer"] \in {"shut", "notify"} => op["writer"] \in {"read", "shutdown"}
      /\ pc["writer"] = "renew" => op["writer"] = "read"
      /\ pc["writer"] \in Fills => next["writer"] = "call"
  BY WhoIsActive DEF ControlOK, CoroOK, Coros, Fills
<1>1. pc[c] \in Flushes \cup Fills /\ (ReadDone(c) => pc[c] = "reading")
  <2>1. CASE \/ FlushAcquire(c) \/ FlushStart(c) \/ FlushDone(c) \/ ReadAcquire(c) \/ ReadStart(c) \/ ReadDone(c)
    BY <2>1 DEF FlushAcquire, FlushStart, FlushDone, ReadAcquire, ReadStart, ReadDone, Runs, Flushes, Fills
  <2>2. CASE Transmit(c) \/ TransportFails(c) \/ Cancel(c)
    BY <2>2 DEF Transmit, TransportFails, Cancel, Runs, Flushes, Fills, ReadDone
  <2>3. CASE \/ ShutdownStart(c) \/ ssl_shutdown(c) \/ schannel_shutdown(c)
             \/ ssl_read(c) \/ ssl_write(c) \/ schannel_read(c) \/ schannel_write(c) \/ schannel_renew(c)
    BY <1>0, <2>3 DEF ShutdownStart, ssl_shutdown, schannel_shutdown, ssl_read, ssl_write,
                      schannel_read, schannel_write, schannel_renew, Runs, Coros
  <2> QED BY <2>1, <2>2, <2>3 DEF Uses
<1>2. c = "writer" /\ conn = "handshake"
  BY <1>0, <1>1 DEF Coros, Flushes, Fills
<1>3. CoroTypes /\ Locks
  BY TypeParts DEF ControlOK, Locks
<1>4. ASSUME NEW p \in Places, Goes(c, p) PROVE pc'["reader"] = "idle" /\ pc'["writer"] = p
  BY <1>0, <1>2, <1>3, <1>4 DEF Goes, CoroTypes, Coros
<1>5. ASSUME NEW p \in Places, \/ Release(c, "write", "flushing", p)
                              \/ Release(c, "read", "filling", p)
      PROVE  pc'["reader"] = "idle" /\ pc'["writer"] = p
  <2>1. HandedOver(c, "write", "flushing", p) \/ HandedOver(c, "read", "filling", p)
    BY <1>3, <1>5, Handover DEF Places, Locks, LockOK
  <2> QED BY <1>0, <1>2, <1>3, <2>1 DEF HandedOver, Locks, LockOK, Coros
<1>6. CASE FlushAcquire(c)
  BY <1>2, <1>4, <1>6 DEF FlushAcquire, Runs, Acquire, Flushes, Places, ReadDone
<1>7. CASE FlushStart(c)
  BY <1>2, <1>4, <1>5, <1>7 DEF FlushStart, Runs, Flushes, Places, ReadDone
<1>8. CASE FlushDone(c)
  BY <1>2, <1>5, <1>8 DEF FlushDone, Runs, Flushes, Places, ReadDone
<1>9. CASE ReadAcquire(c)
  BY <1>2, <1>4, <1>9 DEF ReadAcquire, Runs, Acquire, Fills, Places
<1>10. CASE ReadStart(c)
  BY <1>2, <1>4, <1>5, <1>10 DEF ReadStart, Runs, Fills, Places
<1>11. CASE ReadDone(c)
  BY <1>0, <1>2, <1>5, <1>11 DEF ReadDone, Runs, Fills, Places
<1>12. CASE Transmit(c)
  BY <1>0, <1>2, <1>12 DEF Transmit, Runs, Flushes, coros, ReadDone
<1>13. CASE TransportFails(c) \/ Cancel(c)
  BY <1>2, <1>4, <1>5, <1>13 DEF TransportFails, Cancel, CancelWaiter, FlushFails, ReadFails, Runs, Flushes,
                                Fills, Places, ReadDone
<1>14. CASE \/ ShutdownStart(c) \/ ssl_shutdown(c) \/ schannel_shutdown(c)
            \/ ssl_read(c) \/ ssl_write(c) \/ schannel_read(c) \/ schannel_write(c) \/ schannel_renew(c)
  BY <1>0, <1>2, <1>14 DEF ShutdownStart, ssl_shutdown, schannel_shutdown, ssl_read, ssl_write,
                    schannel_read, schannel_write, schannel_renew, Runs
<1> QED BY <1>6, <1>7, <1>8, <1>9, <1>10, <1>11, <1>12, <1>13, <1>14 DEF Uses

\* The handshake goes forward.
LEMMA StartStep ==
    ASSUME TypeOK, ControlOK, StartOK, HeldOK, [Next]_vars
    PROVE  StartOK'
<1>0. CoroTypes /\ WireTypes
  BY TypeParts
<1>1. ASSUME NEW c \in Coros, Uses(c) PROVE StartOK'
  <2>1. UNCHANGED <<config, conn, hs>>
    BY <1>1, UsesKeep
  <2>2. CASE conn = "open"
    BY <2>1, <2>2 DEF StartOK
  <2>3. CASE conn # "open"
    BY <1>1, <2>1, <2>3, UsesBeforeOpen DEF StartOK, openssl, Flushes, Fills, Coros
  <2> QED BY <2>2, <2>3
<1>2. ASSUME NEW c \in Coros, Raises(c) PROVE StartOK'
  <2>1. UNCHANGED <<config, hs, rbuf, incoming, peer>> /\ (conn' = conn \/ conn' = "failed")
        /\ \A d \in Coros : pc'[d] = (IF d = c THEN "idle" ELSE pc[d])
    BY <1>0, <1>2 DEF Raises, Ends, transport, CoroTypes
  <2>2. conn # "open" => op[c] = "connect" /\ conn' = "failed"
    BY <1>2, WhoIsActive DEF Raises, Runs, Coros, ControlOK, CoroOK
  <2> QED BY <2>1, <2>2 DEF StartOK, openssl
<1>3. ASSUME NEW c \in Coros, Continue(c) PROVE StartOK'
  <2>1. UNCHANGED <<config, hs, rbuf, incoming, peer>> /\ pc[c] = "next"
    BY <1>3 DEF Continue, Runs, library, buffers, transport
  <2>2. config.client => hs # "start"
    BY <2>1 DEF StartOK
  <2>3. CASE conn = "handshake" /\ ~openssl /\ ~config.client
    <3>1. c = "writer" /\ next[c] = "return" /\ op[c] = "connect" /\ ~custom
      <4>1. c = "writer" /\ op[c] = "connect"
        BY <2>1, <2>3, WhoIsActive DEF Coros, ControlOK, CoroOK
      <4>2. next[c] = "return"
        BY <2>1, <2>3, <4>1 DEF StartOK, Fills
      <4>3. ~custom
        BY <2>3, Parameters DEF TypeOK, AllConfigs, custom
      <4> QED BY <4>1, <4>2, <4>3
    <3>2. conn' = "open"
      BY <1>3, <3>1 DEF Continue
    <3> QED BY <2>1, <2>2, <3>2 DEF StartOK
  <2>4. CASE ~(conn = "handshake" /\ ~openssl /\ ~config.client)
    <3>1. conn' = conn \/ conn' = "open"
      BY <1>3 DEF Continue
    <3> QED BY <2>1, <2>2, <2>4, <3>1 DEF StartOK, openssl
  <2> QED BY <2>3, <2>4
<1>4. ASSUME NEW c \in Coros, ssl_connect(c) PROVE StartOK'
  <2>1. openssl /\ UNCHANGED config /\ (config.client => hs' # "start")
    BY <1>4 DEF ssl_connect, tls, TypeOK
  <2> QED BY <2>1 DEF StartOK, openssl
<1>5. ASSUME NEW c \in Coros, schannel_connect(c) PROVE StartOK'
  <2>1. /\ c = "writer" /\ pc[c] = "call" /\ conn = "handshake" /\ UNCHANGED <<config, conn, incoming, peer>>
        /\ pc["reader"] = "idle"
    BY <1>5, WhoIsActive DEF schannel_connect, ControlOK, CoroOK, Runs, transport
  <2>2. CASE config.client
    <3>1. CASE hs' = "start"
      <4>1. GoesOn(c, "raise") /\ rbuf' = rbuf /\ hs = "start"
        BY <1>5, <2>2, <3>1 DEF schannel_connect, ConnectFirst, ConnectMore, AcceptIncomplete, AcceptFirst
      <4> QED BY <1>0, <2>1, <2>2, <3>1, <4>1 DEF StartOK, GoesOn, Goes, Coros, CoroTypes
    <3> QED BY <2>1, <2>2, <3>1 DEF StartOK
  <2>3. CASE ~config.client
    <3>1. hs = "start"
      BY <1>5, <2>1, <2>3 DEF StartOK, Flushes, schannel_connect
    <3>2. \/ FillThen(c, "call") /\ hs' = hs
          \/ GoesOn(c, "raise")
          \/ FlushThen(c, "return") /\ hs' = "done"
      BY <1>5, <2>3 DEF schannel_connect, ConnectFirst, ConnectMore, AcceptIncomplete, AcceptFirst, Token
    <3> QED BY <1>0, <2>1, <2>3, <3>1, <3>2 DEF StartOK, GoesOn, FlushThen, FillThen, Goes, CoroTypes, Coros, Flushes, Fills
  <2> QED BY <2>2, <2>3
<1>6. ASSUME NEW c \in Coros, schannel_verify(c) PROVE StartOK'
  <2>1. pc[c] = "verify" /\ UNCHANGED <<config, hs>> /\ custom
    BY <1>6 DEF schannel_verify, Runs, library, ControlOK, CoroOK
  <2>2. config.client /\ hs # "start"
    BY <2>1, Parameters DEF StartOK, TypeOK, AllConfigs, custom
  <2> QED BY <2>1, <2>2 DEF StartOK
<1>7. CASE openssl_from_pair \/ schannel_client_from_pair \/ schannel_server_from_pair
  <2>1. Constructs /\ \E r : Constructed(r)
    BY <1>7, ConstructorOutcome
  <2>2. conn = "new" /\ hs = "start" /\ UNCHANGED <<config, hs, rbuf, incoming, peer>>
        /\ \/ UNCHANGED pc /\ conn' \in {"failed", "unread"}
           \/ conn' = "handshake" /\ pc' = [pc EXCEPT !["writer"] = "call"]
    BY <2>1 DEF Constructs, Constructed, Handshake, Refuse, coros, buffers, library, transport, HeldOK
  <2> QED BY <1>0, <2>2 DEF StartOK, Coros, CoroTypes
<1>8. CASE Read \/ Write \/ Shutdown \/ close
  BY <1>8 DEF Read, Write, Shutdown, Begins, close, StartOK, tls, library
<1>9. CASE PeerSends
  <2>1. UNCHANGED <<config, conn, hs, pc, next, rbuf>>
    BY <1>9 DEF PeerSends, tls, library, coros, buffers
  <2>2. Len(incoming) = Len(peer) => Len(incoming') = Len(peer')
    BY <1>0, <1>9 DEF PeerSends, WireTypes
  <2> QED BY <2>1, <2>2 DEF StartOK, openssl
<1>10. CASE UNCHANGED vars
  BY <1>10 DEF vars, tls, library, coros, buffers, transport, StartOK, openssl
<1> QED BY <1>1, <1>2, <1>3, <1>4, <1>5, <1>6, <1>7, <1>8, <1>9, <1>10, NextSteps

\* With junk in read_buf the handshake raises.
LEMMA JunkStep ==
    ASSUME TypeOK, ControlOK, Junk, [Next]_vars
    PROVE  Junk'
<1>0. CoroTypes /\ WireTypes
  BY TypeParts
<1>1. /\ conn \in {"handshake", "failed"} /\ hs = "sent" /\ ~openssl /\ op["reader"] = "idle" /\ pc["reader"] = "idle"
      /\ op["writer"] \in {"idle", "connect"} /\ (conn # "handshake" => pc["writer"] = "idle")
  BY WhoIsActive DEF Junk
<1>2. CASE UNCHANGED <<config, conn, hs, rbuf, pc, next>> /\ Len(incoming') = Len(peer')
  BY <1>2 DEF Junk, openssl
<1>3. ASSUME NEW c \in Coros, Uses(c) PROVE Junk'
  <2>1. UNCHANGED <<config, conn, hs>>
    BY <1>3, UsesKeep
  <2>2. /\ c = "writer" /\ next' = next /\ pc["writer"] \in Flushes /\ pc'["writer"] \in Flushes \cup {"raise"}
        /\ ~ReadDone(c)
    BY <1>1, <1>3, UsesBeforeOpen DEF Junk, Flushes, Fills
  <2>3. UNCHANGED <<rbuf, incoming, peer>>
    <3>1. ~ssl_read(c) /\ ~schannel_read(c) /\ ~schannel_renew(c) /\ ~schannel_shutdown(c)
      BY <1>1, <2>2 DEF ssl_read, schannel_read, schannel_renew, schannel_shutdown, Runs, Flushes
    <3> QED BY <1>3, <2>2, <3>1
            DEF Uses, FlushAcquire, FlushStart, FlushDone, ReadAcquire, ReadStart, ShutdownStart, ssl_write,
                ssl_shutdown, schannel_write, Transmit, TransportFails, Cancel,
                FlushFails, ReadFails, CancelWaiter, buffers, transport
  <2> QED BY <2>1, <2>2, <2>3 DEF Junk, openssl, Flushes
<1>4. ASSUME NEW c \in Coros, Raises(c) PROVE Junk'
  <2>1. c = "writer" /\ op[c] = "connect"
    BY <1>1, <1>4 DEF Raises, Runs, Coros, ControlOK, CoroOK
  <2> QED BY <1>0, <1>4, <2>1 DEF Raises, Ends, Junk, CoroTypes, openssl, transport
<1>5. ASSUME NEW c \in Coros, Continue(c) PROVE Junk'
  <2>1. c = "writer" /\ pc[c] = "next" /\ next[c] = "call"
    BY <1>1, <1>5 DEF Continue, Runs, Coros, Junk
  <2>2. GoesOn(c, "call") /\ UNCHANGED <<config, conn, hs, rbuf, incoming, peer>>
    BY <1>5, <2>1 DEF Continue, library, buffers, transport
  <2> QED BY <1>0, <2>1, <2>2 DEF Junk, GoesOn, Goes, CoroTypes, openssl, Coros
<1>6. ASSUME NEW c \in Coros, ssl_connect(c) \/ schannel_verify(c) PROVE FALSE
  BY <1>1, <1>6 DEF ssl_connect, schannel_verify, Runs, Coros, Junk, Flushes
<1>7. ASSUME NEW c \in Coros, schannel_connect(c) PROVE Junk'
  <2>1. c = "writer" /\ pc[c] = "call" /\ Head(rbuf) = "junk" /\ rbuf # <<>>
    BY <1>1, <1>7 DEF schannel_connect, Runs, Coros, Junk
  <2>2. GoesOn(c, "raise") /\ UNCHANGED <<config, conn, hs, rbuf, incoming, peer>>
    BY <1>1, <1>7, <2>1 DEF schannel_connect, ConnectFirst, ConnectMore, AcceptIncomplete, AcceptFirst, transport
  <2> QED BY <1>0, <2>1, <2>2 DEF Junk, GoesOn, Goes, CoroTypes, openssl, Coros
<1>8. ~openssl_from_pair /\ ~schannel_client_from_pair /\ ~schannel_server_from_pair
  BY <1>1 DEF openssl_from_pair, schannel_client_from_pair, schannel_server_from_pair, Constructs
<1>9. ~Read /\ ~Write /\ ~Shutdown /\ ~close
  BY <1>1 DEF Read, Write, Shutdown, Begins, close
<1>10. CASE PeerSends
  <2>1. UNCHANGED <<config, conn, hs, pc, next, rbuf>>
    BY <1>10 DEF PeerSends, tls, library, coros, buffers
  <2>2. Len(incoming') = Len(peer')
    BY <1>0, <1>10 DEF PeerSends, WireTypes, Junk
  <2> QED BY <1>2, <2>1, <2>2
<1>11. CASE UNCHANGED vars
  BY <1>11 DEF vars, tls, library, coros, buffers, transport, Junk, openssl
<1> QED BY <1>3, <1>4, <1>5, <1>6, <1>7, <1>8, <1>9, <1>10, <1>11, NextSteps

\* Records are neither lost nor reordered on their way to the library.
LEMMA BufferStep ==
    ASSUME TypeOK, ControlOK, StreamOK, [Next]_vars
    PROVE  PeerOK' /\ IncomingOK' /\ (Junk' \/ ReadBufOK')
<1>0. WireTypes /\ BufTypes
  BY TypeParts
<1>1. CASE UNCHANGED <<rbuf, incoming, peer>>
  <2>1. PeerOK' /\ IncomingOK' /\ (ReadBufOK => ReadBufOK')
    BY <1>1 DEF StreamOK, PeerOK, IncomingOK, ReadBufOK, Taken
  <2> QED BY <2>1, JunkStep DEF StreamOK
<1>2. CASE PeerSends
  <2>1. PeerOK' /\ IncomingOK'
    BY <1>2, PeerStep, UnreadSent DEF StreamOK
  <2>2. ReadBufOK => ReadBufOK'
    BY <1>2, UnreadSent DEF StreamOK
  <2> QED BY <2>1, <2>2, JunkStep DEF StreamOK
<1>3. ASSUME NEW c \in Coros, ReadDone(c), NEW n, Moves(n)
      PROVE  PeerOK' /\ IncomingOK' /\ ReadBufOK'
  <2>1. ~Junk
    <3>1. pc[c] = "reading"
      BY <1>3 DEF ReadDone, Runs
    <3>2. Junk => c = "writer"
      BY <3>1, WhoIsActive DEF Junk, Coros
    <3> QED BY <3>1, <3>2 DEF Junk, Flushes
  <2>2. PeerOK'
    BY <1>3 DEF Moves, StreamOK, PeerOK
  <2> QED BY <1>3, <2>1, <2>2, UnreadMoved DEF StreamOK
<1>4. ASSUME rbuf # <<>>, rbuf' = Tail(rbuf), UNCHANGED <<incoming, peer>>
      PROVE  PeerOK' /\ IncomingOK' /\ (Junk' \/ ReadBufOK')
  <2>1. PeerOK' /\ IncomingOK'
    BY <1>4 DEF StreamOK, PeerOK, IncomingOK
  <2>2. ReadBufOK => ReadBufOK'
    BY <1>4, UnreadTaken DEF StreamOK
  <2> QED BY <2>1, <2>2, JunkStep DEF StreamOK
<1>5. ASSUME NEW c \in Coros, schannel_connect(c), ConnectFirst(c), rbuf' = Append(rbuf, "junk"),
             UNCHANGED <<incoming, peer>>
      PROVE  PeerOK' /\ IncomingOK' /\ Junk'
  <2>1. PeerOK' /\ IncomingOK'
    BY <1>5 DEF StreamOK, PeerOK, IncomingOK
  <2>2. rbuf = <<>> /\ Len(incoming) = Len(peer) /\ hs = "start"
    BY <1>5 DEF ConnectFirst, StreamOK, StartOK
  <2>3. rbuf' = <<"junk">>
    BY <1>5, <2>2
  <2>4. c = "writer" /\ conn = "handshake" /\ ~openssl /\ UNCHANGED <<config, conn>> /\ rbuf' # rbuf
    BY <1>5, <2>2, <2>3 DEF schannel_connect, ControlOK, CoroOK
  <2>5. hs' = "sent" /\ (GoesOn(c, "raise") \/ FlushThen(c, "call"))
    BY <1>5, <2>4 DEF ConnectFirst, Token
  <2>6. CoroTypes
    BY TypeParts
  <2>7. pc'["writer"] = "raise" \/ (pc'["writer"] = "flush" /\ next'["writer"] = "call")
    BY <2>4, <2>5, <2>6 DEF GoesOn, FlushThen, FillThen, Goes, CoroTypes, Coros
  <2> QED BY <1>5, <2>1, <2>2, <2>3, <2>4, <2>5, <2>7 DEF Junk, openssl, Flushes
<1>6. ASSUME rbuf' = <<>>, UNCHANGED <<incoming, peer>>
      PROVE  PeerOK' /\ IncomingOK' /\ (Junk' \/ ReadBufOK')
  <2>1. PeerOK' /\ IncomingOK'
    BY <1>6 DEF StreamOK, PeerOK, IncomingOK
  <2>2. Len(rbuf') = 0 /\ Len(rbuf) \in Nat /\ Len(peer) \in Nat /\ Len(incoming) \in Nat
    BY <1>0, <1>6 DEF WireTypes, BufTypes
  <2>3. ReadBufOK => ReadBufOK'
    BY <1>6, <2>1, <2>2 DEF ReadBufOK, Taken
  <2> QED BY <2>1, <2>3, JunkStep DEF StreamOK
<1> QED BY <1>1, <1>2, <1>3, <1>4, <1>5, <1>6, StepsFlow DEF Flow

\* A read returned 0 bytes only because the transport is at its end.
LEMMA ClosedStep ==
    ASSUME TypeOK, ControlOK, ClosedOK, [Next]_vars
    PROVE  ClosedOK'
<1>0. WireTypes
  BY TypeParts
<1>1. CASE UNCHANGED <<state, conn, incoming>>
  BY <1>1 DEF ClosedOK
<1>2. CASE conn' \in {"failed", "unread", "closed"}
  BY <1>2 DEF ClosedOK
<1>3. CASE UNCHANGED <<state, incoming>> /\ conn \in {"new", "handshake"}
  BY <1>3 DEF ClosedOK
<1>4. ASSUME NEW c \in Coros, ReadDone(c) PROVE ClosedOK'
  <2>1. incoming \in Seq(Inbound) /\ incoming # <<>> /\ Head(incoming) = incoming[1] /\ conn' = conn
    BY <1>0, <1>4 DEF ReadDone, WireTypes, tls
  <2>2. CASE Head(incoming) = "eof"
    BY <1>4, <2>1, <2>2 DEF ReadDone, ClosedOK
  <2>3. CASE Head(incoming) # "eof"
    BY <1>4, <2>1, <2>3 DEF ReadDone, ClosedOK
  <2> QED BY <2>2, <2>3
<1>5. ASSUME NEW c \in Coros, Uses(c) PROVE ClosedOK'
  <2>1. conn' = conn
    BY <1>5, UsesKeep
  <2>2. CASE TransportFails(c) \/ Cancel(c)
    BY <1>1, <2>1, <2>2 DEF TransportFails, Cancel, FlushFails, ReadFails, CancelWaiter, ClosedOK, transport
  <2>3. CASE ~ReadDone(c) /\ ~TransportFails(c) /\ ~Cancel(c)
    BY <1>1, <1>5, <2>1, <2>3 DEF Uses, FlushAcquire, FlushStart, FlushDone, ReadAcquire, ReadStart,
                ShutdownStart, ssl_read, ssl_write, ssl_shutdown, schannel_read, schannel_renew, schannel_write, schannel_shutdown,
                Transmit, buffers, transport
  <2> QED BY <1>4, <2>2, <2>3
<1>6. ASSUME NEW c \in Coros, Raises(c) \/ schannel_verify(c) PROVE ClosedOK'
  BY <1>1, <1>2, <1>3, <1>6 DEF Raises, schannel_verify, transport, ControlOK, CoroOK, Runs
<1>7. ASSUME NEW c \in Coros, Continue(c) PROVE ClosedOK'
  BY <1>1, <1>3, <1>7 DEF Continue, buffers, transport, ControlOK, CoroOK
<1>8. ASSUME NEW c \in Coros, ssl_connect(c) \/ schannel_connect(c) PROVE ClosedOK'
  BY <1>1, <1>8 DEF ssl_connect, schannel_connect, tls, transport
<1>9. CASE openssl_from_pair \/ schannel_client_from_pair \/ schannel_server_from_pair
  BY <1>3, <1>9, ConstructorOutcome DEF Constructs, buffers, transport
<1>10. CASE Read \/ Write \/ Shutdown \/ close \/ UNCHANGED vars
  BY <1>1, <1>2, <1>10 DEF Read, Write, Shutdown, Begins, close, vars, tls, buffers, transport
<1>11. CASE PeerSends
  <2>1. incoming # <<>> => incoming' # <<>> /\ incoming'[1] = incoming[1]
    BY <1>0, <1>11 DEF PeerSends, WireTypes
  <2> QED BY <1>11, <2>1 DEF PeerSends, ClosedOK, tls, buffers
<1> QED BY <1>5, <1>6, <1>7, <1>8, <1>9, <1>10, <1>11, NextSteps

\* Every step keeps what was received in order.
LEMMA StreamStep ==
    ASSUME TypeOK, ControlOK, StreamOK, HeldOK, [Next]_vars
    PROVE  StreamOK'
BY BufferStep, StartStep, ClosedStep DEF StreamOK

-----------------------------------------------------------------------------
(* The certificate. *)

\* A handshake record is the first record of the peer.
LEMMA HandshakeRecord ==
    ASSUME TypeOK, StreamOK, rbuf # <<>>, Head(rbuf) \in {"good", "bad"}
    PROVE  peer # <<>> /\ peer[1] = Head(rbuf)
<1>1. ~Junk
  <2>1. Junk => Head(rbuf) = "junk"
    BY DEF Junk
  <2> QED BY <2>1
<1>2. Taken \in Nat /\ Taken + 1 \in 1..Len(peer) /\ Head(rbuf) = peer[Taken + 1]
  BY <1>1, UnreadTaken DEF StreamOK
<1>3. Taken + 1 = 1
  BY <1>2 DEF StreamOK, PeerOK
<1> QED BY <1>2, <1>3 DEF TypeOK

\* Every step keeps what is known of the peer.
LEMMA VerifiedStep ==
    ASSUME TypeOK, ControlOK, StreamOK, VerifiedOK, [Next]_vars
    PROVE  VerifiedOK'
<1>0. WireTypes /\ TlsTypes
  BY TypeParts
<1>1. CASE UNCHANGED <<config, hs, peer>> /\ (conn' = "open" => conn = "open" \/ openssl \/ ~custom)
  BY <1>1 DEF VerifiedOK, openssl, custom
<1>2. ASSUME NEW c \in Coros, Uses(c) PROVE VerifiedOK'
  <2>1. UNCHANGED <<config, conn, hs>>
    BY <1>2, UsesKeep
  <2>2. peer' = peer
    BY <1>2 DEF Uses, FlushAcquire, FlushStart, FlushDone, ReadAcquire, ReadStart, ReadDone,
                ShutdownStart, ssl_read, ssl_write, ssl_shutdown, schannel_read, schannel_renew, schannel_write, schannel_shutdown,
                Transmit, TransportFails, Cancel, FlushFails, ReadFails, CancelWaiter, transport
  <2> QED BY <1>1, <2>1, <2>2
<1>3. ASSUME NEW c \in Coros, Raises(c) PROVE VerifiedOK'
  BY <1>1, <1>3 DEF Raises, transport
<1>4. ASSUME NEW c \in Coros, Continue(c) PROVE VerifiedOK'
  BY <1>1, <1>4 DEF Continue, library, transport
<1>5. ASSUME NEW c \in Coros, ssl_connect(c) PROVE VerifiedOK'
  <2>1. UNCHANGED <<config, conn, peer>> /\ openssl
    BY <1>5 DEF ssl_connect, tls, transport
  <2>2. CASE hs' = "done"
    <3>1. (hs = "done" /\ UNCHANGED hs) \/ (rbuf # <<>> /\ Head(rbuf) \in Accepted)
      BY <1>5, <2>2 DEF ssl_connect, BioRead
    <3>2. CASE hs = "done" /\ UNCHANGED hs
      BY <1>1, <2>1, <3>2
    <3>3. CASE rbuf # <<>> /\ Head(rbuf) \in Accepted
      <4>1. peer # <<>> /\ peer[1] = Head(rbuf)
        BY <3>3, HandshakeRecord DEF Accepted
      <4> QED BY <2>1, <3>3, <4>1 DEF VerifiedOK, Accepted
    <3> QED BY <3>1, <3>2, <3>3
  <2> QED BY <2>2 DEF VerifiedOK
<1>6. ASSUME NEW c \in Coros, schannel_connect(c) PROVE VerifiedOK'
  <2>1. UNCHANGED <<config, conn, peer>> /\ ~openssl /\ conn = "handshake"
    BY <1>6 DEF schannel_connect, transport, ControlOK, CoroOK
  <2>2. CASE hs' = "done"
    <3>1. \/ hs = "done" /\ UNCHANGED hs
          \/ ~config.client /\ rbuf # <<>> /\ Head(rbuf) = "good"
          \/ /\ rbuf # <<>> /\ Head(rbuf) \in {"good", "bad"}
             /\ config.trust = "system" => Head(rbuf) = "good"
      BY <1>6, <2>2 DEF schannel_connect, ConnectFirst, ConnectMore, AcceptIncomplete, AcceptFirst
    <3>2. CASE hs = "done" /\ UNCHANGED hs
      BY <1>1, <2>1, <3>2
    <3>3. CASE rbuf # <<>> /\ Head(rbuf) \in {"good", "bad"} /\ (config.client => (config.trust = "system" => Head(rbuf) = "good"))
      <4>1. peer # <<>> /\ peer[1] = Head(rbuf)
        BY <3>3, HandshakeRecord
      <4>2. config.trust \in {"none", "system", "custom"}
        BY <1>0, Parameters DEF TlsTypes, AllConfigs
      <4> QED BY <2>1, <3>3, <4>1, <4>2 DEF VerifiedOK, openssl, custom
    <3> QED BY <3>1, <3>2, <3>3
  <2> QED BY <2>2 DEF VerifiedOK
<1>7. ASSUME NEW c \in Coros, schannel_verify(c) PROVE VerifiedOK'
  <2>1. UNCHANGED <<config, hs, peer>> /\ ~openssl /\ custom
    BY <1>7 DEF schannel_verify, transport, library, Runs, ControlOK, CoroOK
  <2>2. PICK call \in verify_peer_certificate(res, hs = "done" /\ peer[1] = "good") :
            conn' = (IF call.ok THEN "open" ELSE "failed")
    BY <1>7 DEF schannel_verify
  <2>3. call.ok => hs = "done" /\ peer[1] = "good"
    BY <2>2 DEF verify_peer_certificate, Succeeds, Fails
  <2> QED BY <2>1, <2>2, <2>3 DEF VerifiedOK, openssl, custom
<1>8. CASE openssl_from_pair \/ schannel_client_from_pair \/ schannel_server_from_pair
  <2>1. Constructs /\ \E r : Constructed(r)
    BY <1>8, ConstructorOutcome
  <2> QED BY <1>1, <2>1 DEF Constructs, Constructed, Handshake, Refuse, library, transport
<1>9. CASE Read \/ Write \/ Shutdown \/ close \/ UNCHANGED vars
  BY <1>1, <1>9 DEF Read, Write, Shutdown, Begins, close, vars, tls, library, transport
<1>10. CASE PeerSends
  <2>1. UNCHANGED <<config, conn, hs>>
    BY <1>10 DEF PeerSends, tls, library
  <2>2. peer # <<>> => peer' # <<>> /\ peer'[1] = peer[1]
    BY <1>0, <1>10 DEF PeerSends, WireTypes
  <2> QED BY <2>1, <2>2 DEF VerifiedOK, openssl, custom
<1> QED BY <1>2, <1>3, <1>4, <1>5, <1>6, <1>7, <1>8, <1>9, <1>10, NextSteps

-----------------------------------------------------------------------------
(* The end of the stream. *)

\* The data records taken so far.
TakenData == DataSent(Taken)

\* A read takes a data record out of read_buf.
TakesData == rbuf # <<>> /\ Head(rbuf) = "data" /\ rbuf' # rbuf /\ UNCHANGED incoming

\* Only that changes how many data records were taken, as long as none was taken unseen.
LEMMA DataTaken ==
    ASSUME TypeOK, ControlOK, StreamOK, [Next]_vars
    PROVE  /\ TakenData \in Nat
           /\ ~dropped' => /\ TakesData => TakenData' = TakenData + 1
                           /\ ~TakesData => TakenData' = TakenData
<1>0. /\ Len(peer) \in Nat /\ Len(incoming) \in Nat /\ Len(rbuf) \in Nat /\ rbuf \in Seq(Inbound)
      /\ incoming \in Seq(Inbound) /\ Taken \in Int
  BY DEF TypeOK, Taken
<1>1. Taken <= Len(peer)
  BY <1>0 DEF Taken
<1>2. Junk => Taken <= 0
  BY <1>0 DEF Junk, Taken
<1>3. TakenData \in Nat
  <2>1. CASE Taken \in Nat
    BY <2>1, DataNext DEF TakenData
  <2>2. CASE Taken <= 0
    BY <1>0, <2>2, DataNone DEF TakenData
  <2> QED BY <1>0, <2>1, <2>2
<1>4. CASE UNCHANGED <<rbuf, incoming, peer>>
  BY <1>3, <1>4 DEF TakesData, TakenData, DataSent, Taken
<1>5. CASE PeerSends
  <2>1. Taken' = Taken /\ rbuf' = rbuf
    BY <1>5, UnreadSent DEF PeerSends, buffers
  <2>2. TakenData' = TakenData
    BY <1>0, <1>1, <1>5, <2>1, DataKept DEF TakenData, DataSent
  <2> QED BY <1>3, <2>1, <2>2 DEF TakesData
<1>6. ASSUME NEW c \in Coros, ReadDone(c), NEW n, Moves(n)
      PROVE  TakenData' = TakenData /\ ~TakesData
  <2>1. ~Junk
    <3>1. pc[c] = "reading"
      BY <1>6 DEF ReadDone, Runs
    <3>2. Junk => c = "writer"
      BY <3>1, WhoIsActive DEF Junk, Coros
    <3> QED BY <3>1, <3>2 DEF Junk, Flushes
  <2>2. Taken' = Taken /\ peer' = peer
    BY <1>6, <2>1, UnreadMoved DEF StreamOK, Moves
  <2>3. incoming' # incoming
    <3>1. Len(incoming') = Len(incoming) - n /\ n \in 1..Len(incoming)
      BY <1>0, <1>6 DEF Moves
    <3> QED BY <1>0, <3>1
  <2> QED BY <2>2, <2>3 DEF TakesData, TakenData, DataSent
<1>7. ASSUME NEW c \in Coros, rbuf # <<>>, rbuf' = Tail(rbuf), UNCHANGED <<incoming, peer>>, Head(rbuf) # "junk"
      PROVE  /\ TakesData => TakenData' = TakenData + 1
             /\ ~TakesData => TakenData' = TakenData
  <2>1. ~Junk
    <3>1. Junk => Head(rbuf) = "junk"
      BY DEF Junk
    <3> QED BY <1>7, <3>1
  <2>2. Taken \in Nat /\ Head(rbuf) = peer[Taken + 1] /\ Taken' = Taken + 1
    BY <1>7, <2>1, UnreadTaken DEF StreamOK
  <2>3. TakenData' = TakenData + (IF Head(rbuf) = "data" THEN 1 ELSE 0)
    <3>1. TakenData' = DataSent(Taken + 1)
      BY <1>7, <2>2 DEF TakenData, DataSent
    <3> QED BY <2>2, <3>1, DataNext DEF TakenData
  <2>4. rbuf' # rbuf
    BY <1>0, <1>7
  <2> QED BY <1>3, <1>7, <2>3, <2>4 DEF TakesData
<1>8. ASSUME NEW c \in Coros, schannel_connect(c), ConnectFirst(c), rbuf' = Append(rbuf, "junk"), UNCHANGED <<incoming, peer>>
      PROVE  TakenData' = TakenData /\ ~TakesData
  <2>1. rbuf = <<>> /\ Len(incoming) = Len(peer)
    BY <1>8 DEF ConnectFirst, StreamOK, StartOK
  <2>2. Taken = 0 /\ Taken' = 0 - 1
    <3>1. Len(rbuf') = 1 /\ Len(rbuf) = 0
      BY <1>8, <2>1
    <3>2. Len(incoming') = Len(peer) /\ Len(peer') = Len(peer)
      BY <1>8, <2>1
    <3>3. Taken' = Len(peer) - Len(peer) - 1 /\ Taken = Len(peer) - Len(peer) - 0
      BY <2>1, <3>1, <3>2 DEF Taken
    <3> QED BY <1>0, <3>3
  <2>3. TakenData' = DataSent(0 - 1)
    BY <1>8, <2>2 DEF TakenData, DataSent
  <2> QED BY <2>1, <2>2, <2>3, DataNone DEF TakenData, TakesData
<1>9. ASSUME NEW c \in Coros, \/ ssl_connect(c) \/ ssl_read(c)
                                \/ schannel_connect(c) \/ schannel_read(c) \/ schannel_renew(c),
             rbuf # <<>>, rbuf' = Tail(rbuf), ~dropped'
      PROVE  Head(rbuf) # "junk"
  <2>1. rbuf' # rbuf
    BY <1>0, <1>9
  <2>2. CASE ssl_connect(c) \/ ssl_read(c)
    BY <2>1, <2>2 DEF ssl_connect, ssl_read, BioRead, Accepted
  <2>3. CASE schannel_read(c)
    BY <2>1, <2>3 DEF schannel_read
  <2>4. CASE schannel_connect(c)
    <3>1. ConnectFirst(c) => rbuf = <<>>
      BY DEF ConnectFirst, StreamOK, StartOK
    <3> QED BY <1>9, <2>1, <2>4, <3>1 DEF schannel_connect, ConnectMore, AcceptIncomplete, AcceptFirst
  <2>5. CASE schannel_renew(c)
    BY <1>9, <2>1, <2>5 DEF schannel_renew, Drops
  <2> QED BY <1>9, <2>2, <2>3, <2>4, <2>5
<1>10. SUFFICES ASSUME ~dropped'
                PROVE  /\ TakesData => TakenData' = TakenData + 1
                       /\ ~TakesData => TakenData' = TakenData
  BY <1>3
<1> QED BY <1>4, <1>5, <1>6, <1>7, <1>8, <1>9, <1>10, StepsFlow DEF Flow

\* A read that meets close_notify or the end of the transport has returned everything
\* before it.
LEMMA EndHere ==
    ASSUME TypeOK, ControlOK, StreamOK, CountOK, op["reader"] = "read", pc["reader"] = "call",
           \/ rbuf # <<>> /\ Head(rbuf) = "close"
           \/ rbuf = <<>> /\ state = "Closed"
    PROVE  EndReached
<1>0. /\ Len(peer) \in Nat /\ Len(incoming) \in Nat /\ Len(rbuf) \in Nat
      /\ incoming \in Seq(Inbound) /\ got \in Nat
  BY DEF TypeOK
<1>1. conn = "open" /\ ~Junk /\ ReadBufOK /\ IncomingOK
  BY DEF ControlOK, CoroOK, Coros, Junk, StreamOK
<1>2. Taken \in Nat /\ Taken + 1 \in 1..Len(peer) /\ peer[Taken + 1] \in {"close", "eof"}
  <2>1. CASE rbuf # <<>> /\ Head(rbuf) = "close"
    BY <1>1, <2>1, UnreadTaken
  <2>2. CASE rbuf = <<>> /\ state = "Closed"
    <3>1. incoming # <<>> /\ incoming[1] = "eof"
      BY <1>1, <2>2 DEF StreamOK, ClosedOK
    <3>2. Len(rbuf) = 0 /\ Len(incoming) >= 1
      BY <1>0, <2>2, <3>1
    <3>3. incoming[1] = peer[Len(peer) - Len(incoming) + 1]
      BY <1>0, <1>1, <3>2 DEF IncomingOK
    <3>4. Taken = Len(peer) - Len(incoming) /\ Taken >= 0
      BY <1>0, <1>1, <3>2 DEF Taken, ReadBufOK
    <3> QED BY <1>0, <3>1, <3>2, <3>3, <3>4
  <2> QED BY <2>1, <2>2
<1>3. DataSent(Taken + 1) = DataSent(Taken) /\ DataSent(Taken) \in Nat
  <2>1. PICK k \in Nat : k = Taken
    BY <1>2
  <2>2. peer[k + 1] # "data"
    BY <1>2, <2>1
  <2>3. DataSent(k + 1) = DataSent(k) /\ DataSent(k) \in Nat
    <3>1. /\ DataSent(k) \in Nat
          /\ DataSent(k + 1) = DataSent(k) + (IF peer[k + 1] = "data" THEN 1 ELSE 0)
      BY DataNext
    <3> QED BY <2>2, <3>1
  <2> QED BY <2>1, <2>3
<1>4. broken \/ dropped \/ got = DataSent(Taken)
  <2>1. ~Returning
    BY DEF Returning, Flushes
  <2> QED BY <1>0, <2>1 DEF CountOK
<1> QED BY <1>2, <1>3, <1>4 DEF EndReached

\* Once reached, the end stays reached.
LEMMA EndKept ==
    ASSUME TypeOK, EndReached, got' = got, broken => broken', dropped => dropped', peer' = peer \/ PeerSends
    PROVE  EndReached'
<1>1. PICK i \in 1..Len(peer) : peer[i] \in {"close", "eof"} /\ (broken \/ dropped \/ got = DataSent(i))
  BY DEF EndReached
<1>2. Len(peer) \in Nat
  BY DEF TypeOK
<1>3. i \in 1..Len(peer') /\ peer'[i] = peer[i]
  <2>1. CASE peer' = peer
    BY <2>1
  <2>2. CASE PeerSends
    <3>1. PICK r : peer' = Append(peer, r)
      BY <2>2 DEF PeerSends
    <3>2. Len(peer') = Len(peer) + 1 /\ \A j \in 1..Len(peer) : peer'[j] = peer[j]
      BY <3>1 DEF TypeOK
    <3> QED BY <1>1, <1>2, <3>2
  <2> QED BY <2>1, <2>2
<1>4. DataSent(i)' = DataSent(i)
  <2>1. CASE peer' = peer
    BY <2>1 DEF DataSent
  <2>2. CASE PeerSends
    BY <1>1, <1>2, <2>2, DataKept
  <2> QED BY <2>1, <2>2
<1> QED BY <1>1, <1>3, <1>4 DEF EndReached

\* A read at the end of what the peer sent.
AtTheEnd ==
    /\ op["reader"] = "read" /\ pc["reader"] = "call"
    /\ \/ rbuf # <<>> /\ Head(rbuf) = "close"
       \/ rbuf = <<>> /\ state = "Closed"

\* What a step may do to the reads: every data record taken is returned, now or by the
\* flush that follows, unless an operation raises or drops it; 0 is returned only at the
\* end.
ReaderOK ==
    /\ eof' => op'["reader"] = "idle"
    /\ Ending' \/ eof' => got' = got /\ (Ending \/ eof \/ AtTheEnd)
    /\ (broken => broken') /\ (dropped => dropped')
    /\ ~broken' /\ ~dropped' /\ pc'["reader"] # "raise" =>
         /\ pc["reader"] # "raise"
         /\ \/ got' = got     /\ (Returning' <=> Returning) /\ ~TakesData
            \/ got' = got + 1 /\ Returning /\ ~Returning'   /\ ~TakesData
            \/ got' = got + 1 /\ ~Returning /\ ~Returning'  /\ TakesData
            \/ got' = got     /\ ~Returning /\ Returning'   /\ TakesData

\* The reads are not concerned.
ReaderStill ==
    /\ UNCHANGED <<got, eof>> /\ (broken => broken') /\ (dropped => dropped')
    /\ rbuf' = rbuf \/ ~TakesData \/ dropped'
    /\ op'["reader"] = op["reader"]
    /\ \/ pc'["reader"] = "raise"
       \/ pc'["reader"] = pc["reader"] /\ next'["reader"] = next["reader"]
       \/ /\ pc["reader"] \in Flushes /\ pc'["reader"] \in Flushes /\ next'["reader"] = next["reader"]
       \/ /\ pc["reader"] \in Fills /\ next'["reader"] = next["reader"]
          /\ \/ pc'["reader"] \in Fills
             \/ pc'["reader"] = next["reader"] /\ next["reader"] \in {"call", "renew", "notify"}

\* Then they are right.
LEMMA StillOK ==
    ASSUME TypeOK, EndOK, ReaderStill
    PROVE  ReaderOK
BY DEF ReaderStill, ReaderOK, EndOK, TakesData, Returning, Ending, Flushes, Fills

\* The steps of flush_write and read_more, of anyone.
LEMMA TransportStill ==
    ASSUME TypeOK, ControlOK, NEW c \in Coros,
           \/ FlushAcquire(c) \/ FlushStart(c) \/ FlushDone(c) \/ ReadAcquire(c) \/ ReadStart(c) \/ ReadDone(c)
           \/ Transmit(c) \/ TransportFails(c) \/ Cancel(c)
    PROVE  ReaderStill
<1>0. CoroTypes /\ Locks /\ "reader" \in Coros
  BY TypeParts DEF ControlOK, Locks, Coros
<1>1. UNCHANGED <<got, eof, dropped, broken, op, next>>
  BY DEF FlushAcquire, FlushStart, FlushDone, ReadAcquire, ReadStart, ReadDone, Transmit, TransportFails, Cancel,
         FlushFails, ReadFails, CancelWaiter, Acquire, Release, Goes, history, coros
<1>2. rbuf' = rbuf \/ ~TakesData
  <2>1. CASE ReadDone(c)
    <3>1. \/ rbuf' = rbuf
          \/ \E n \in 1..Len(incoming) : incoming' = SubSeq(incoming, n + 1, Len(incoming))
      BY <2>1 DEF ReadDone
    <3>2. incoming \in Seq(Inbound)
      BY DEF TypeOK
    <3>3. \A n \in 1..Len(incoming) : SubSeq(incoming, n + 1, Len(incoming)) # incoming
      <4> TAKE n \in 1..Len(incoming)
      <4>1. Len(SubSeq(incoming, n + 1, Len(incoming))) = Len(incoming) - n
        BY <3>2
      <4> QED BY <3>2, <4>1
    <3> QED BY <3>1, <3>3 DEF TakesData
  <2>2. CASE ~ReadDone(c)
    BY <2>2 DEF FlushAcquire, FlushStart, FlushDone, ReadAcquire, ReadStart, Transmit, TransportFails, Cancel,
           FlushFails, ReadFails, CancelWaiter, buffers
  <2> QED BY <2>1, <2>2
<1>3. ASSUME NEW p \in Places, Goes(c, p)
      PROVE  pc'["reader"] = pc["reader"] \/ (c = "reader" /\ pc'["reader"] = p)
  BY <1>0, <1>3 DEF Goes, CoroTypes
<1>4. ASSUME NEW p \in Places, Release(c, "write", "flushing", p)
      PROVE  \/ pc'["reader"] = pc["reader"] \/ (c = "reader" /\ pc'["reader"] = p)
             \/ pc["reader"] = "wlock" /\ pc'["reader"] = "flushing"
  <2>1. HandedOver(c, "write", "flushing", p)
    BY <1>0, <1>4, Handover DEF Places, Locks, LockOK
  <2> QED BY <1>0, <2>1 DEF HandedOver, Locks, LockOK
<1>5. ASSUME NEW p \in Places, Release(c, "read", "filling", p)
      PROVE  \/ pc'["reader"] = pc["reader"] \/ (c = "reader" /\ pc'["reader"] = p)
             \/ pc["reader"] = "rlock" /\ pc'["reader"] = "filling"
  <2>1. HandedOver(c, "read", "filling", p)
    BY <1>0, <1>5, Handover DEF Places, Locks, LockOK
  <2> QED BY <1>0, <2>1 DEF HandedOver, Locks, LockOK
<1>6. \/ pc'["reader"] = "raise"
      \/ pc'["reader"] = pc["reader"]
      \/ pc["reader"] \in Flushes /\ pc'["reader"] \in Flushes
      \/ /\ pc["reader"] \in Fills
         /\ \/ pc'["reader"] \in Fills
            \/ pc'["reader"] = next["reader"] /\ next["reader"] \in {"call", "renew", "notify"}
  <2>1. CASE FlushAcquire(c) \/ ReadAcquire(c)
    BY <1>3, <2>1 DEF FlushAcquire, ReadAcquire, Acquire, Runs, Places, Flushes, Fills
  <2>2. CASE FlushStart(c) \/ FlushDone(c)
    BY <1>3, <1>4, <2>2 DEF FlushStart, FlushDone, Runs, Places, Flushes
  <2>3. CASE ReadStart(c)
    BY <1>3, <1>5, <2>3 DEF ReadStart, Runs, Places, Fills
  <2>6. CASE ReadDone(c)
    <3>1. pc[c] = "reading" /\ next[c] \in {"call", "renew", "notify"}
      BY <2>6 DEF ReadDone, Runs, Fills, ControlOK, CoroOK
    <3>2. Release(c, "read", "filling", next[c]) /\ next[c] \in Places
      BY <2>6, <3>1 DEF ReadDone, Places
    <3> QED BY <1>5, <3>1, <3>2 DEF Fills
  <2>4. CASE Transmit(c)
    BY <2>4 DEF Transmit, coros
  <2>5. CASE TransportFails(c) \/ Cancel(c)
    BY <1>3, <1>4, <1>5, <2>5 DEF TransportFails, Cancel, FlushFails, ReadFails, CancelWaiter, Runs, Places, Flushes, Fills
  <2> QED BY <2>1, <2>2, <2>3, <2>4, <2>5, <2>6
<1> QED BY <1>1, <1>2, <1>6 DEF ReaderStill

\* A read that is about to return 0 goes on, raises or returns.
LEMMA EndingOK ==
    ASSUME TypeOK, EndOK, Ending, pc["reader"] # "raise", got' = got, broken => broken', dropped => dropped',
           ~TakesData \/ dropped',
           \/ Ending' /\ eof' = eof
           \/ pc'["reader"] = "raise" /\ eof' = eof
           \/ op'["reader"] = "idle" /\ pc'["reader"] = "idle"
    PROVE  ReaderOK
<1>1. ~eof /\ ~Returning
  BY DEF EndOK, Ending, Returning, Flushes, Fills
<1>2. CASE Ending' /\ eof' = eof
  <2>1. ~Returning'
    BY <1>2 DEF Ending, Returning, Flushes
  <2> QED BY <1>1, <1>2, <2>1 DEF ReaderOK
<1>3. CASE pc'["reader"] = "raise" /\ eof' = eof
  BY <1>1, <1>3 DEF ReaderOK
<1>4. CASE op'["reader"] = "idle" /\ pc'["reader"] = "idle"
  <2>1. ~Returning' /\ ~Ending'
    BY <1>4 DEF Ending, Returning
  <2> QED BY <1>1, <1>4, <2>1 DEF ReaderOK
<1> QED BY <1>2, <1>3, <1>4

\* A read that is at its end or takes a record, and the return of a data record.
LEMMA CallOK ==
    ASSUME TypeOK, EndOK, op["reader"] = "read", pc["reader"] = "call", broken => broken', dropped => dropped',
           \/ /\ AtTheEnd /\ ~TakesData /\ got' = got
              /\ (Ending' /\ eof' = eof) \/ (op'["reader"] = "idle" /\ pc'["reader"] = "idle")
           \/ /\ TakesData /\ eof' = eof
              /\ \/ got' = got + 1 /\ op'["reader"] = "idle" /\ pc'["reader"] = "idle"
                 \/ got' = got /\ Returning' /\ op'["reader"] = "read"
           \/ /\ ~TakesData /\ got' = got /\ eof' = eof /\ op'["reader"] = "read"
              /\ ~Returning' /\ ~Ending'
    PROVE  ReaderOK
<1>1. ~eof /\ ~Returning /\ ~Ending
  BY DEF EndOK, Ending, Returning, Flushes, Fills
<1>2. CASE /\ AtTheEnd /\ ~TakesData /\ got' = got
           /\ (Ending' /\ eof' = eof) \/ (op'["reader"] = "idle" /\ pc'["reader"] = "idle")
  <2>1. ~Returning'
    BY <1>2 DEF Ending, Returning, Flushes
  <2> QED BY <1>1, <1>2, <2>1 DEF ReaderOK
<1>3. CASE /\ TakesData /\ eof' = eof
           /\ \/ got' = got + 1 /\ op'["reader"] = "idle" /\ pc'["reader"] = "idle"
              \/ got' = got /\ Returning' /\ op'["reader"] = "read"
  <2>1. ~Ending' /\ (op'["reader"] = "idle" => ~Returning')
    BY <1>3 DEF Ending, Returning, Flushes
  <2> QED BY <1>1, <1>3, <2>1 DEF ReaderOK
<1>4. CASE /\ ~TakesData /\ got' = got /\ eof' = eof /\ op'["reader"] = "read"
           /\ ~Returning' /\ ~Ending'
  BY <1>1, <1>4 DEF ReaderOK
<1> QED BY <1>2, <1>3, <1>4

\* What was dropped stays dropped.
LEMMA DroppedKept ==
    ASSUME [Next]_vars
    PROVE  dropped => dropped'
<1>1. ASSUME NEW c \in Coros, Uses(c) PROVE dropped => dropped'
  BY <1>1 DEF Uses, FlushAcquire, FlushStart, FlushDone, ReadAcquire, ReadStart, ReadDone, ShutdownStart,
              ssl_read, ssl_write, ssl_shutdown, schannel_read, schannel_renew, schannel_write,
              schannel_shutdown, Drops, Transmit, TransportFails, Cancel, history
<1>2. ASSUME NEW c \in Coros,
             Raises(c) \/ Continue(c) \/ ssl_connect(c) \/ schannel_connect(c) \/ schannel_verify(c)
      PROVE  dropped => dropped'
  BY <1>2 DEF Raises, Continue, ssl_connect, schannel_connect, schannel_verify, history
<1>3. CASE \/ openssl_from_pair \/ schannel_client_from_pair \/ schannel_server_from_pair
           \/ Read \/ Write \/ Shutdown \/ close \/ PeerSends \/ UNCHANGED vars
  BY <1>3 DEF openssl_from_pair, schannel_client_from_pair, schannel_server_from_pair, Constructs, Read, Write,
              Shutdown, Begins, close, PeerSends, vars, history
<1> QED BY <1>1, <1>2, <1>3, NextSteps

\* The steps of a read, of its shutdown and of the writer's operations.
LEMMA ReaderStep ==
    ASSUME TypeOK, ControlOK, StreamOK, EndOK, [Next]_vars
    PROVE  ReaderOK
<1>0. CoroTypes /\ HistTypes /\ Coros = {"reader", "writer"} /\ (dropped => dropped')
  BY TypeParts, DroppedKept DEF Coros
<1>1. ASSUME NEW c \in Coros,
             \/ FlushAcquire(c) \/ FlushStart(c) \/ FlushDone(c) \/ ReadAcquire(c) \/ ReadStart(c) \/ ReadDone(c)
             \/ Transmit(c) \/ TransportFails(c) \/ Cancel(c)
      PROVE  ReaderOK
  BY <1>1, TransportStill, StillOK
<1>2. ASSUME NEW c \in Coros, ShutdownStart(c) PROVE ReaderOK
  <2>1. CASE c = "writer"
    <3>1. op[c] = "shutdown"
      BY <1>2, <2>1 DEF ShutdownStart, Runs, ControlOK, CoroOK
    <3>2. ReaderStill
      BY <1>0, <1>2, <2>1, <3>1 DEF ReaderStill, ShutdownStart, GoesOn, FlushThen, FillThen, Goes, Ends, CoroTypes, HistTypes, buffers
    <3> QED BY <1>0, <3>2, StillOK
  <2>2. CASE c = "reader"
    <3>1. /\ op["reader"] = "read" /\ pc["reader"] = "shut" /\ UNCHANGED <<got, broken, rbuf>>
          /\ ~TakesData /\ Ending
      BY <1>2, <2>2 DEF ShutdownStart, Runs, ControlOK, CoroOK, GoesOn, FlushThen, FillThen, Goes, Ends, buffers, TakesData, Ending
    <3>2. \/ op' = op /\ eof' = eof /\ pc'["reader"] = "notify"
          \/ op' = op /\ eof' = eof /\ pc'["reader"] = "raise"
          \/ op' = op /\ eof' = eof /\ pc'["reader"] = "flush" /\ next'["reader"] = "eof"
          \/ op'["reader"] = "idle" /\ pc'["reader"] = "idle"
      BY <1>0, <1>2, <2>2 DEF ShutdownStart, GoesOn, FlushThen, FillThen, Goes, Ends, CoroTypes
    <3>3. \/ Ending' /\ eof' = eof
          \/ pc'["reader"] = "raise" /\ eof' = eof
          \/ op'["reader"] = "idle" /\ pc'["reader"] = "idle"
      BY <3>1, <3>2 DEF Ending, Flushes
    <3> QED BY <1>0, <3>1, <3>3, EndingOK
  <2> QED BY <1>0, <2>1, <2>2
<1>3. ASSUME NEW c \in Coros, Raises(c) PROVE ReaderOK
  <2>1. UNCHANGED <<got, eof, rbuf, next>> /\ broken'
    BY <1>3 DEF Raises, history
  <2>2. CASE c = "writer"
    <3>1. op'["reader"] = op["reader"] /\ pc'["reader"] = pc["reader"]
      BY <1>0, <1>3, <2>2 DEF Raises, Ends, CoroTypes
    <3> QED BY <1>0, <2>1, <3>1, StillOK DEF ReaderStill
  <2>3. CASE c = "reader"
    <3>1. op'["reader"] = "idle"
      BY <1>0, <1>3, <2>3 DEF Raises, Ends, CoroTypes
    <3>2. ~Ending'
      BY <3>1 DEF Ending
    <3> QED BY <1>0, <2>1, <3>1, <3>2 DEF ReaderOK
  <2> QED BY <1>0, <2>2, <2>3
<1>4. ASSUME NEW c \in Coros, Continue(c) PROVE ReaderOK
  <2>0. /\ pc[c] = "next" /\ UNCHANGED <<broken, rbuf>> /\ ~TakesData
    BY <1>4 DEF Continue, Runs, buffers, GoesOn, FlushThen, FillThen, Goes, TakesData
  <2>1. CASE c = "writer"
    <3>1. op["writer"] # "read" /\ next["writer"] # "eof"
      BY <1>0, <2>0, <2>1 DEF ControlOK, CoroOK, CoroTypes, Flushes
    <3>2. /\ UNCHANGED <<got, eof>> /\ op'["reader"] = op["reader"] /\ pc'["reader"] = pc["reader"]
          /\ next'["reader"] = next["reader"]
      BY <1>0, <1>4, <2>1, <3>1 DEF Continue, GoesOn, FlushThen, FillThen, Goes, Ends, CoroTypes
    <3> QED BY <1>0, <2>0, <3>2, StillOK DEF ReaderStill
  <2>2. CASE c = "reader"
    <3>1. op["reader"] = "read"
      BY <1>0, <2>0, <2>2 DEF ControlOK, CoroOK, CoroTypes
    <3>2. CASE next["reader"] \in {"call", "renew", "fill"}
      <4>1. /\ op'["reader"] = "read" /\ UNCHANGED <<got, eof>>
            /\ \/ pc'["reader"] \in {"call", "renew"}
               \/ pc'["reader"] = "fill" /\ next'["reader"] = "call"
        BY <1>0, <1>4, <2>2, <3>1, <3>2 DEF Continue, GoesOn, FillThen, Goes, CoroTypes
      <4>2. ~eof /\ ~Returning /\ ~Returning' /\ ~Ending'
        BY <3>1, <3>2, <4>1 DEF EndOK, Returning, Ending, Flushes, Fills
      <4> QED BY <1>0, <2>0, <2>2, <4>1, <4>2 DEF ReaderOK
    <3>3. CASE next["reader"] = "return"
      <4>1. /\ op'["reader"] = "idle" /\ pc'["reader"] = "idle" /\ got' = got + 1 /\ eof' = eof
        BY <1>0, <1>4, <2>2, <3>1, <3>3 DEF Continue, Ends, CoroTypes
      <4>2. ~eof /\ Returning /\ ~Returning' /\ ~Ending'
        BY <2>0, <2>2, <3>1, <3>3, <4>1 DEF EndOK, Returning, Ending, Flushes
      <4> QED BY <1>0, <2>0, <2>2, <4>1, <4>2 DEF ReaderOK
    <3>4. CASE next["reader"] \in {"notify", "refill", "eof", "shut"}
      <4>1. Ending /\ got' = got
        BY <1>4, <2>0, <2>2, <3>1, <3>4 DEF Continue, Ending, Flushes
      <4>2. \/ op' = op /\ eof' = eof /\ pc'["reader"] = "notify"
            \/ op' = op /\ eof' = eof /\ pc'["reader"] = "fill" /\ next'["reader"] = "notify"
            \/ op' = op /\ eof' = eof /\ pc'["reader"] = "flush" /\ next'["reader"] = "eof"
            \/ op'["reader"] = "idle" /\ pc'["reader"] = "idle"
        BY <1>0, <1>4, <2>2, <3>1, <3>4 DEF Continue, GoesOn, FlushThen, FillThen, Goes, Ends, CoroTypes
      <4>3. (Ending' /\ eof' = eof) \/ (op'["reader"] = "idle" /\ pc'["reader"] = "idle")
        BY <3>1, <4>2 DEF Ending, Flushes, Fills
      <4> QED BY <1>0, <2>0, <2>2, <4>1, <4>3, EndingOK
    <3> QED BY <1>0, <3>2, <3>3, <3>4 DEF CoroTypes
  <2> QED BY <1>0, <2>1, <2>2
<1>5. ASSUME NEW c \in Coros, ssl_read(c) PROVE ReaderOK
  <2>0. /\ c = "reader" /\ op["reader"] = "read" /\ pc["reader"] = "call"
        /\ UNCHANGED <<got, eof, broken, incoming>> /\ op'["reader"] = "read"
    BY <1>0, <1>5 DEF ssl_read, Runs, ControlOK, CoroOK, history, transport, BioWrite, WantRead, GoesOn, FlushThen, FillThen, Goes
  <2>1. /\ Tail(rbuf) # rbuf \/ rbuf = <<>>
    BY DEF TypeOK
  <2>2. ASSUME NEW kind, BioWrite(c, kind, GoesOn(c, "call"))
        PROVE  \/ pc'["reader"] \in {"raise", "call"}
               \/ pc'["reader"] = "flush" /\ next'["reader"] = "call"
    BY <1>0, <2>0, <2>2 DEF BioWrite, GoesOn, FlushThen, FillThen, Goes, CoroTypes
  <2>3. \/ /\ rbuf' = rbuf \/ (rbuf # <<>> /\ Head(rbuf) = "key")
           /\ \/ pc'["reader"] \in {"raise", "call"}
              \/ pc'["reader"] = "flush" /\ next'["reader"] \in {"call", "fill"}
        \/ /\ rbuf # <<>> /\ Head(rbuf) = "data" /\ rbuf' = Tail(rbuf)
           /\ pc'["reader"] = "flush" /\ next'["reader"] = "return"
        \/ /\ rbuf # <<>> /\ Head(rbuf) = "close" /\ pc'["reader"] = "shut"
        \/ /\ rbuf = <<>> /\ rbuf' = rbuf /\ state = "Closed"
           /\ pc'["reader"] = "flush" /\ next'["reader"] = "eof"
    BY <1>0, <1>5, <2>0, <2>2 DEF ssl_read, WantRead, BioRead, GoesOn, FlushThen, FillThen, Goes, CoroTypes
  <2>4. CASE /\ rbuf' = rbuf \/ (rbuf # <<>> /\ Head(rbuf) = "key")
             /\ \/ pc'["reader"] \in {"raise", "call"}
                \/ pc'["reader"] = "flush" /\ next'["reader"] \in {"call", "fill"}
    <3>1. ~TakesData /\ ~Returning' /\ ~Ending'
      BY <2>4 DEF TakesData, Returning, Ending, Flushes, Fills
    <3> QED BY <1>0, <2>0, <3>1, CallOK
  <2>5. CASE /\ rbuf # <<>> /\ Head(rbuf) = "data" /\ rbuf' = Tail(rbuf)
             /\ pc'["reader"] = "flush" /\ next'["reader"] = "return"
    <3>1. TakesData /\ Returning'
      BY <2>0, <2>1, <2>5 DEF TakesData, Returning, Flushes
    <3> QED BY <1>0, <2>0, <3>1, CallOK
  <2>6. CASE \/ /\ rbuf # <<>> /\ Head(rbuf) = "close" /\ pc'["reader"] = "shut"
             \/ /\ rbuf = <<>> /\ rbuf' = rbuf /\ state = "Closed"
                /\ pc'["reader"] = "flush" /\ next'["reader"] = "eof"
    <3>1. ~TakesData /\ AtTheEnd /\ Ending'
      BY <2>0, <2>6 DEF TakesData, AtTheEnd, Ending, Flushes
    <3> QED BY <1>0, <2>0, <3>1, CallOK
  <2> QED BY <2>3, <2>4, <2>5, <2>6
<1>6. ASSUME NEW c \in Coros, schannel_read(c) PROVE ReaderOK
  <2>0. /\ c = "reader" /\ op["reader"] = "read" /\ pc["reader"] = "call" /\ UNCHANGED <<broken, incoming>>
    BY <1>0, <1>6 DEF schannel_read, Runs, ControlOK, CoroOK, transport, Token, GoesOn, FlushThen, FillThen, Goes
  <2>1. /\ Tail(rbuf) # rbuf \/ rbuf = <<>>
    BY DEF TypeOK
  <2>3. \/ /\ rbuf' = rbuf /\ UNCHANGED <<got, eof>> /\ op'["reader"] = "read"
           /\ \/ pc'["reader"] \in {"raise", "renew"}
              \/ pc'["reader"] = "fill" /\ next'["reader"] = "call"
        \/ /\ rbuf # <<>> /\ Head(rbuf) = "data" /\ rbuf' = Tail(rbuf)
           /\ op'["reader"] = "idle" /\ pc'["reader"] = "idle" /\ got' = got + 1 /\ eof' = eof
        \/ /\ rbuf # <<>> /\ Head(rbuf) = "close" /\ pc'["reader"] = "shut"
           /\ UNCHANGED <<got, eof>> /\ op'["reader"] = "read"
        \/ /\ rbuf = <<>> /\ rbuf' = rbuf /\ state = "Closed" /\ got' = got
           /\ op'["reader"] = "idle" /\ pc'["reader"] = "idle"
    BY <1>0, <1>6, <2>0 DEF schannel_read, AtEnd, GoesOn, FillThen, Goes, Ends, CoroTypes
  <2>4. CASE /\ rbuf' = rbuf /\ UNCHANGED <<got, eof>> /\ op'["reader"] = "read"
             /\ \/ pc'["reader"] \in {"raise", "renew"}
                \/ pc'["reader"] = "fill" /\ next'["reader"] = "call"
    <3>1. ~TakesData /\ ~Returning' /\ ~Ending'
      BY <2>4 DEF TakesData, Returning, Ending, Flushes, Fills
    <3> QED BY <1>0, <2>0, <2>4, <3>1, CallOK
  <2>5. CASE /\ rbuf # <<>> /\ Head(rbuf) = "data" /\ rbuf' = Tail(rbuf)
             /\ op'["reader"] = "idle" /\ pc'["reader"] = "idle" /\ got' = got + 1 /\ eof' = eof
    <3>1. TakesData
      BY <2>0, <2>1, <2>5 DEF TakesData
    <3> QED BY <1>0, <2>0, <2>5, <3>1, CallOK
  <2>6. CASE \/ /\ rbuf # <<>> /\ Head(rbuf) = "close" /\ pc'["reader"] = "shut"
                /\ UNCHANGED <<got, eof>> /\ op'["reader"] = "read"
             \/ /\ rbuf = <<>> /\ rbuf' = rbuf /\ state = "Closed" /\ got' = got
                /\ op'["reader"] = "idle" /\ pc'["reader"] = "idle"
    <3>1. /\ ~TakesData /\ AtTheEnd /\ got' = got
          /\ (Ending' /\ eof' = eof) \/ (op'["reader"] = "idle" /\ pc'["reader"] = "idle")
      BY <2>0, <2>6 DEF TakesData, AtTheEnd, Ending, Flushes
    <3> QED BY <1>0, <2>0, <3>1, CallOK
  <2> QED BY <2>3, <2>4, <2>5, <2>6
<1>7. ASSUME NEW c \in Coros, ssl_write(c) \/ schannel_write(c) PROVE ReaderOK
  <2>1. c = "writer" /\ UNCHANGED <<got, eof, broken, rbuf, op>>
    BY <1>0, <1>7 DEF ssl_write, schannel_write, ControlOK, CoroOK, history, BioWrite, WantRead, GoesOn, FlushThen, Goes
  <2>2. pc'["reader"] = pc["reader"] /\ next'["reader"] = next["reader"]
    BY <1>0, <1>7, <2>1 DEF ssl_write, schannel_write, BioWrite, WantRead, GoesOn, FlushThen, Goes, CoroTypes
  <2> QED BY <1>0, <2>1, <2>2, StillOK DEF ReaderStill
<1>8. ASSUME NEW c \in Coros, ssl_shutdown(c) \/ schannel_shutdown(c) PROVE ReaderOK
  <2>0. pc[c] = "notify" /\ UNCHANGED <<got, eof, broken, op>> /\ (rbuf' = rbuf \/ dropped')
    <3>1. CASE ssl_shutdown(c)
      BY <3>1 DEF ssl_shutdown, Runs, history, BioWrite, WantRead, GoesOn, FlushThen, Goes
    <3>2. CASE schannel_shutdown(c)
      BY <3>2 DEF schannel_shutdown, Drops, Runs, Token, GoesOn, FlushThen, FillThen, Goes
    <3> QED BY <1>8, <3>1, <3>2
  <2>1. \E p \in {"raise", "flush", "fill"} :
          /\ pc' = [pc EXCEPT ![c] = p]
          /\ \/ p = "raise" /\ next' = next
             \/ p = "flush" /\ \E n \in {"notify", "refill", "shut"} : next' = [next EXCEPT ![c] = n]
             \/ p = "fill" /\ next' = [next EXCEPT ![c] = "notify"]
    <3>1. CASE ssl_shutdown(c)
      BY <2>0, <3>1 DEF ssl_shutdown, BioWrite, WantRead, GoesOn, FlushThen, Goes
    <3>2. CASE schannel_shutdown(c)
      BY <3>2 DEF schannel_shutdown, Token, GoesOn, FlushThen, FillThen, Goes
    <3> QED BY <1>8, <3>1, <3>2
  <2>2. CASE c = "writer"
    <3>1. pc'["reader"] = pc["reader"] /\ next'["reader"] = next["reader"]
      BY <1>0, <2>1, <2>2 DEF CoroTypes
    <3> QED BY <1>0, <2>0, <3>1, StillOK DEF ReaderStill
  <2>3. CASE c = "reader"
    <3>1. op["reader"] = "read"
      BY <1>0, <2>0, <2>3 DEF ControlOK, CoroOK
    <3>2. \/ pc'["reader"] = "raise"
          \/ pc'["reader"] = "flush" /\ next'["reader"] \in {"notify", "refill", "shut"}
          \/ pc'["reader"] = "fill" /\ next'["reader"] = "notify"
      BY <1>0, <2>1, <2>3 DEF CoroTypes
    <3>3. Ending /\ (pc'["reader"] = "raise" \/ Ending') /\ (~TakesData \/ dropped')
      BY <2>0, <2>3, <3>1, <3>2 DEF Ending, Flushes, Fills, TakesData
    <3> QED BY <1>0, <2>0, <2>3, <3>3, EndingOK
  <2> QED BY <1>0, <2>2, <2>3
<1>15. ASSUME NEW c \in Coros, schannel_renew(c) PROVE ReaderOK
  <2>1. c = "reader" /\ op["reader"] = "read" /\ pc["reader"] = "renew" /\ op'["reader"] = "read"
        /\ UNCHANGED <<got, eof, broken>>
    BY <1>0, <1>15 DEF schannel_renew, Runs, ControlOK, CoroOK, Token, GoesOn, FlushThen, FillThen, Goes
  <2>2. ~TakesData \/ dropped'
    BY <1>15 DEF schannel_renew, Drops, TakesData
  <2>3. \/ pc'["reader"] = "raise"
        \/ pc'["reader"] = "flush" /\ next'["reader"] \in {"call", "renew"}
        \/ pc'["reader"] = "fill" /\ next'["reader"] = "renew"
    BY <1>0, <1>15, <2>1 DEF schannel_renew, Token, GoesOn, FlushThen, FillThen, Goes, CoroTypes
  <2>4. ~eof /\ ~Returning /\ ~Returning' /\ ~Ending'
    BY <2>1, <2>3 DEF EndOK, Returning, Ending, Flushes, Fills
  <2> QED BY <1>0, <2>1, <2>2, <2>4 DEF ReaderOK
<1>9. ASSUME NEW c \in Coros, ssl_connect(c) \/ schannel_connect(c) PROVE ReaderOK
  <2>1. c = "writer" /\ UNCHANGED <<got, eof, broken, op>>
    BY <1>0, <1>9 DEF ssl_connect, schannel_connect, ControlOK, CoroOK, history, BioWrite, WantRead, GoesOn, FlushThen, FillThen,
                      Goes, Token, ConnectFirst, ConnectMore, AcceptIncomplete, AcceptFirst
  <2>2. pc'["reader"] = pc["reader"] /\ next'["reader"] = next["reader"]
    BY <1>0, <1>9, <2>1 DEF ssl_connect, schannel_connect, BioWrite, WantRead, GoesOn, FlushThen, FillThen,
                      Goes, Token, ConnectFirst, ConnectMore, AcceptIncomplete, AcceptFirst, CoroTypes
  <2>3. rbuf' = rbuf \/ ~TakesData
    <3>1. ConnectFirst(c) => rbuf = <<>>
      BY DEF ConnectFirst, StreamOK, StartOK
    <3> QED BY <1>9, <3>1 DEF ssl_connect, schannel_connect, BioRead, Accepted, TakesData, ConnectMore,
                             AcceptIncomplete, AcceptFirst
  <2> QED BY <1>0, <2>1, <2>2, <2>3, StillOK DEF ReaderStill
<1>10. ASSUME NEW c \in Coros, schannel_verify(c) PROVE ReaderOK
  <2>1. c = "writer" /\ UNCHANGED <<got, eof, rbuf, next>> /\ (broken => broken')
    BY <1>0, <1>10 DEF schannel_verify, Runs, ControlOK, CoroOK, history
  <2>2. pc'["reader"] = pc["reader"] /\ op'["reader"] = op["reader"]
    BY <1>0, <1>10, <2>1 DEF schannel_verify, Ends, CoroTypes
  <2> QED BY <1>0, <2>1, <2>2, StillOK DEF ReaderStill
<1>11. CASE openssl_from_pair \/ schannel_client_from_pair \/ schannel_server_from_pair
  <2>1. Constructs /\ \E r : Constructed(r)
    BY <1>11, ConstructorOutcome
  <2>2. /\ UNCHANGED <<got, eof, rbuf, next, broken>>
        /\ \/ UNCHANGED <<op, pc>>
           \/ op' = [op EXCEPT !["writer"] = "connect"] /\ pc' = [pc EXCEPT !["writer"] = "call"]
    BY <2>1 DEF Constructs, Constructed, Handshake, Refuse, coros, buffers, history
  <2>3. pc'["reader"] = pc["reader"] /\ op'["reader"] = op["reader"]
    BY <1>0, <2>2 DEF CoroTypes
  <2> QED BY <1>0, <2>2, <2>3, StillOK DEF ReaderStill
<1>12. CASE Read
  <2>1. /\ ~eof /\ op["reader"] = "idle" /\ UNCHANGED <<got, eof, rbuf, broken>>
        /\ op'["reader"] = "read" /\ pc'["reader"] = "call"
    BY <1>0, <1>12 DEF Read, Begins, CoroTypes, buffers
  <2>2. pc["reader"] = "idle"
    BY <1>0, <2>1 DEF ControlOK, CoroOK
  <2>3. ~Returning /\ ~Returning' /\ ~Ending' /\ ~TakesData
    BY <2>1 DEF Returning, Ending, TakesData, Flushes, Fills
  <2> QED BY <1>0, <2>1, <2>2, <2>3 DEF ReaderOK
<1>13. CASE Write \/ Shutdown
  <2>1. /\ UNCHANGED <<got, eof, rbuf, broken, next>>
        /\ op'["reader"] = op["reader"] /\ pc'["reader"] = pc["reader"]
    BY <1>0, <1>13 DEF Write, Shutdown, Begins, CoroTypes, buffers
  <2> QED BY <1>0, <2>1, StillOK DEF ReaderStill
<1>14. CASE close \/ PeerSends \/ UNCHANGED vars
  <2>1. UNCHANGED <<got, eof, rbuf, broken, next, op, pc>>
    BY <1>14 DEF close, PeerSends, vars, coros, buffers, history
  <2> QED BY <1>0, <2>1, StillOK DEF ReaderStill
<1> QED BY <1>1, <1>2, <1>3, <1>4, <1>5, <1>6, <1>7, <1>8, <1>9, <1>10, <1>11, <1>12, <1>13, <1>14, <1>15 DEF Next, Step

\* Every data record taken is returned, and 0 only at the end.
LEMMA CountStep ==
    ASSUME TypeOK, ControlOK, StreamOK, CountOK, EndOK, [Next]_vars
    PROVE  CountOK' /\ EndOK'
<1>0. got \in Nat /\ ReaderOK
  BY ReaderStep DEF TypeOK
<1>1. /\ TakenData \in Nat
      /\ ~dropped' => /\ TakesData => TakenData' = TakenData + 1
                      /\ ~TakesData => TakenData' = TakenData
  BY DataTaken
<1>2. CountOK'
  <2>1. SUFFICES ASSUME ~broken', ~dropped', pc'["reader"] # "raise"
                 PROVE  got' + (IF Returning' THEN 1 ELSE 0) = TakenData'
    BY DEF CountOK, TakenData
  <2>2. got + (IF Returning THEN 1 ELSE 0) = TakenData
    BY <1>0, <2>1 DEF ReaderOK, CountOK, TakenData
  <2> QED BY <1>0, <1>1, <2>1, <2>2 DEF ReaderOK
<1>3. ASSUME Ending' \/ eof' PROVE EndReached'
  <2>1. got' = got /\ (broken => broken') /\ (dropped => dropped') /\ (Ending \/ eof \/ AtTheEnd)
    BY <1>0, <1>3 DEF ReaderOK
  <2>2. EndReached
    BY <2>1, EndHere DEF EndOK, AtTheEnd
  <2>3. peer' = peer \/ PeerSends
    BY StepsFlow DEF Flow, ReadDone
  <2> QED BY <2>1, <2>2, <2>3, EndKept
<1> QED BY <1>0, <1>2, <1>3 DEF ReaderOK, EndOK

-----------------------------------------------------------------------------
(* The theorems. *)

\* A connection that was not made yet satisfies the inductive invariant.
LEMMA InitInv == Init => IndInv
<1> SUFFICES ASSUME Init PROVE IndInv
  OBVIOUS
<1>1. TypeOK
  <2>1. TlsTypes /\ LibTypes
    BY DEF Init, TlsTypes, LibTypes, NoResources
  <2>2. LockTypes
    <3>1. <<>> \in Seq(Coros)
      OBVIOUS
    <3> QED BY <3>1 DEF Init, LockTypes
  <2>3. CoroTypes
    BY DEF Init, CoroTypes, Places
  <2>4. BufTypes /\ WireTypes
    <3>1. /\ <<>> \in Seq(Inbound) /\ <<>> \in Seq(Inbound \ {"eof"}) /\ <<>> \in Seq(Outbound)
      OBVIOUS
    <3>2. wbuf = <<>> /\ peer = <<>> /\ rbuf = <<>> /\ incoming = <<>> /\ flight = NoFlight /\ state = "Normal"
      BY DEF Init
    <3>3. Len(wbuf) = 0 /\ Len(peer) = 0
      BY <3>2
    <3>4. flight \in [upto : 0..Capacity, sent : 0..Capacity]
      BY <3>2, Parameters DEF NoFlight
    <3>5. 0 <= Capacity /\ 0 <= MaxRecords
      BY Parameters
    <3> QED BY <3>1, <3>2, <3>3, <3>4, <3>5 DEF BufTypes, WireTypes
  <2>5. HistTypes
    <3>1. writes \in 0..MaxWrites /\ faults \in 0..MaxFaults /\ got \in Nat
      BY Parameters DEF Init
    <3>2. eof \in BOOLEAN /\ notified \in BOOLEAN /\ returned \in BOOLEAN /\ dropped \in BOOLEAN
      BY DEF Init
    <3> QED BY <3>1, <3>2 DEF HistTypes
  <2> QED BY <2>1, <2>2, <2>3, <2>4, <2>5, TypeParts
<1>2. ControlOK
  BY DEF Init, ControlOK, CoroOK, LockOK, Flushes, Fills, Coros
<1>3. Len(peer) = 0 /\ Len(incoming) = 0 /\ Len(rbuf) = 0 /\ Taken = 0
  <2>1. peer = <<>> /\ rbuf = <<>> /\ incoming = <<>>
    BY DEF Init
  <2>2. Len(peer) = 0 /\ Len(incoming) = 0 /\ Len(rbuf) = 0
    BY <2>1
  <2> QED BY <2>2 DEF Taken
<1>4. StreamOK
  BY <1>3 DEF Init, StreamOK, PeerOK, IncomingOK, ReadBufOK, StartOK, ClosedOK, Coros
<1>5. HeldOK /\ VerifiedOK
  BY DEF Init, HeldOK, HoldsNothing, NoResources, VerifiedOK
<1>6. ~Returning /\ ~Ending
  BY DEF Init, Returning, Ending, Coros
<1>7. CountOK /\ EndOK
  BY <1>3, <1>6, DataNone DEF Init, CountOK, EndOK, Coros
<1> QED BY <1>1, <1>2, <1>4, <1>5, <1>7 DEF IndInv

\* Every step preserves it.
LEMMA StepInv == IndInv /\ [Next]_vars => IndInv'
BY TypeStep, ControlStep, StreamStep, HeldStep, VerifiedStep, CountStep DEF IndInv, StreamOK

\* Tls.TypeOK holds always: no buffer, lock, ledger or coroutine of a connection is ever
\* outside its range, write_buf included, whatever the transport and the peer do.
THEOREM TlsTypeCorrect == Spec => []TypeOK
<1>1. IndInv => TypeOK
  BY DEF IndInv
<1> QED BY <1>1, InitInv, StepInv, PTL DEF Spec

\* A read returns 0 only at the end of what the peer sent, after everything before it has
\* been returned, also when it shares the connection with a writer that shuts it down, or
\* meets the end while it does so itself.  Like EofIsReal it says
\* nothing more of how much was returned once an operation has raised or connect or accept
\* has dropped input that no read had seen (schannel.mbt:159).
THEOREM TlsEofIsReal == Spec => []EofIsReal
<1>1. IndInv => EofIsReal
  BY DEF IndInv, EndOK, EofIsReal
<1> QED BY <1>1, InitInv, StepInv, PTL DEF Spec

\* Whatever return statement a constructor leaves by, nothing is released twice, and a
\* connection that failed or was closed has released everything; only the context of a
\* server whose file could not be read (schannel.mbt:296) is not held to that.
THEOREM TlsNoLeak == Spec => []NoLeak
<1>1. IndInv => NoLeak
  BY HeldMeansNoLeak DEF IndInv
<1> QED BY <1>1, InitInv, StepInv, PTL DEF Spec

\* A client that names whom it trusts is handed out after a completed handshake only if
\* the trusted roots accept its peer, with either library and either kind of root.
THEOREM TlsVerifiedPeer == Spec => []VerifiedPeer
<1>1. IndInv => VerifiedPeer
  BY DEF IndInv, VerifiedOK, VerifiedPeer
<1> QED BY <1>1, InitInv, StepInv, PTL DEF Spec

=============================================================================
