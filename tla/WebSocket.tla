----------------------------- MODULE WebSocket -----------------------------
(***************************************************************************)
(* WebSocketManager (server/websocket_manager.h) with the frame codec of   *)
(* server/websocket_server.h and the WebSocketSinkStore it sends from.     *)
(*                                                                         *)
(* Threads: the accept thread A, the broadcast thread B, the daemon's main *)
(* thread that calls Stop, SinkPool workers that push batches.  mu_ guards *)
(* connections_ and subscriptions_; a critical section is one step, except *)
(* the two in which B may block: it decodes and answers the frames of a    *)
(* connection, and it takes leave of one that it removes.                  *)
(*                                                                         *)
(* External: the kernel (lowest free descriptor number first, as POSIX     *)
(* says: the number of a closed socket is the next one given out, here to  *)
(* a later peer, in the daemon to any file) and the peers, which may send  *)
(* anything after a Close frame, another Close too, and need not read.     *)
(* The sockets are blocking ones without a timeout: a write sends all,     *)
(* fails, or waits as long as the peer's buffer is full.  An answer on a   *)
(* socket that has just been accepted finds its buffer empty.              *)
(***************************************************************************)
EXTENDS Integers, Sequences, FiniteSets, SequencesExt

CONSTANTS NumClients,  \* peers, each connects once
          NumFds,      \* descriptor numbers
          NumKeys,     \* pipeline keys
          MaxKeep,     \* max_buffer_size_ of the sink
          MaxPush,     \* bound on batches
          Talkers,     \* peers that send frames; the others only listen
          MaxMsgs,     \* bound on frames sent and not handled
          Splits,      \* positions in a frame at which a read may end
          None

ASSUME WebSocketAssumption ==
  /\ {NumFds, NumClients, NumKeys, MaxKeep} \subseteq Nat \ {0}
  /\ {MaxPush, MaxMsgs} \subseteq Nat /\ Splits \subseteq Nat
  /\ None \notin Int

VARIABLES running, listening,  \* running_; ws_fd_ is open
          apc, afd,        \* A: control and the descriptor it is setting up
          bpc, todo,       \* B: control; descriptors or keys still to serve in this phase
          cur, toRemove,   \* B: descriptor it is decoding or closing; to_remove of ProcessIncoming
          twice,           \* history: to_remove has a descriptor twice in this turn, or had in an
                           \* earlier one and the accept thread's descriptor was closed by that
          out,             \* BroadcastData: the key being served, its batch, the subscribers
                           \* still to write to, and those that could not be written to
          main,            \* main thread: "run", "join", "stopped"
          fds,             \* kernel: the peer each descriptor number denotes, 0: none
          conns,           \* connections_: key, peer at registration, bytes in recv_buf
          subs,            \* subscriptions_
          buffers,         \* WebSocketSinkStore: batches of each key, oldest first
          peer,            \* each peer: "out"; "waiting": connected, nothing sent; "asked", or "bad" if it
                           \* left or sent something else than an upgrade; "open"; "gone":
                           \* it has ended its stream, or its socket is closed
          want,            \* key a peer asks for
          sent,            \* frames a peer has sent and B has not handled
          got,             \* the newest batch each peer was sent
          full             \* peers that have not read: a write to them waits

vars == <<running, listening, apc, afd, bpc, todo, cur, toRemove, twice, out, main,
          fds, conns, subs, buffers, peer, want, sent, got, full>>

aVars == <<apc, afd>>
bVars == <<bpc, todo, cur, toRemove, twice, out>>
mgr == <<conns, subs>>
peers == <<peer, want, sent, got, full>>

Fd == 1..NumFds
Clients == 1..NumClients
Keys == 1..NumKeys
ConnInfo == [key : Keys, who : Clients, bytes : Nat]
ASSUME NoneAssumption == None \notin ConnInfo
Op == [text |-> 1, close |-> 8, ping |-> 9]
\* The frames peers send, with lengths of the three encodings: opcode, payload
\* length, and whether it is a text "subscribe:...".  Other texts leave no trace.
Frame == {[op |-> Op.text, len |-> 126, sub |-> TRUE], [op |-> Op.close, len |-> 2, sub |-> FALSE],
          [op |-> Op.ping, len |-> 65536, sub |-> FALSE]}

(***************************************************************************)
(* The codec.  A frame is its header bytes and a payload length.           *)
(***************************************************************************)

\* Lengths are below 2^24: the bytes before the last three are 0.
Weight == <<1, 256, 65536>>
BytesOf(n, width) ==
  [i \in 1..width |-> IF width - i > 2 THEN 0 ELSE (n \div Weight[width - i + 1]) % 256]
NumberOf(bytes) ==
  LET n[i \in 0..Len(bytes)] == IF i = 0 THEN 0 ELSE n[i - 1] * 256 + bytes[i] IN n[Len(bytes)]

\* EncodeFrame: FIN and opcode, then the length in one, two or eight bytes.  Peers
\* encode in the same way.
EncodeHeader(len, op) ==
  <<128 + op>> \o (IF len <= 125 THEN <<len>>
                   ELSE IF len <= 65535 THEN <<126>> \o BytesOf(len, 2)
                   ELSE <<127>> \o BytesOf(len, 8))

\* What a peer sends has the mask bit and a key of four bytes.
PeerHeader(f) ==
  LET h == EncodeHeader(f.len, f.op) IN [h EXCEPT ![2] = @ + 128] \o <<1, 2, 3, 4>>
SizeOf(f) == f.len + (IF f.len <= 125 THEN 6 ELSE IF f.len <= 65535 THEN 8 ELSE 14)

DecodeFrameIgnoresMask(data, len) ==
  IF len < 2 THEN None
  ELSE LET l7  == data[2] % 128
           ext == IF l7 = 126 THEN 2 ELSE IF l7 = 127 THEN 8 ELSE 0
       IN IF len < 2 + ext THEN None
          ELSE LET n == IF ext = 0 THEN l7 ELSE NumberOf(SubSeq(data, 3, 2 + ext))
               IN IF len < 2 + ext + n THEN None
                  ELSE [op |-> data[1] % 16, payload |-> n, consumed |-> 2 + ext + n]

\* DecodeFrame: None (std::nullopt) as long as the frame is incomplete.
DecodeFrame(data, len) ==
  IF len < 2 THEN None
  ELSE LET l7  == data[2] % 128
           ext == IF l7 = 126 THEN 2 ELSE IF l7 = 127 THEN 8 ELSE 0
       IN IF len < 2 + ext THEN None
          ELSE LET n == IF ext = 0 THEN l7 ELSE NumberOf(SubSeq(data, 3, 2 + ext))
                   header == 2 + ext + IF data[2] >= 128 THEN 4 ELSE 0
               IN IF len < header + n THEN None
                  ELSE [op |-> data[1] % 16, payload |-> n, consumed |-> header + n]

(***************************************************************************)
(* The kernel and the peers.                                               *)
(***************************************************************************)

FreeFds == {f \in Fd : fds[f] = 0}
LowestFree == CHOOSE f \in FreeFds : \A g \in FreeFds : f <= g
\* The sockets behind the numbers F are closed; what has arrived unread is dropped.
Close(F) ==
  LET C == {fds[f] : f \in F} IN
  /\ fds' = [f \in Fd |-> IF f \in F THEN 0 ELSE fds[f]]
  /\ peer' = [c \in Clients |-> IF c \in C THEN "gone" ELSE peer[c]]
  /\ sent' = [c \in Clients |-> IF c \in C THEN <<>> ELSE sent[c]]

\* Peer c takes what is written to it, and may leave no room for more.
Takes(c) == c \notin full /\ full' \in {full, full \cup {c}}

Idle == [key |-> 1, batch |-> 0, to |-> {}, dead |-> {}]

Init ==
  /\ running = TRUE /\ listening = TRUE
  /\ apc = "accept" /\ afd = None
  /\ bpc = "send" /\ todo = {} /\ cur = None /\ toRemove = <<>> /\ twice = FALSE
  /\ out = Idle
  /\ main = "run"
  /\ fds = [f \in Fd |-> 0]
  /\ conns = [f \in Fd |-> None]
  /\ subs = [k \in Keys |-> {}]
  /\ buffers = [k \in Keys |-> <<>>]
  /\ peer = [c \in Clients |-> "out"]
  /\ want = [c \in Clients |-> None]
  /\ sent = [c \in Clients |-> <<>>]
  /\ got = [c \in Clients |-> 0] /\ full = {}

\* The request of a peer arrives, an upgrade for key k.  Peers are all alike, and
\* so are keys: peer c asks for one of the first c keys.
Ask(c) ==
  /\ peer[c] = "waiting"
  /\ \E k \in Keys \cap 1..c : want' = [want EXCEPT ![c] = k]
  /\ peer' = [peer EXCEPT ![c] = "asked"]
  /\ UNCHANGED <<running, listening, aVars, bVars, main, fds, mgr, buffers, sent, got, full>>

NumSent == Cardinality({x \in Clients \X (1..MaxMsgs) : x[2] <= Len(sent[x[1]])})

\* Any frame, whatever the peer has sent before.
Send(c, f) ==
  /\ running /\ c \in Talkers /\ peer[c] = "open" /\ NumSent < MaxMsgs
  /\ sent' = [sent EXCEPT ![c] = Append(@, f)]
  /\ UNCHANGED <<running, listening, aVars, bVars, main, fds, mgr, buffers, peer, want, got, full>>

\* The end of a peer's stream, or, before the handshake, a request of another kind.
Leave(c) ==
  /\ peer[c] \in {"waiting", "open"}
  /\ peer' = [peer EXCEPT ![c] = IF @ = "open" THEN "gone" ELSE "bad"]
  /\ UNCHANGED <<running, listening, aVars, bVars, main, fds, mgr, buffers, want, sent, got, full>>

\* A peer reads what has been written to it, or its socket is reset.
Drain(c) ==
  /\ c \in full /\ full' = full \ {c}
  /\ UNCHANGED <<running, listening, aVars, bVars, main, fds, mgr, buffers, peer, want, sent, got>>

(***************************************************************************)
(* AcceptLoop.                                                             *)
(***************************************************************************)

\* B is inside one of the critical sections in which it may block.
MuFree == bpc \notin {"decode", "stuck", "close"}

\* accept returns a socket: peer c has connected.
Accept(c) ==
  /\ apc = "accept" /\ running /\ listening /\ FreeFds # {}
  /\ peer[c] = "out" /\ \A d \in 1..(c - 1) : peer[d] # "out"
  /\ peer' = [peer EXCEPT ![c] = "waiting"]
  /\ fds' = [fds EXCEPT ![LowestFree] = c]
  /\ afd' = LowestFree /\ apc' = "read"
  /\ UNCHANGED <<running, listening, bVars, main, mgr, buffers, want, sent, got, full>>

\* read returns: nothing, something that is no upgrade, or a peer that is gone
\* when the answer is written; or the descriptor has been closed meanwhile.
Refuse ==
  LET c == fds[afd] IN
  /\ apc = "read" /\ (c # 0 => peer[c] = "bad")
  /\ Close({afd}) /\ afd' = None /\ apc' = "accept"
  /\ UNCHANGED <<running, listening, bVars, main, mgr, buffers, want, got, full>>

Handshake ==
  LET c == fds[afd] IN
  /\ apc = "read" /\ c # 0 /\ peer[c] = "asked"
  /\ peer' = [peer EXCEPT ![c] = "open"] /\ apc' = "add"
  /\ UNCHANGED <<running, listening, afd, bVars, main, fds, mgr, buffers, want, sent, got, full>>

\* The accept thread is about to register a descriptor that has been closed under
\* it.  What it does with a number that is no longer its own is not followed.
Lost == apc = "add" /\ fds[afd] = 0

AddConnection ==
  LET c == fds[afd] IN
  /\ apc = "add" /\ MuFree /\ ~Lost
  /\ conns' = [conns EXCEPT ![afd] = [key |-> want[c], who |-> c, bytes |-> 0]]
  /\ subs' = [subs EXCEPT ![want[c]] = @ \cup {afd}]
  /\ want' = [want EXCEPT ![c] = None]
  /\ afd' = None /\ apc' = "accept"
  /\ UNCHANGED <<running, listening, bVars, main, fds, buffers, peer, sent, got, full>>

\* accept fails on the socket that Stop has shut down, and the loop ends.
AcceptExit ==
  /\ apc = "accept" /\ ~listening /\ ~running
  /\ apc' = "done"
  /\ UNCHANGED <<running, listening, afd, bVars, main, fds, mgr, buffers, peers>>

(***************************************************************************)
(* BroadcastLoop: ProcessIncoming, then BroadcastData.                     *)
(***************************************************************************)

StreamSize(s) ==
  LET n[i \in 0..Len(s)] == IF i = 0 THEN 0 ELSE n[i - 1] + SizeOf(s[i]) IN n[Len(s)]
Unhandled(f) == StreamSize(sent[fds[f]]) - conns[f].bytes
Readable(f) == conns[f] # None /\ (peer[conns[f].who] = "gone" \/ Unhandled(f) > 0)

RemoveLeavesEntry(F) == UNCHANGED mgr

\* Out of both maps.  A Close frame and close follow, in maps or not.
RemoveConnectionLocked(F) ==
  /\ conns' = [f \in Fd |-> IF f \in F THEN None ELSE conns[f]]
  /\ subs' = [k \in Keys |-> {f \in subs[k] : f \in F => conns[f] = None \/ conns[f].key # k}]

\* A turn of the loop begins: snapshot and poll, in one step, as only B removes
\* connections.
Poll ==
  /\ bpc = "send" /\ todo = {} /\ running
  /\ todo' = {f \in Fd : Readable(f)}
  /\ bpc' = "incoming"
  /\ UNCHANGED <<running, listening, aVars, cur, toRemove, twice, out, main, fds, mgr, buffers, peers>>

\* read: the end of the stream, or some of the bytes, then the lock.  (More than the
\* 4096 bytes of one read stand for the reads of several turns.)
Read(f) ==
  LET total == conns[f].bytes + Unhandled(f) IN
  /\ bpc = "incoming" /\ f \in todo
  /\ todo' = todo \ {f}
  /\ IF Unhandled(f) = 0
     THEN toRemove' = Append(toRemove, f) /\ UNCHANGED <<bpc, cur, conns>>
     ELSE /\ \E n \in Splits \cup {total} : n \in (conns[f].bytes + 1)..total /\ conns' = [conns EXCEPT ![f].bytes = n]
          /\ bpc' = "decode" /\ cur' = f /\ UNCHANGED toRemove
  /\ UNCHANGED <<running, listening, aVars, twice, out, main, fds, subs, buffers, peers>>

Decoded == IF sent[fds[cur]] = <<>> THEN None
           ELSE DecodeFrame(PeerHeader(Head(sent[fds[cur]])), conns[cur].bytes)

\* One complete frame.  A Close is noted, whether or not one was before; a Ping is
\* answered; a text that begins with "subscribe:" makes HandleTextMessage lock mu_,
\* which this thread holds.
HandleFrame ==
  LET c == fds[cur]   f == Head(sent[c]) IN
  /\ bpc = "decode" /\ Decoded # None
  /\ conns' = [conns EXCEPT ![cur].bytes = @ - Decoded.consumed]
  /\ sent' = [sent EXCEPT ![c] = Tail(@)]
  /\ IF f.op = Op.close
     THEN toRemove' = Append(toRemove, cur) /\ twice' = (twice \/ cur \in Range(toRemove))
     ELSE UNCHANGED <<toRemove, twice>>
  /\ IF f.op = Op.ping THEN Takes(c) ELSE UNCHANGED full
  /\ bpc' = IF f.sub THEN "stuck" ELSE "decode"
  /\ UNCHANGED <<running, listening, aVars, todo, cur, out, main, fds, subs, buffers, peer, want, got>>

DecodeEnds ==
  /\ bpc = "decode" /\ Decoded = None
  /\ bpc' = "incoming" /\ cur' = None
  /\ UNCHANGED <<running, listening, aVars, todo, toRemove, twice, out, main, fds, mgr, buffers, peers>>

\* RemoveConnection locks mu_ and takes the number out of the maps ...
RemoveListed ==
  /\ bpc = "incoming" /\ todo = {} /\ toRemove # <<>>
  /\ RemoveConnectionLocked({Head(toRemove)})
  /\ bpc' = "close" /\ cur' = Head(toRemove) /\ toRemove' = Tail(toRemove)
  /\ UNCHANGED <<running, listening, aVars, todo, twice, out, main, fds, buffers, peers>>

\* ... writes a Close frame to whatever the number denotes, which may have to wait,
\* and closes that.
CloseListed ==
  /\ bpc = "close" /\ fds[cur] \notin full
  /\ Close({cur})
  /\ bpc' = "incoming" /\ cur' = None
  /\ UNCHANGED <<running, listening, aVars, todo, toRemove, twice, out, main, mgr, buffers, want, got, full>>

SnapshotSubscriptions ==
  /\ bpc = "incoming" /\ todo = {} /\ toRemove = <<>>
  /\ bpc' = "send" /\ twice' = (twice /\ afd # None /\ fds[afd] = 0)
  /\ todo' = {<<k, subs[k]>> : k \in {k \in Keys : subs[k] # {}}}
  /\ UNCHANGED <<running, listening, aVars, cur, toRemove, out, main, fds, mgr, buffers, peers>>

Latest(k) == IF buffers[k] = <<>> THEN 0 ELSE Last(buffers[k])

BroadcastKeyFirstOnly(e) ==
  LET v == Latest(e[1]) IN
  /\ bpc = "send" /\ e \in todo
  /\ todo' = todo \ {e}
  /\ IF v = 0 THEN UNCHANGED <<bpc, out>>
     ELSE bpc' = "write" /\ out' = [key |-> e[1], batch |-> v, to |-> {Min(e[2])}, dead |-> {}]
  /\ UNCHANGED <<running, listening, aVars, cur, toRemove, twice, main, fds, mgr, buffers, peers>>

\* The newest batch of a key is read, for every subscriber of the snapshot.
BroadcastKey(e) ==
  LET v == Latest(e[1]) IN
  /\ bpc = "send" /\ e \in todo
  /\ todo' = todo \ {e}
  /\ IF v = 0 THEN UNCHANGED <<bpc, out>>
     ELSE bpc' = "write" /\ out' = [key |-> e[1], batch |-> v, to |-> e[2], dead |-> {}]
  /\ UNCHANGED <<running, listening, aVars, cur, toRemove, twice, main, fds, mgr, buffers, peers>>

\* write to one subscriber, without mu_: it waits until the peer has room.
WriteTo(f) ==
  LET c == fds[f] IN
  /\ bpc = "write" /\ f \in out.to
  /\ Takes(c)
  /\ got' = [got EXCEPT ![c] = out.batch]
  /\ out' = [out EXCEPT !.to = @ \ {f}]
  /\ UNCHANGED <<running, listening, aVars, bpc, todo, cur, toRemove, twice, main, fds, mgr, buffers,
                 peer, want, sent>>

\* The peer has gone, and write fails.
WriteFails(f) ==
  /\ bpc = "write" /\ f \in out.to
  /\ fds[f] \notin full /\ peer[fds[f]] = "gone"
  /\ out' = [out EXCEPT !.to = @ \ {f}, !.dead = @ \cup {f}]
  /\ UNCHANGED <<running, listening, aVars, bpc, todo, cur, toRemove, twice, main, fds, mgr, buffers, peers>>

\* Who could not be written to is removed: the socket has failed, so that nothing
\* waits for its Close frame.
RemoveDead ==
  /\ bpc = "write" /\ out.to = {}
  /\ RemoveConnectionLocked(out.dead) /\ Close(out.dead)
  /\ bpc' = "send" /\ out' = Idle
  /\ UNCHANGED <<running, listening, aVars, todo, cur, toRemove, twice, main, buffers, want, got, full>>

BroadcastExit ==
  /\ bpc = "send" /\ todo = {} /\ ~running
  /\ bpc' = "done"
  /\ UNCHANGED <<running, listening, aVars, todo, cur, toRemove, twice, out, main, fds, mgr, buffers, peers>>

(***************************************************************************)
(* The sink and Stop.                                                      *)
(***************************************************************************)

NumPushed == Max({0} \cup UNION {Range(buffers[k]) : k \in Keys})

\* WebSocketSink::Write: the newest MaxKeep batches of the key are kept.
PushBatch(k) ==
  LET q == Append(buffers[k], NumPushed + 1) IN
  /\ running /\ NumPushed < MaxPush
  /\ buffers' = [buffers EXCEPT ![k] = IF Len(q) > MaxKeep THEN Tail(q) ELSE q]
  /\ UNCHANGED <<running, listening, aVars, bVars, main, fds, mgr, peers>>

StopBeginNoShutdown ==
  /\ main = "run"
  /\ running' = FALSE /\ main' = "join"
  /\ UNCHANGED <<listening, aVars, bVars, fds, mgr, buffers, peers>>

StopBegin ==
  /\ main = "run"
  /\ running' = FALSE /\ listening' = FALSE /\ main' = "join"
  /\ UNCHANGED <<aVars, bVars, fds, mgr, buffers, peers>>

\* Both threads are joined; what is left in connections_ gets a Close frame and is closed.
StopCloseAll ==
  /\ main = "join" /\ apc = "done" /\ bpc = "done"
  /\ \A f \in Fd : conns[f] # None => fds[f] \notin full
  /\ main' = "stopped"
  /\ Close({f \in Fd : conns[f] # None})
  /\ conns' = [f \in Fd |-> None] /\ subs' = [k \in Keys |-> {}]
  /\ UNCHANGED <<running, listening, aVars, bVars, buffers, want, got, full>>

ANext == (\E c \in Clients : Accept(c)) \/ Refuse \/ Handshake \/ AddConnection \/ AcceptExit
BNext == \/ Poll \/ (\E f \in Fd : Read(f)) \/ HandleFrame \/ DecodeEnds \/ RemoveListed \/ CloseListed
         \/ SnapshotSubscriptions \/ (\E e \in todo : BroadcastKey(e))
         \/ (\E f \in Fd : WriteTo(f) \/ WriteFails(f)) \/ RemoveDead \/ BroadcastExit
MainNext == StopBegin \/ StopCloseAll

Next ==
  \/ ANext \/ BNext \/ MainNext
  \/ \E c \in Clients : Ask(c) \/ Leave(c) \/ Drain(c) \/ \E f \in Frame : Send(c, f)
  \/ \E k \in Keys : PushBatch(k)

Spec == Init /\ [][Next]_vars

\* The threads run; a peer that connects sends its request or leaves: the accept
\* thread reads it without a timeout.  Nothing is said of what peers read.
FairSpec ==
  /\ Spec /\ WF_vars(Refuse \/ Handshake \/ AddConnection \/ AcceptExit) /\ WF_vars(BNext)
  /\ WF_vars(StopCloseAll)
  /\ WF_vars(\E c \in Clients : peer[c] = "waiting" /\ (Ask(c) \/ Leave(c)))

-----------------------------------------------------------------------------

TypeOK ==
  /\ {running, listening, twice} \subseteq BOOLEAN
  /\ apc \in {"accept", "read", "add", "done"} /\ afd \in Fd \cup {None}
  /\ bpc \in {"incoming", "decode", "stuck", "close", "send", "write", "done"}
  /\ cur \in Fd \cup {None} /\ toRemove \in Seq(Fd)
  /\ out \in [key : Keys, batch : 0..MaxPush, to : SUBSET Fd, dead : SUBSET Fd]
  /\ main \in {"run", "join", "stopped"}
  /\ fds \in [Fd -> Clients \cup {0}]
  /\ \A f \in Fd : conns[f] = None \/ conns[f] \in ConnInfo
  /\ subs \in [Keys -> SUBSET Fd]
  /\ \A k \in Keys : buffers[k] \in Seq(1..MaxPush) /\ Len(buffers[k]) <= MaxKeep
  /\ full \subseteq Clients

\* A descriptor number the manager remembers still denotes the socket it denoted when
\* it was remembered.  Of a number in connections_, or among those being written to,
\* that always holds.  Of one with the accept thread, in to_remove or being closed it
\* holds as long as no peer has got itself listed twice in one turn, with two Close
\* frames in what was read at once: the second removal writes to and closes whatever
\* the number denotes by then.
OwnDescriptors ==
  /\ \A f \in Fd : conns[f] # None => fds[f] = conns[f].who
  /\ apc \in {"read", "add"} => conns[afd] = None /\ (fds[afd] # 0 \/ twice)
  /\ bpc = "write" => \A f \in out.to \cup out.dead : conns[f] # None /\ conns[f].key = out.key
  /\ ~twice => /\ \A i \in 1..Len(toRemove) : conns[toRemove[i]] # None
               /\ IsInjective(toRemove)
               /\ bpc = "close" => fds[cur] # 0 /\ cur # afd

\* subscriptions_ and connections_ are two indexes of the same set.
IndexesAgree ==
  \A f \in Fd, k \in Keys : f \in subs[k] <=> conns[f] # None /\ conns[f].key = k

\* Every open descriptor is in connections_, with the accept thread or about to be
\* closed, and after Stop none is left open.
NoLeak ==
  /\ \A f \in Fd : fds[f] # 0 => conns[f] # None \/ f = afd \/ (bpc = "close" /\ f = cur)
  /\ main = "stopped" => \A f \in Fd : fds[f] = 0

\* The tables of the manager and the descriptors of the process agree.
TablesSound == TypeOK /\ OwnDescriptors /\ IndexesAgree /\ NoLeak

\* However reads split the stream, DecodeFrame answers exactly when the first frame
\* has arrived completely, with its opcode and length, and consumes its bytes only.
FramesInStep ==
  \A f \in Fd :
    conns[f] # None /\ sent[conns[f].who] # <<>> =>
      LET m == Head(sent[conns[f].who])
          d == DecodeFrame(PeerHeader(m), conns[f].bytes)
      IN IF conns[f].bytes < SizeOf(m) THEN d = None
         ELSE d = [op |-> m.op, payload |-> m.len, consumed |-> SizeOf(m)]

\* Every peer reads, again and again: nothing in the manager makes it, and no write
\* has a timeout.
Reads == \A c \in Clients : []<>(c \notin full)

\* If the peers read, Stop returns, unless a peer has asked for another key, which
\* leaves the broadcast thread waiting for the mutex it holds, or the accept thread
\* has lost its descriptor.  A peer that does not read keeps Stop from returning.
\* (Stop is called once, and nothing leads out of the two exceptions.)
StopReturns == Reads => []<>(main # "join" \/ bpc = "stuck" \/ Lost)

\* main.cc:239, "Ctrl+C to stop.": Stop returns, whatever the peers have sent.
\* Violated: HandleTextMessage locks mu_, which ProcessIncoming holds.
StopAlwaysReturns == main # "run" ~> main = "stopped"

\* If the peers read, again and again each connected one is up to date with its key,
\* as long as the manager runs and is not stuck.  One peer that does not read keeps
\* everything from all of them.
Behind(f) ==
  /\ conns[f] # None /\ got[conns[f].who] < Latest(conns[f].key)
  /\ bpc # "stuck" /\ main = "run"
DeliversLatest == Reads => \A f \in Fd : []<>~Behind(f)
=============================================================================
