------------------------------ MODULE SyncManager ------------------------------
(***************************************************************************)
(* Block synchronisation between nodes (plugins/net_plugin): connections   *)
(* and their write queues, handshakes, notices and requests, the           *)
(* sync_manager that fetches irreversible blocks in chunks and the newest  *)
(* ones from a peer's branch, the relay of new blocks, and the faults the  *)
(* plugin answers: a lost connection, a peer that falls silent, an answer  *)
(* later than the timer.  All nodes run the same code.                     *)
(*                                                                         *)
(* There is one chain, whose blocks are their numbers; forks are the       *)
(* business of the controller.  A node that dials keeps its connection     *)
(* object over reconnects; the other end gets a new one each time.         *)
(***************************************************************************)
EXTENDS Naturals, Sequences, FiniteSets, FiniteSetsExt

CONSTANTS Nodes,      \* positive numbers, in the order of net_plugin_impl::connections
          Dials,      \* pairs <<n, p>>: p is one of n's configured peers
          InitHead,   \* the newest block each node holds at first
          Lag,        \* how far the last irreversible block is behind the head
          Span,       \* sync_req_span
          Producers,  \* nodes that may append a block
          MaxHead,    \* bound: the chain's last block
          MaxFaults   \* bound: lost connections, silent peers, late answers

ASSUME NetworkAssumption ==
    /\ IsFiniteSet(Nodes) /\ Nodes \subseteq Nat \ {0} /\ Producers \subseteq Nodes
    /\ \A d \in Dials : d[1] \in Nodes /\ d[2] \in Nodes /\ <<d[2], d[1]>> \notin Dials
ASSUME BlockAssumption ==
    /\ Lag \in Nat \ {0} /\ Span \in Nat \ {0} /\ MaxHead \in Nat /\ MaxFaults \in Nat
    /\ \A n \in Nodes : InitHead[n] \in (Lag + 1)..MaxHead

VARIABLES node,     \* what each node keeps
          silent,   \* peers that stopped without closing their sockets
          faults    \* faults so far

vars == <<node, silent, faults>>

None == 0
NoRequest == <<>>
Peers(n) == {p \in Nodes : <<n, p>> \in Dials \/ <<p, n>> \in Dials}

(***************************************************************************)
(* connection: phase stands for the socket and connecting; syncing; sent   *)
(* and recv are the irreversible block of last_handshake_sent and _recv, 0 *)
(* for none; fork is fork_head; request is peer_requested, idle when no    *)
(* write is under way that would go on with it; timer is                   *)
(* response_expected; out is what was handed to the socket and not read    *)
(* yet, waiting the write queue that a running synchronisation postpones.  *)
(***************************************************************************)
Closed == [phase |-> "closed", syncing |-> FALSE, sent |-> 0, recv |-> 0, fork |-> 0,
           request |-> NoRequest, timer |-> FALSE, out |-> <<>>, waiting |-> <<>>]

Message ==
    [type : {"handshake"}, first : BOOLEAN, head : Nat, lib : Nat]
        \cup [type : {"last_irr_catch_up"}, lib : Nat]
        \cup [type : {"catch_up", "block"}, num : Nat]
        \cup [type : {"request_catch_up", "request_none"}]
        \cup [type : {"sync_request"}, start : Nat, end : Nat]

Connection ==
    [phase : {"closed", "connecting", "open"}, syncing : BOOLEAN, sent : Nat, recv : Nat,
     fork : Nat, request : {NoRequest} \cup [last : Nat, end : Nat, idle : BOOLEAN], timer : BOOLEAN,
     out : Seq(Message), waiting : Seq(Message)]

TypeOK ==
    /\ \A n \in Nodes :
        /\ node[n].head \in 1..MaxHead
        /\ node[n].known \in Nat /\ node[n].last \in Nat /\ node[n].next \in Nat
        /\ node[n].source \in Peers(n) \cup {None}
        /\ node[n].state \in {"lib_catchup", "head_catchup", "in_sync"}
        /\ node[n].connections \subseteq Peers(n)
        /\ node[n].conn \in [Peers(n) -> Connection]
    /\ silent \subseteq Nodes /\ faults \in 0..MaxFaults

Init ==
    /\ node = [n \in Nodes |->
                [head |-> InitHead[n], known |-> 0, last |-> 0, next |-> 1, source |-> None,
                 state |-> "in_sync", connections |-> {p \in Nodes : <<n, p>> \in Dials},
                 conn |-> [p \in Peers(n) |-> Closed]]]
    /\ silent = {} /\ faults = 0

----------------------------------------------------------------------------
(***************************************************************************)
(* The operators below take the state s of a node and give the state after *)
(* the call; c is one of its connections.                                  *)
(***************************************************************************)
last_irreversible_block_num(s) == s.head - Lag

current(s, c) == s.conn[c].phase = "open" /\ ~s.conn[c].syncing

\* While blocks of a request are being written, other messages wait behind
\* them.  If the writing has stopped, the message is written at once.
enqueue(s, c, m) ==
    IF s.conn[c].phase = "closed" THEN s
    ELSE IF s.conn[c].request = NoRequest
         THEN [s EXCEPT !.conn[c].out = Append(@, m)]
    ELSE IF s.conn[c].request.idle
         THEN [s EXCEPT !.conn[c].out = Append(@, m),
                        !.conn[c].request = [s.conn[c].request EXCEPT !.idle = FALSE]]
         ELSE [s EXCEPT !.conn[c].waiting = Append(@, m)]

flush_queues(s, c) == [s EXCEPT !.conn[c].waiting = <<>>]

send_handshake(s, c) ==
    enqueue([s EXCEPT !.conn[c].sent = last_irreversible_block_num(s)], c,
            [type |-> "handshake", first |-> s.conn[c].sent = 0,
             head |-> s.head, lib |-> last_irreversible_block_num(s)])

send_handshakes(s) ==
    [s EXCEPT !.conn = [c \in DOMAIN s.conn |->
        IF c \in s.connections /\ current(s, c) THEN send_handshake(s, c).conn[c] ELSE s.conn[c]]]

\* The next block of the peer's request.  The waiting messages follow the last
\* one, and a block that is not here; with none waiting the writing stops.
enqueue_sync_block(s, c) ==
    IF s.conn[c].request = NoRequest THEN s
    ELSE LET k    == s.conn[c]
             num  == k.request.last + 1
             done == num = k.request.end
             held == num <= s.head
             sent == IF held THEN <<[type |-> "block", num |-> num]>> ELSE <<>>
         IN  [s EXCEPT !.conn[c] =
                [k EXCEPT !.request = IF done THEN NoRequest
                                      ELSE [last |-> num, end |-> k.request.end,
                                            idle |-> ~held /\ k.waiting = <<>>],
                          !.out = k.out \o sent \o (IF done \/ ~held THEN k.waiting ELSE <<>>),
                          !.waiting = IF done \/ ~held THEN <<>> ELSE k.waiting]]

request_sync_blocks(s, c, first, final) ==
    [enqueue(s, c, [type |-> "sync_request", start |-> first, end |-> final])
        EXCEPT !.conn[c].timer = TRUE]

cancel_sync(s, c) ==
    enqueue(flush_queues([s EXCEPT !.conn[c].timer = FALSE], c), c,
            [type |-> "sync_request", start |-> 0, end |-> 0])

----------------------------------------------------------------------------
(* sync_manager *)

set_state(s, stage) == [s EXCEPT !.state = stage]

\* The connection asked next: the one given if it can be used, else the first
\* usable one after the old source, round the list of connections.
next_source(s, c) ==
    IF c # None /\ current(s, c) THEN c
    ELSE IF Cardinality(s.connections) = 1
         THEN IF s.source = None THEN CHOOSE p \in s.connections : TRUE ELSE s.source
         ELSE LET usable == {p \in s.connections : current(s, p)}
                  old    == IF s.source \in s.connections THEN s.source ELSE None
                  after  == {p \in usable : p > old}
              IN  IF after # {} THEN Min(after) ELSE IF usable # {} THEN Min(usable) ELSE old

\* Mutant: counts the blocks of a chunk when it asks for them.
request_chunk_counts(s) ==
    LET final == Min({s.next + Span - 1, s.known})
    IN  IF s.source = None \/ ~current(s, s.source)
        THEN [s EXCEPT !.known = last_irreversible_block_num(s), !.last = 0, !.state = "in_sync"]
        ELSE IF s.last # s.known /\ final >= s.next
             THEN request_sync_blocks([s EXCEPT !.last = final, !.next = final + 1],
                                      s.source, s.next, final)
             ELSE s

request_chunk(s) ==
    IF s.source = None \/ ~current(s, s.source)
    THEN [s EXCEPT !.known = last_irreversible_block_num(s), !.last = 0, !.state = "in_sync"]
    ELSE LET final == Min({s.next + Span - 1, s.known})
         IN  IF s.last # s.known /\ final >= s.next
             THEN request_sync_blocks([s EXCEPT !.last = final], s.source, s.next, final)
             ELSE s

request_next_chunk(s, c) ==
    IF s.head < s.last /\ s.source # None /\ current(s, s.source) THEN s
    ELSE request_chunk([s EXCEPT !.source = next_source(s, c)])

reset_source(s) == IF s.state = "in_sync" THEN [s EXCEPT !.source = None] ELSE s

reset_known(s, c) ==
    IF current(s, c) THEN [s EXCEPT !.known = Max({@, s.conn[c].recv})]
    ELSE IF c = s.source THEN request_next_chunk([s EXCEPT !.last = 0], None)
    ELSE s

reset_lib_num(s, c) == reset_known(reset_source(s), c)

close(s, c) ==
    reset_lib_num([s EXCEPT !.conn[c] = [Closed EXCEPT !.fork = s.conn[c].fork,
                                                       !.out = s.conn[c].out]], c)

sync_required(s) == s.last < s.known \/ s.head < s.last

begin_catchup(s) ==
    IF s.state = "in_sync"
    THEN [s EXCEPT !.state = "lib_catchup", !.next = last_irreversible_block_num(s) + 1]
    ELSE s

continue_sync(s, c) ==
    IF sync_required(s) THEN request_next_chunk(begin_catchup(s), c) ELSE s

start_sync(s, c, target) == continue_sync([s EXCEPT !.known = Max({@, target})], c)

\* Mutant: what was asked for stays asked for.
reassign_fetch_pending(s, c) ==
    IF c = s.source THEN request_next_chunk(cancel_sync(s, c), None) ELSE s

reassign_fetch(s, c) ==
    IF c = s.source
    THEN request_next_chunk([cancel_sync(s, c) EXCEPT !.last = 0], None)
    ELSE s

\* Asks c for its branch unless some connection has announced that head, or a later one.
verify_catchup(s, c, num) ==
    IF \E p \in s.connections : s.conn[p].fork >= num
    THEN enqueue([s EXCEPT !.conn[c].fork = 0], c, [type |-> "request_none"])
    ELSE IF s.state = "lib_catchup"
         THEN [s EXCEPT !.conn[c].fork = num]
         ELSE enqueue([s EXCEPT !.conn[c].fork = num, !.state = "head_catchup"], c,
                      [type |-> "request_catch_up"])

\* The sync checks 0 to 4 of recv_handshake.
sync_check(s, c, m) ==
    IF s.head = m.head \/ s.head < m.lib THEN s
    ELSE IF last_irreversible_block_num(s) > m.head
         THEN [enqueue(s, c, [type |-> "last_irr_catch_up", lib |-> last_irreversible_block_num(s)])
                 EXCEPT !.conn[c].syncing = TRUE]
    ELSE IF s.head <= m.head THEN verify_catchup(s, c, m.head)
    ELSE [enqueue(s, c, [type |-> "catch_up", num |-> s.head]) EXCEPT !.conn[c].syncing = TRUE]

recv_handshake(s, c, m) ==
    sync_check([reset_lib_num(s, c) EXCEPT !.conn[c].syncing = FALSE], c, m)

rejected_block(s, c) ==
    IF s.state = "in_sync" THEN s
    ELSE send_handshakes(set_state(close([s EXCEPT !.last = 0, !.source = None], c), "in_sync"))

\* In head_catchup the loop over the connections clears the fork head of c, the
\* sender of the block, wherever it finds one that the block reaches.
recv_head_block(s, c, num) ==
    LET announced == {p \in s.connections : s.conn[p].fork # 0}
        reached   == {p \in announced : s.conn[p].fork <= num}
        ahead     == {p \in announced \ reached : p # c \/ ~\E q \in reached : q < c}
    IN  [s EXCEPT !.source = None,
                  !.state = IF ahead = {} THEN "in_sync" ELSE "head_catchup",
                  !.conn[c].fork = IF reached = {} THEN @ ELSE 0]

\* Mutant: the peers are not told that the irreversible blocks are all here.
recv_lib_block_quiet(s, c, num) ==
    IF num = s.known THEN set_state(s, "in_sync")
    ELSE IF num = s.last THEN request_next_chunk(s, None)
    ELSE [s EXCEPT !.conn[c].timer = TRUE]

recv_lib_block(s, c, num) ==
    IF num = s.known THEN send_handshakes(set_state(s, "in_sync"))
    ELSE IF num = s.last THEN request_next_chunk(s, None)
    ELSE [s EXCEPT !.conn[c].timer = TRUE]

recv_block(s, c, num) ==
    IF s.state = "lib_catchup"
    THEN IF num # s.next THEN close(s, c) ELSE recv_lib_block([s EXCEPT !.next = num + 1], c, num)
    ELSE IF s.state = "head_catchup" THEN recv_head_block(s, c, num) ELSE s

----------------------------------------------------------------------------
(* net_plugin_impl::handle_message, by kind of message, and the blocks sent on *)

handle_handshake(s, c, m) ==
    recv_handshake(
        [(IF m.first /\ s.conn[c].sent = 0 THEN send_handshake(s, c) ELSE s)
            EXCEPT !.conn[c].phase = "open", !.conn[c].recv = m.lib], c, m)

handle_last_irr(s, c, m) ==
    start_sync(reset_lib_num([s EXCEPT !.conn[c].phase = "open", !.conn[c].recv = m.lib], c),
               c, m.lib)

handle_catch_up(s, c, m) == verify_catchup([s EXCEPT !.conn[c].phase = "open"], c, m.num)

\* connection::blk_send_branch
handle_request_catch_up(s, c) ==
    LET lib    == IF s.conn[c].sent # 0 THEN s.conn[c].sent ELSE last_irreversible_block_num(s)
        branch == IF s.conn[c].request = NoRequest THEN [last |-> lib, end |-> s.head, idle |-> FALSE]
                  ELSE [last |-> Min({s.conn[c].request.last, lib}),
                        end  |-> Max({s.conn[c].request.end, s.head}), idle |-> FALSE]
    IN  [enqueue_sync_block([s EXCEPT !.conn[c].request = branch], c) EXCEPT !.conn[c].syncing = FALSE]

\* connection::stop_send
handle_request_none(s, c) == [s EXCEPT !.conn[c].syncing = FALSE]

handle_sync_request(s, c, m) ==
    IF m.end = 0 THEN flush_queues([s EXCEPT !.conn[c].request = NoRequest], c)
    ELSE enqueue_sync_block([s EXCEPT !.conn[c].request =
                                [last |-> m.start - 1, end |-> m.end, idle |-> FALSE]], c)

\* dispatch_manager::bcast_block to all but the sender of the block
bcast_block(s, from) ==
    [s EXCEPT !.conn = [c \in DOMAIN s.conn |->
        IF c \in s.connections /\ c # from /\ current(s, c)
        THEN enqueue(s, c, [type |-> "block", num |-> s.head]).conn[c] ELSE s.conn[c]]]

handle_block(s, c, m) ==
    IF m.num <= s.head THEN recv_block(s, c, m.num)
    ELSE IF m.num = s.head + 1 THEN recv_block(bcast_block([s EXCEPT !.head = m.num], c), c, m.num)
    ELSE rejected_block(s, c)

handle_message(s, c, m) ==
    CASE m.type = "handshake"         -> handle_handshake(s, c, m)
      [] m.type = "last_irr_catch_up" -> handle_last_irr(s, c, m)
      [] m.type = "catch_up"          -> handle_catch_up(s, c, m)
      [] m.type = "request_catch_up"  -> handle_request_catch_up(s, c)
      [] m.type = "request_none"      -> handle_request_none(s, c)
      [] m.type = "sync_request"      -> handle_sync_request(s, c, m)
      [] m.type = "block"             -> handle_block([s EXCEPT !.conn[c].timer = FALSE], c, m)

----------------------------------------------------------------------------
Alive(n) == n \notin silent

\* Nobody reads what is sent to a silent peer.
unread(s, gone) ==
    [s EXCEPT !.conn = [c \in DOMAIN s.conn |->
        IF c \in gone THEN [s.conn[c] EXCEPT !.out = <<>>, !.waiting = <<>>] ELSE s.conn[c]]]

\* n dials p: connection_monitor, connect and start_session here, start_listen_loop there.
Connect(n, p) ==
    /\ <<n, p>> \in Dials /\ Alive(n) /\ Alive(p)
    /\ node[n].conn[p].phase = "closed" /\ node[p].conn[n].phase = "closed"
    /\ node' = [node EXCEPT
                 ![n] = send_handshake([@ EXCEPT !.conn[p].phase = "connecting",
                                                 !.conn[p].out = <<>>], p),
                 ![p] = [@ EXCEPT !.connections = node[p].connections \cup {n},
                                  !.conn[n] = [Closed EXCEPT !.phase = "connecting"]]]
    /\ UNCHANGED <<silent, faults>>

\* n reads and handles the next message of p.
Receive(n, p) ==
    /\ Alive(n) /\ node[n].conn[p].phase # "closed" /\ node[p].conn[n].out # <<>>
    /\ node' = [node EXCEPT ![p].conn[n].out = Tail(@),
                            ![n] = unread(handle_message(@, p, Head(node[p].conn[n].out)), silent)]
    /\ UNCHANGED <<silent, faults>>

\* A write to p has completed: do_queue_write's handler goes on with the next
\* block.  If the writing had stopped, it is the write of the ticker's next
\* time_message, which changes nothing else.
WriteNext(n, p) ==
    /\ Alive(n) /\ node[n].conn[p].phase # "closed" /\ node[n].conn[p].request # NoRequest
    /\ node' = [node EXCEPT ![n] = enqueue_sync_block(@, p)]
    /\ UNCHANGED <<silent, faults>>

\* A write is under way that goes on with the peer's request.
Serving(k) == k.request # NoRequest /\ ~k.request.idle

\* Nothing is on its way from p to n, and nothing will be until n asks again.
Unanswered(n, p) ==
    /\ node[p].conn[n].out = <<>>
    /\ ~Alive(p) \/ (node[n].conn[p].out = <<>> /\ ~Serving(node[p].conn[n]))

sync_timeout(n, p) ==
    /\ Alive(n) /\ node[n].conn[p].timer
    /\ node' = [node EXCEPT ![n] =
                 unread(reassign_fetch([@ EXCEPT !.conn[p].timer = FALSE], p), silent)]
    /\ UNCHANGED silent

Timeout(n, p) == Unanswered(n, p) /\ sync_timeout(n, p) /\ UNCHANGED faults

\* The answer is on its way when the timer expires.
LateAnswer(n, p) ==
    /\ faults < MaxFaults /\ faults' = faults + 1
    /\ ~Unanswered(n, p) /\ sync_timeout(n, p)

\* A read finds that p has closed the connection.
ReadEof(n, p) ==
    /\ Alive(n) /\ node[n].conn[p].phase # "closed" /\ node[p].conn[n].phase = "closed"
    /\ node' = [node EXCEPT ![n] = unread(close(@, p), silent \cup {p}),
                            ![p].conn[n].out = <<>>]
    /\ UNCHANGED <<silent, faults>>

\* connection_monitor drops a closed connection that n did not dial.
EraseConnection(n, p) ==
    /\ Alive(n) /\ <<n, p>> \notin Dials /\ p \in node[n].connections
    /\ node[n].conn[p].phase = "closed"
    /\ node' = [node EXCEPT ![n].connections = @ \ {p}, ![n].conn[p].fork = 0]
    /\ UNCHANGED <<silent, faults>>

\* A read or a write fails: the connection is lost.
ConnectionLost(n, p) ==
    /\ faults < MaxFaults /\ faults' = faults + 1
    /\ Alive(n) /\ node[n].conn[p].phase # "closed"
    /\ node' = [node EXCEPT ![n] = unread(close(@, p), silent)]
    /\ UNCHANGED silent

\* p stops, or is cut off, without its sockets being closed.
FallSilent(p) ==
    /\ faults < MaxFaults /\ faults' = faults + 1
    /\ Alive(p) /\ silent' = silent \cup {p}
    /\ node' = [n \in Nodes |-> unread(node[n], {p})]

\* The controller of n, which holds the newest block, accepts a block produced on it.
AcceptProduced(n) ==
    /\ Alive(n) /\ n \in Producers /\ node[n].head < MaxHead
    /\ \A p \in Nodes : node[p].head <= node[n].head
    /\ node' = [node EXCEPT ![n] = unread(bcast_block([@ EXCEPT !.head = node[n].head + 1], None), silent)]
    /\ UNCHANGED <<silent, faults>>

----------------------------------------------------------------------------
\* What the plugin does unless something keeps it from running.
Work(n, p) ==
    Connect(n, p) \/ Receive(n, p) \/ WriteNext(n, p) \/ Timeout(n, p) \/ ReadEof(n, p)

Next ==
    \/ \E n \in Nodes : \E p \in Peers(n) :
        \/ Connect(n, p) \/ Receive(n, p) \/ WriteNext(n, p) \/ Timeout(n, p)
        \/ ReadEof(n, p) \/ EraseConnection(n, p)
        \/ ConnectionLost(n, p) \/ LateAnswer(n, p)
    \/ \E n \in Nodes : AcceptProduced(n) \/ FallSilent(n)

Spec == Init /\ [][Next]_vars

\* Reads, completed writes, timers and the monitor are served while the node runs.
Fairness == WF_vars(\E n \in Nodes : \E p \in Peers(n) : Work(n, p))

LiveSpec == Spec /\ Fairness

----------------------------------------------------------------------------
\* A node that is catching up holds every block below the one it expects:
\* sync_next_expected_num counts blocks that came, not blocks that were asked
\* for, also after a fetch was given to another peer and the first one answers
\* late.
NothingSkipped ==
    /\ TypeOK
    /\ \A n \in Nodes : node[n].state = "lib_catchup" => node[n].head >= node[n].next - 1

\* A node that lacks irreversible blocks and is catching up has asked a usable
\* connection for them and its timer is set: protocol.hpp wants "a constant queue
\* of requests in flight".  The code does not keep it: a notice that arrives in
\* head_catchup starts a fetch that the next block of the branch forgets, but for
\* the number asked for last, and a later fetch takes that number for its own.
WaitsForSomeone ==
    \A n \in Nodes : node[n].state = "lib_catchup" /\ node[n].head < node[n].known =>
        /\ node[n].source # None
        /\ current(node[n], node[n].source) /\ node[n].conn[node[n].source].timer

\* Every running node gets all the blocks the others hold to be irreversible, in
\* spite of a lost connection, a peer that falls silent or an answer later than
\* the timer.  This is about a node that is behind all its peers: next to a peer
\* whose last blocks only are new to it, WaitsForSomeone fails.
CatchesUp ==
    <>[](\A n, p \in Nodes : Alive(n) /\ Alive(p) =>
            node[n].head >= last_irreversible_block_num(node[p]))

\* Every running node gets every block.
EveryoneReachesHead ==
    <>[](\A n, p \in Nodes : Alive(n) /\ Alive(p) => node[n].head = node[p].head)

\* As long as nothing fails, every node gets every block of the peers it dials:
\* the handshakes sent at the end of lib_catchup lead to the requests of
\* head_catchup.
ReachesHead == [](faults = 0) => EveryoneReachesHead
================================================================================
