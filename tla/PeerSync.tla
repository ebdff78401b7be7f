------------------------------- MODULE PeerSync -------------------------------
(***************************************************************************)
(* The peer-to-peer tasks of engine_platform: the UDP listener that        *)
(* answers discovery datagrams, the TCP listener with one handler per      *)
(* connection, the proactive task that pulses every known peer, and the    *)
(* synchronisation main performs before it starts the consensus.  Foreign  *)
(* peers speak the protocol's other half, which no code here sends: they   *)
(* may answer pulses and requests and push blocks and state deltas.        *)
(***************************************************************************)
EXTENDS Naturals, Sequences, FiniteSets

CONSTANTS
  Nodes,    \* the nodes that run this program
  Foreign,  \* other peers
  Boot,     \* Boot[n]: --bootnodes, the peers main asks and discovery starts from
  AtSeed,   \* nodes that are their own seed: their port is that of 127.0.0.1:30305
  Allowed,  \* Allowed[n]: peers whose address --allowed-cidr lets in
  Users,    \* nodes of which another task uses the VM
  MaxTalks  \* bound: discovery datagrams that start a conversation

Peers == Nodes \cup Foreign

ASSUME PeersAssumption == IsFiniteSet(Peers) /\ Nodes \cap Foreign = {}
ASSUME ConfigAssumption ==
  /\ Boot \in [Nodes -> SUBSET Peers] /\ AtSeed \subseteq Nodes
  /\ Allowed \in [Nodes -> SUBSET Peers]
  /\ Users \subseteq Nodes /\ MaxTalks \in Nat

VARIABLES
  known,    \* known_peers: <<p, "listen">> or, of an accepted connection, <<p, "port">>
  talks,    \* per discovery datagram, the message of its exchange now on its way
  sync,     \* the proactive task: where it is, its snapshot, its peer
  start,    \* main before the consensus: where it is, the seeds left and the one asked
  blocks,   \* are there RocksDB keys block:full:N
  vmHeld,   \* has a handler kept vm.read() while it waits for vm.write()
  asked     \* does another task of the node wait for the VM

vars == <<known, talks, sync, start, blocks, vmHeld, asked>>

Addresses == Peers \X {"listen", "port"}
NoPeer == <<"none", "none">>
Idle == [at |-> "idle", todo |-> {}, peer |-> NoPeer]

Ended == [kind |-> "ended"]
Lost == [kind |-> "lost"]
Datagram(kind, from, to) == [kind |-> kind, from |-> from, to |-> to]
Datagrams == [kind : {"find", "pong"}, from : Peers, to : Peers]

Seed(n) == {n} \cap AtSeed

\* without bootnodes, the one fallback
StartSeeds(n) == IF Boot[n] = {} THEN Seed(n) ELSE Boot[n]

Init ==
  /\ known = [n \in Nodes |-> {}]
  /\ talks = <<>>
  /\ sync = [n \in Nodes |-> Idle]
  /\ start = [n \in Nodes |-> [at |-> "seeds", todo |-> StartSeeds(n), seed |-> n]]
  /\ blocks = [n \in Nodes |-> FALSE]
  /\ vmHeld = [n \in Nodes |-> FALSE] /\ asked = [n \in Nodes |-> FALSE]

\* an address is remembered unless it is the host's own
Remember(n, p, port) ==
  known' = [known EXCEPT ![n] = IF p = n THEN @ ELSE @ \cup {<<p, port>>}]

-----------------------------------------------------------------------------
(* Discovery over UDP.                                                     *)

\* at start to the bootnodes, every 30 s to the seed; a broadcast is refused by
\* the socket, which never asks for the right to send one
Discover(n) ==
  \E p \in Boot[n] \cup Seed(n) :
    /\ Len(talks) < MaxTalks
    /\ talks' = Append(talks, Datagram("find", n, p))
    /\ UNCHANGED <<known, sync, start, blocks, vmHeld, asked>>

\* every datagram with "slu#" or "find_node" in it is answered with a pong,
\* and a pong has "slu#" in it
Answer_Find(d) ==
  IF d.kind = "find" THEN Datagram("pong", d.to, d.from) ELSE Ended
Answer_Echo(d) == [Datagram(d.kind, d.to, d.from) EXCEPT !.kind = "node"]
Answer(d) == Datagram("pong", d.to, d.from)

ReceiveDatagram(n) ==
  \E i \in DOMAIN talks :
    /\ talks[i] \in Datagrams /\ talks[i].to = n
    /\ Remember(n, talks[i].from, "listen")
    /\ talks' = [talks EXCEPT ![i] = Answer(talks[i])]
    /\ UNCHANGED <<sync, start, blocks, vmHeld, asked>>

\* the network loses a datagram, or a foreign peer answers it or does not
LoseDatagram ==
  \E i \in DOMAIN talks :
    /\ talks[i] \in Datagrams
    /\ talks' = [talks EXCEPT ![i] = Lost]
    /\ UNCHANGED <<known, sync, start, blocks, vmHeld, asked>>

ForeignPong ==
  \E i \in DOMAIN talks :
    /\ talks[i] \in Datagrams /\ talks[i].to \in Foreign
    /\ talks' = [talks EXCEPT ![i] = Datagram("pong", @.to, @.from)]
    /\ UNCHANGED <<known, sync, start, blocks, vmHeld, asked>>

-----------------------------------------------------------------------------
(* The TCP listener.                                                       *)

\* accept: a peer outside the CIDR is shut out, any other is remembered with
\* the port of its connection
Accept(n, p) ==
  IF n \in Nodes /\ p \in Allowed[n] THEN Remember(n, p, "port")
  ELSE UNCHANGED known

\* slu#resp#full#: blocks are stored as they come, under vm.read(), which is
\* not granted while a writer waits
ImportBlocks(n) ==
  \E p \in Foreign \cap Allowed[n] :
    /\ ~vmHeld[n]
    /\ blocks' = [blocks EXCEPT ![n] = TRUE]
    /\ known' = [known EXCEPT ![n] = @ \cup {<<p, "port">>}]
    /\ UNCHANGED <<talks, sync, start, vmHeld, asked>>

\* state_delta: the guard of `if let Some(..) = engine.vm.read().await...` lives
\* through its body, which awaits engine.vm.write(): nothing leaves this state
\* and the accounts of the delta are never written
KeepsGuard(n) == TRUE

ApplyDelta(n) ==
  /\ Foreign \cap Allowed[n] # {} /\ ~vmHeld[n]
  /\ vmHeld' = [vmHeld EXCEPT ![n] = KeepsGuard(n)]
  /\ UNCHANGED <<known, talks, sync, start, blocks, asked>>

VmFree_AfterImport(n) == ~vmHeld[n] /\ ~blocks[n]
VmFree(n) == ~vmHeld[n]

\* any other task of the node that needs the VM
AskVm(n) ==
  /\ n \in Users /\ ~asked[n] /\ asked' = [asked EXCEPT ![n] = TRUE]
  /\ UNCHANGED <<known, talks, sync, start, blocks, vmHeld>>

VmGranted(n) ==
  /\ asked[n] /\ VmFree(n) /\ asked' = [asked EXCEPT ![n] = FALSE]
  /\ UNCHANGED <<known, talks, sync, start, blocks, vmHeld>>

-----------------------------------------------------------------------------
(* The proactive task, every 20 s.                                         *)

SyncTo(n, at) == sync' = [sync EXCEPT ![n].at = at]
SyncOnly == UNCHANGED <<talks, start, blocks, vmHeld, asked>>

\* the peers are read once for the whole round
StartRound(n) ==
  /\ sync[n].at = "idle" /\ known[n] # {}
  /\ sync' = [sync EXCEPT ![n] = [at |-> "next", todo |-> known[n], peer |-> NoPeer]]
  /\ UNCHANGED known /\ SyncOnly

\* a connection is refused where nobody listens, as on the port of a connection
\* that a peer made; one that is made carries the pulse
Connect(n) ==
  /\ sync[n].at = "next"
  /\ \E a \in sync[n].todo :
       \/ /\ sync' = [sync EXCEPT ![n].todo = @ \ {a}]
          /\ UNCHANGED known
       \/ /\ a[2] = "listen"
          /\ sync' = [sync EXCEPT ![n].todo = @ \ {a}, ![n].at = "pulse",
                                  ![n].peer = a]
          /\ Accept(a[1], n)
  /\ SyncOnly

\* ten seconds for a pulse in return: a node logs the pulse and sends none.
\* A reply whose head is more than five above the one read at the start of the
\* round is answered by a request
PulseReply(n) ==
  /\ sync[n].at = "pulse" /\ sync[n].peer[1] \in Foreign
  /\ SyncTo(n, "request") \/ SyncTo(n, "next")
  /\ UNCHANGED known /\ SyncOnly

\* after a timeout, a closed connection or the reply, which is only logged, it
\* goes on with the next peer
WaitOver_NoTimeout(at) == at = "request"
WaitOver(at) == at \in {"pulse", "request"}

NextPeer(n) ==
  /\ WaitOver(sync[n].at) /\ SyncTo(n, "next")
  /\ UNCHANGED known /\ SyncOnly

EndRound(n) ==
  /\ sync[n].at = "next" /\ sync[n].todo = {}
  /\ sync' = [sync EXCEPT ![n] = Idle]
  /\ UNCHANGED known /\ SyncOnly

-----------------------------------------------------------------------------
(* main: the synchronisation of a new node, and then the consensus.        *)

StartOnly == UNCHANGED <<talks, sync, blocks, vmHeld, asked>>

AskSeed(n) ==
  /\ start[n].at = "seeds"
  /\ \E p \in start[n].todo :
       \/ /\ start' = [start EXCEPT ![n].todo = @ \ {p}]
          /\ UNCHANGED known
       \/ /\ start' = [start EXCEPT ![n].todo = @ \ {p}, ![n].at = "asked",
                                    ![n].seed = p]
          /\ Accept(p, n)
  /\ StartOnly

\* 120 s for an answer; its first bytes are looked at, its blocks are not
SeedAnswers(n) ==
  /\ start[n].at = "asked" /\ start[n].seed \in Foreign
  /\ start' = [start EXCEPT ![n].at = "running", ![n].todo = {}]
  /\ UNCHANGED known /\ StartOnly

SeedSilent(n) ==
  /\ start[n].at = "asked"
  /\ start' = [start EXCEPT ![n].at = "seeds"]
  /\ UNCHANGED known /\ StartOnly

StartConsensus(n) ==
  /\ start[n].at = "seeds" /\ start[n].todo = {}
  /\ start' = [start EXCEPT ![n].at = "running"]
  /\ UNCHANGED known /\ StartOnly

-----------------------------------------------------------------------------
Round(n) == StartRound(n) \/ Connect(n) \/ PulseReply(n) \/ NextPeer(n) \/ EndRound(n)
Starting(n) == AskSeed(n) \/ SeedAnswers(n) \/ SeedSilent(n) \/ StartConsensus(n)
Listeners(n) == ReceiveDatagram(n) \/ ImportBlocks(n) \/ ApplyDelta(n)

Next ==
  \/ \E n \in Nodes :
       Discover(n) \/ Listeners(n) \/ Round(n) \/ Starting(n)
       \/ AskVm(n) \/ VmGranted(n)
  \/ LoseDatagram \/ ForeignPong

Spec == Init /\ [][Next]_vars

\* the runtime polls the tasks, and every wait of theirs has a timeout; nothing
\* is assumed of the peers, the network and the other users of the VM
FairSpec ==
  /\ Spec
  /\ \A n \in Nodes :
       /\ WF_vars(Connect(n) \/ PulseReply(n) \/ NextPeer(n) \/ EndRound(n))
       /\ WF_vars(Starting(n)) /\ WF_vars(VmGranted(n))

-----------------------------------------------------------------------------
(* Properties.                                                             *)

TypeOK ==
  /\ known \in [Nodes -> SUBSET Addresses]
  /\ talks \in Seq(Datagrams \cup {Ended, Lost}) /\ Len(talks) <= MaxTalks
  /\ sync \in [Nodes -> [at : {"idle", "next", "pulse", "request"},
                         todo : SUBSET Addresses, peer : Addresses \cup {NoPeer}]]
  /\ start \in [Nodes -> [at : {"seeds", "asked", "running"},
                          todo : SUBSET Peers, seed : Peers]]
  /\ blocks \in [Nodes -> BOOLEAN]
  /\ vmHeld \in [Nodes -> BOOLEAN] /\ asked \in [Nodes -> BOOLEAN]

\* Whatever the peers send or fail to send, a task that waits for the VM gets
\* it, unless a state delta arrived: then the handler that holds the read guard
\* waits for the write guard, and everybody else behind it.
VmServed == \A n \in Nodes : asked[n] ~> (~asked[n] \/ vmHeld[n])

\* A round of the proactive task ends and the consensus starts, though every
\* node of the network may be waiting for a reply that no node ever sends.
RoundsEnd == \A n \in Nodes : sync[n].at # "idle" ~> sync[n].at = "idle"
ConsensusStarts == \A n \in Nodes : <>(start[n].at = "running")

\* Nothing that a peer sends or keeps back stops a node: its VM serves its users, as
\* VmServed says, its rounds end and its consensus starts.
NodesGoOn == VmServed /\ RoundsEnd /\ ConsensusStarts

\* No exchange of datagrams ends but by a loss: a node answers the answer too.
\* Between any two nodes that have found each other, or a node and itself, one
\* datagram per discovery goes to and fro from then on.
TalksNeverEnd ==
  [][\A i \in DOMAIN talks : talks[i] \in Datagrams /\ talks'[i] \notin Datagrams
       => LoseDatagram]_vars

=============================================================================
