---------------------------- MODULE PeerSyncProofs ----------------------------
(***************************************************************************)
(* Proofs about PeerSync, for any nodes, foreign peers and bootnodes.      *)
(***************************************************************************)
EXTENDS PeerSync, TLAPS

-----------------------------------------------------------------------------
(* Helpers of the actions.                                                 *)

Known == [Nodes -> SUBSET Addresses]
Syncs == [at : {"idle", "next", "pulse", "request"}, todo : SUBSET Addresses,
          peer : Addresses \cup {NoPeer}]
Starts == [at : {"seeds", "asked", "running"}, todo : SUBSET Peers, seed : Peers]

\* What is remembered is the address of a peer.
LEMMA RememberIsTyped ==
  ASSUME NEW n \in Nodes, NEW p \in Peers, NEW port \in {"listen", "port"},
         known \in Known, Remember(n, p, port)
  PROVE  known' \in Known
BY DEF Remember, Known, Addresses

\* An accepted connection is remembered, or the peer is shut out.
LEMMA AcceptIsTyped ==
  ASSUME NEW n, NEW p \in Peers, known \in Known, Accept(n, p)
  PROVE  known' \in Known
<1>1. CASE n \in Nodes /\ p \in Allowed[n]
  BY <1>1, RememberIsTyped DEF Accept
<1>2. CASE ~(n \in Nodes /\ p \in Allowed[n])
  BY <1>2 DEF Accept
<1> QED BY <1>1, <1>2

\* The answer to a datagram is a datagram the other way.
LEMMA AnswerIsDatagram ==
  ASSUME NEW d \in Datagrams
  PROVE  Answer(d) \in Datagrams /\ Answer(d).to = d.from /\ Answer(d).from = d.to
BY DEF Answer, Datagram, Datagrams

-----------------------------------------------------------------------------
(* Type correctness.                                                       *)

\* The initial state is typed.
LEMMA InitIsTyped == Init => TypeOK
<1> SUFFICES ASSUME Init PROVE TypeOK
  OBVIOUS
<1>1. \A n \in Nodes : StartSeeds(n) \subseteq Peers /\ n \in Peers
  BY ConfigAssumption DEF StartSeeds, Seed, Peers
<1>2. \A n \in Nodes : [at |-> "seeds", todo |-> StartSeeds(n), seed |-> n]
        \in [at : {"seeds", "asked", "running"}, todo : SUBSET Peers, seed : Peers]
  BY <1>1
<1>3. start \in [Nodes -> [at : {"seeds", "asked", "running"}, todo : SUBSET Peers,
                           seed : Peers]]
  BY <1>2 DEF Init
<1>4. sync \in [Nodes -> [at : {"idle", "next", "pulse", "request"},
                          todo : SUBSET Addresses, peer : Addresses \cup {NoPeer}]]
  BY DEF Init, Idle
<1>5. talks \in Seq(Datagrams \cup {Ended, Lost}) /\ Len(talks) <= MaxTalks
  BY ConfigAssumption DEF Init
<1> QED BY <1>3, <1>4, <1>5 DEF Init, TypeOK

\* Every step keeps the types.
LEMMA StepIsTyped == TypeOK /\ [Next]_vars => TypeOK'
<1> SUFFICES ASSUME TypeOK, [Next]_vars
             PROVE  TypeOK'
  OBVIOUS
<1>t. /\ known \in Known /\ sync \in [Nodes -> Syncs] /\ start \in [Nodes -> Starts]
      /\ talks \in Seq(Datagrams \cup {Ended, Lost}) /\ Len(talks) <= MaxTalks
      /\ blocks \in [Nodes -> BOOLEAN] /\ vmHeld \in [Nodes -> BOOLEAN]
      /\ asked \in [Nodes -> BOOLEAN]
  BY DEF TypeOK, Known, Syncs, Starts
<1>q. ASSUME /\ known' \in Known /\ sync' \in [Nodes -> Syncs] /\ start' \in [Nodes -> Starts]
             /\ talks' \in Seq(Datagrams \cup {Ended, Lost}) /\ Len(talks') <= MaxTalks
             /\ blocks' \in [Nodes -> BOOLEAN] /\ vmHeld' \in [Nodes -> BOOLEAN]
             /\ asked' \in [Nodes -> BOOLEAN]
      PROVE  TypeOK'
  BY <1>q DEF TypeOK, Known, Syncs, Starts
<1>p. Nodes \subseteq Peers /\ Foreign \subseteq Peers
  BY DEF Peers
\* another message in an exchange
<1>m. ASSUME NEW i \in DOMAIN talks, NEW d \in Datagrams \cup {Ended, Lost},
             talks' = [talks EXCEPT ![i] = d]
      PROVE  /\ talks' \in Seq(Datagrams \cup {Ended, Lost}) /\ Len(talks') <= MaxTalks
  BY <1>t, <1>m
\* a step of a task that sets its own record
<1>s. ASSUME NEW n \in Nodes, NEW r \in Syncs, sync' = [sync EXCEPT ![n] = r],
             known' \in Known, SyncOnly
      PROVE  TypeOK'
  BY <1>q, <1>s, <1>t DEF SyncOnly
<1>b. ASSUME NEW n \in Nodes, NEW r \in Starts, start' = [start EXCEPT ![n] = r],
             known' \in Known, StartOnly
      PROVE  TypeOK'
  BY <1>q, <1>b, <1>t DEF StartOnly
<1>1. ASSUME NEW n \in Nodes, Discover(n)
      PROVE  TypeOK'
  <2>1. PICK p \in Boot[n] \cup Seed(n) :
          /\ Len(talks) < MaxTalks
          /\ talks' = Append(talks, Datagram("find", n, p))
    BY <1>1 DEF Discover
  <2>2. Datagram("find", n, p) \in Datagrams
    BY <1>p, <2>1, ConfigAssumption DEF Datagram, Datagrams, Seed
  <2>3. talks' \in Seq(Datagrams \cup {Ended, Lost}) /\ Len(talks') <= MaxTalks
    BY <1>t, <2>1, <2>2, ConfigAssumption
  <2> QED BY <1>1, <1>q, <1>t, <2>3 DEF Discover
<1>2. ASSUME NEW n \in Nodes, ReceiveDatagram(n)
      PROVE  TypeOK'
  <2>1. PICK i \in DOMAIN talks :
          /\ talks[i] \in Datagrams /\ talks[i].to = n
          /\ Remember(n, talks[i].from, "listen")
          /\ talks' = [talks EXCEPT ![i] = Answer(talks[i])]
          /\ UNCHANGED <<sync, start, blocks, vmHeld, asked>>
    BY <1>2 DEF ReceiveDatagram
  <2>2. Answer(talks[i]) \in Datagrams /\ talks[i].from \in Peers
    BY <2>1, AnswerIsDatagram DEF Datagrams
  <2>3. known' \in Known
    BY <1>t, <2>1, <2>2, RememberIsTyped
  <2>4. talks' \in Seq(Datagrams \cup {Ended, Lost}) /\ Len(talks') <= MaxTalks
    BY <1>m, <2>1, <2>2
  <2> QED BY <1>q, <1>t, <2>1, <2>3, <2>4
<1>3. ASSUME NEW n \in Nodes, ImportBlocks(n)
      PROVE  TypeOK'
  <2>1. PICK p \in Foreign \cap Allowed[n] :
          known' = [known EXCEPT ![n] = @ \cup {<<p, "port">>}]
    BY <1>3 DEF ImportBlocks
  <2>2. known' \in Known
    BY <1>t, <1>p, <2>1 DEF Known, Addresses
  <2> QED BY <1>3, <1>q, <1>t, <2>2 DEF ImportBlocks
<1>4. ASSUME NEW n \in Nodes, ApplyDelta(n)
      PROVE  TypeOK'
  BY <1>4, <1>q, <1>t DEF ApplyDelta, KeepsGuard
<1>5. ASSUME NEW n \in Nodes, StartRound(n)
      PROVE  TypeOK'
  <2>1. [at |-> "next", todo |-> known[n], peer |-> NoPeer] \in Syncs
    BY <1>t DEF Syncs, Known
  <2> QED BY <1>5, <1>s, <1>t, <2>1 DEF StartRound
<1>6. ASSUME NEW n \in Nodes, Connect(n)
      PROVE  TypeOK'
  <2>1. PICK a \in sync[n].todo :
          \/ /\ sync' = [sync EXCEPT ![n].todo = @ \ {a}]
             /\ UNCHANGED known
          \/ /\ a[2] = "listen"
             /\ sync' = [sync EXCEPT ![n].todo = @ \ {a}, ![n].at = "pulse", ![n].peer = a]
             /\ Accept(a[1], n)
    BY <1>6 DEF Connect
  <2>2. sync[n] \in Syncs /\ a \in Addresses /\ SyncOnly
    BY <1>6, <1>t, <2>1 DEF Connect, Syncs
  <2>3. CASE /\ sync' = [sync EXCEPT ![n].todo = @ \ {a}]
             /\ UNCHANGED known
    <3>1. [sync[n] EXCEPT !.todo = @ \ {a}] \in Syncs
      BY <2>2 DEF Syncs
    <3>2. sync' = [sync EXCEPT ![n] = [sync[n] EXCEPT !.todo = @ \ {a}]]
      BY <1>t, <2>3
    <3> QED BY <1>s, <1>t, <2>2, <2>3, <3>1, <3>2
  <2>4. CASE /\ a[2] = "listen"
             /\ sync' = [sync EXCEPT ![n].todo = @ \ {a}, ![n].at = "pulse", ![n].peer = a]
             /\ Accept(a[1], n)
    <3> DEFINE r == [sync[n] EXCEPT !.todo = @ \ {a}, !.at = "pulse", !.peer = a]
    <3>1. r \in Syncs
      BY <2>2 DEF Syncs
    <3>2. sync' = [sync EXCEPT ![n] = r]
      BY <1>t, <2>4
    <3>3. known' \in Known
      BY <1>t, <1>p, <2>4, AcceptIsTyped
    <3> QED BY <1>s, <2>2, <3>1, <3>2, <3>3
  <2> QED BY <2>1, <2>3, <2>4
<1>a. ASSUME NEW n \in Nodes, NEW at \in {"idle", "next", "pulse", "request"}, SyncTo(n, at),
             UNCHANGED known, SyncOnly
      PROVE  TypeOK'
  <2>1. [sync[n] EXCEPT !.at = at] \in Syncs
    BY <1>t DEF Syncs
  <2>2. sync' = [sync EXCEPT ![n] = [sync[n] EXCEPT !.at = at]]
    BY <1>a, <1>t DEF SyncTo
  <2> QED BY <1>a, <1>s, <1>t, <2>1, <2>2
<1>7. ASSUME NEW n \in Nodes, PulseReply(n) \/ NextPeer(n)
      PROVE  TypeOK'
  <2>1. (SyncTo(n, "request") \/ SyncTo(n, "next")) /\ UNCHANGED known /\ SyncOnly
    BY <1>7 DEF PulseReply, NextPeer
  <2> QED BY <1>a, <2>1
<1>8. ASSUME NEW n \in Nodes, EndRound(n)
      PROVE  TypeOK'
  <2>1. Idle \in Syncs
    BY DEF Idle, Syncs
  <2> QED BY <1>8, <1>s, <1>t, <2>1 DEF EndRound
<1>9. ASSUME NEW n \in Nodes, AskSeed(n)
      PROVE  TypeOK'
  <2>1. PICK p \in start[n].todo :
          \/ /\ start' = [start EXCEPT ![n].todo = @ \ {p}]
             /\ UNCHANGED known
          \/ /\ start' = [start EXCEPT ![n].todo = @ \ {p}, ![n].at = "asked", ![n].seed = p]
             /\ Accept(p, n)
    BY <1>9 DEF AskSeed
  <2>2. start[n] \in Starts /\ p \in Peers /\ StartOnly
    BY <1>9, <1>t, <2>1 DEF AskSeed, Starts
  <2>3. CASE /\ start' = [start EXCEPT ![n].todo = @ \ {p}]
             /\ UNCHANGED known
    <3>1. [start[n] EXCEPT !.todo = @ \ {p}] \in Starts
      BY <2>2 DEF Starts
    <3>2. start' = [start EXCEPT ![n] = [start[n] EXCEPT !.todo = @ \ {p}]]
      BY <1>t, <2>3
    <3> QED BY <1>b, <1>t, <2>2, <2>3, <3>1, <3>2
  <2>4. CASE /\ start' = [start EXCEPT ![n].todo = @ \ {p}, ![n].at = "asked", ![n].seed = p]
             /\ Accept(p, n)
    <3> DEFINE r == [start[n] EXCEPT !.todo = @ \ {p}, !.at = "asked", !.seed = p]
    <3>1. r \in Starts
      BY <2>2 DEF Starts
    <3>2. start' = [start EXCEPT ![n] = r]
      BY <1>t, <2>4
    <3>3. known' \in Known
      BY <1>t, <1>p, <2>4, AcceptIsTyped
    <3> QED BY <1>b, <2>2, <3>1, <3>2, <3>3
  <2> QED BY <2>1, <2>3, <2>4
<1>10. ASSUME NEW n \in Nodes, SeedAnswers(n)
       PROVE  TypeOK'
  <2>1. [start[n] EXCEPT !.at = "running", !.todo = {}] \in Starts
    BY <1>t DEF Starts
  <2>2. start' = [start EXCEPT ![n] = [start[n] EXCEPT !.at = "running", !.todo = {}]]
    BY <1>10, <1>t DEF SeedAnswers
  <2> QED BY <1>10, <1>b, <1>t, <2>1, <2>2 DEF SeedAnswers
<1>11. ASSUME NEW n \in Nodes, SeedSilent(n) \/ StartConsensus(n)
       PROVE  TypeOK'
  <2>1. PICK at \in {"seeds", "running"} : start' = [start EXCEPT ![n].at = at]
    BY <1>11 DEF SeedSilent, StartConsensus
  <2>2. [start[n] EXCEPT !.at = at] \in Starts
    BY <1>t DEF Starts
  <2>3. start' = [start EXCEPT ![n] = [start[n] EXCEPT !.at = at]]
    BY <1>t, <2>1
  <2> QED BY <1>11, <1>b, <1>t, <2>2, <2>3 DEF SeedSilent, StartConsensus
<1>12. ASSUME NEW n \in Nodes, AskVm(n) \/ VmGranted(n)
       PROVE  TypeOK'
  BY <1>12, <1>q, <1>t DEF AskVm, VmGranted
<1>13. CASE LoseDatagram
  <2>1. PICK i \in DOMAIN talks : talks' = [talks EXCEPT ![i] = Lost]
    BY <1>13 DEF LoseDatagram
  <2>2. talks' \in Seq(Datagrams \cup {Ended, Lost}) /\ Len(talks') <= MaxTalks
    BY <1>m, <2>1
  <2> QED BY <1>13, <1>q, <1>t, <2>2 DEF LoseDatagram
<1>14. CASE ForeignPong
  <2>1. PICK i \in DOMAIN talks :
          talks[i] \in Datagrams /\ talks' = [talks EXCEPT ![i] = Answer(talks[i])]
    BY <1>14 DEF ForeignPong, Answer
  <2>2. talks' \in Seq(Datagrams \cup {Ended, Lost}) /\ Len(talks') <= MaxTalks
    BY <1>m, <2>1, AnswerIsDatagram
  <2> QED BY <1>14, <1>q, <1>t, <2>2 DEF ForeignPong
<1>15. CASE UNCHANGED vars
  BY <1>15, <1>q, <1>t DEF vars
<1> QED
  BY <1>1, <1>2, <1>3, <1>4, <1>5, <1>6, <1>7, <1>8, <1>9, <1>10, <1>11, <1>12, <1>13,
     <1>14, <1>15 DEF Next, Round, Starting, Listeners

\* The known peers, the exchanges of datagrams, the rounds and the starts keep their
\* types, for any network; no more conversations are counted than are started.
THEOREM PeersTypeCorrect == Spec => []TypeOK
BY InitIsTyped, StepIsTyped, PTL DEF Spec

-----------------------------------------------------------------------------
(* Exchanges of datagrams.                                                 *)

\* A step that is not a loss leaves every datagram on its way, or answers it.
LEMMA StepKeepsTalks ==
  ASSUME TypeOK, [Next]_vars, ~LoseDatagram,
         NEW i \in DOMAIN talks, talks[i] \in Datagrams
  PROVE  talks'[i] \in Datagrams
<1>t. talks \in Seq(Datagrams \cup {Ended, Lost})
  BY DEF TypeOK
<1>1. ASSUME NEW n \in Nodes, Discover(n)
      PROVE  talks'[i] \in Datagrams
  <2>1. PICK p \in Boot[n] \cup Seed(n) : talks' = Append(talks, Datagram("find", n, p))
    BY <1>1 DEF Discover
  <2>2. talks'[i] = talks[i]
    BY <1>t, <2>1
  <2> QED BY <2>2
<1>a. ASSUME NEW j \in DOMAIN talks, talks[j] \in Datagrams,
             talks' = [talks EXCEPT ![j] = Answer(talks[j])]
      PROVE  talks'[i] \in Datagrams
  BY <1>a, <1>t, AnswerIsDatagram
<1>2. ASSUME NEW n \in Nodes, ReceiveDatagram(n)
      PROVE  talks'[i] \in Datagrams
  BY <1>2, <1>a DEF ReceiveDatagram
<1>3. CASE ForeignPong
  BY <1>3, <1>a DEF ForeignPong, Answer
<1>4. CASE UNCHANGED talks
  BY <1>4
<1> QED
  BY <1>1, <1>2, <1>3, <1>4
  DEF Next, Listeners, Round, Starting, ImportBlocks, ApplyDelta, StartRound, Connect,
      PulseReply, NextPeer, EndRound, AskSeed, SeedAnswers, SeedSilent, StartConsensus,
      AskVm, VmGranted, SyncOnly, StartOnly, vars

\* No exchange of datagrams ends but by a loss, between any peers: a node answers
\* every datagram that names the protocol, answers among them.
THEOREM TalksGoOn == Spec => TalksNeverEnd
<1>1. TypeOK /\ [Next]_vars
        => [\A i \in DOMAIN talks : talks[i] \in Datagrams /\ talks'[i] \notin Datagrams
              => LoseDatagram]_vars
  BY StepKeepsTalks
<1> QED
  BY <1>1, PeersTypeCorrect, PTL DEF Spec, TalksNeverEnd

=============================================================================
